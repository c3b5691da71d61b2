------------------------- MODULE ModuleLoaderProofs -------------------------
(***************************************************************************)
(* Proofs about ModuleLoader, for any names, texts and bounds.  What needs *)
(* no hypothesis comes first; then contexts whose native functions do not  *)
(* evaluate modules; then those whose files do not import each other in    *)
(* circles, either; at the end circular imports again: the pointers that   *)
(* failures leave, and the order of evaluation.                            *)
(***************************************************************************)
EXTENDS ModuleLoader, SequenceTheorems, WellFoundedInduction, TLAPS

DefType == [name : Names \cup {Root, "none"}, req : Seq(Names),
            tgt : Seq(0..MaxDefs), flags : SUBSET Flags]
FrameType == [op : {"base", "resolve", "create", "link", "evaluate", "body"},
              mod : Addr, i : Nat \ {0}, owned : BOOLEAN]

Defined == 1..(nextDef - 1)
Height == Len(stack)
Phase == stack[1].i

-----------------------------------------------------------------------------
(***************************************************************************)
(* The stack of a context whose native functions do not evaluate modules:  *)
(* at its bottom the evaluation, above it the frames of one traversal.     *)
(***************************************************************************)
OpsOf == <<{"resolve"}, {"create"}, {"link"}, {"evaluate", "body"}>>
FlagIn == <<"resolved", "created", "linked", "mark">>

BottomInv ==
    /\ stack = <<>> => ~failing
    /\ stack # <<>> =>
          /\ stack[1].op = "base" /\ Phase \in 1..4
          /\ ~failing \/ Phase > 1 => stack[1].mod \in loaded

\* Each frame has marked its module, so that no module has two.
FrameInv ==
    /\ \A j \in 2..Height :
          /\ stack[j].op \in OpsOf[Phase]
          /\ stack[j].op = "body" => j = Height
          /\ stack[j].mod \in loaded
          /\ Has(stack[j].mod, FlagIn[Phase])
    /\ \A j, k \in 2..Height : stack[j].mod = stack[k].mod => j = k

-----------------------------------------------------------------------------
(***************************************************************************)
(* The import graph.  A grading puts each file above what it imports, and  *)
(* the script given to eval above all.                                     *)
(***************************************************************************)
Gradings(t) ==
    {h \in [Names \cup {Root} -> Nat] :
        /\ \A n \in Names : h[n] < h[Root]
        /\ \A f \in Files : \A i \in DOMAIN t[f] : h[t[f][i]] < h[f]}

Acyclic == \A t \in Texts : Gradings(t) # {}

Grade == CHOOSE h : h \in Gradings(text)
GradeOf(a) == Grade[def[a].name]

\* What the definitions say about the texts.
NameInv ==
    \A a \in Defined :
        /\ def[a].name \in Natives \cup Files \cup {Root}
        /\ def[a].name \in Natives => def[a].req = <<>> /\ a \in swift
        /\ def[a].name \in Files => def[a].req = text[def[a].name]
        /\ \A i \in 1..Len(def[a].tgt) :
              def[a].tgt[i] # 0 => def[def[a].tgt[i]].name = def[a].req[i]

\* What is not resolved has no requests, and none is met twice.
ResolvedInv ==
    /\ \A a \in Defined : Has(a, "resolved") \/ def[a].name \in Natives
    /\ \A j \in 2..Height : Phase = 1 =>
          \A i \in 1..Len(def[stack[j].mod].tgt) :
              i >= stack[j].i => def[stack[j].mod].tgt[i] = 0

\* Requests are met by loaded modules, except the ones that a frame is about
\* to meet; nobody has found the module of a frame that may free it.
RequestInv ==
    /\ \A m \in loaded : \A i \in 1..Len(def[m].tgt) :
          /\ def[m].tgt[i] # 0 => def[m].tgt[i] \in loaded
          /\ def[m].tgt[i] = 0 =>
                \E j \in 2..Height : /\ Phase = 1 /\ stack[j].owned
                                     /\ stack[j].mod = m /\ i >= stack[j].i
    /\ \A j \in 2..Height : Phase = 1 /\ stack[j].owned =>
          \A m \in loaded : \A i \in 1..Len(def[m].tgt) :
              def[m].tgt[i] # stack[j].mod

\* The stack goes down in the import graph.
PathInv ==
    \A j, k \in 2..Height : j < k => GradeOf(stack[k].mod) < GradeOf(stack[j].mod)

-----------------------------------------------------------------------------
(***************************************************************************)
(* Evaluation.                                                             *)
(***************************************************************************)
MarkInv == \A a \in Defined : Has(a, "mark") =>
              \E j \in 2..Height : Phase = 4 /\ stack[j].mod = a

\* A module has run if it is evaluated or in its body.
RanInv ==
    /\ \A a \in Addr : ran[a] \in {0, 1} /\ (a \notin Defined => ran[a] = 0)
    /\ \A a \in Defined :
        /\ Has(a, "exc") => Has(a, "evaluated")
        /\ Has(a, "evaluated") =>
              ran[a] = 1 /\ (IsNative(a) => Has(a, "exported") /\ ~Has(a, "exc"))
        /\ ran[a] = 1 =>
              /\ Has(a, "evaluated")
                    \/ \E j \in 2..Height : stack[j].op = "body" /\ stack[j].mod = a
              /\ \A i \in 1..Len(def[a].tgt) :
                    def[a].tgt[i] # 0 /\ Succeeded(def[a].tgt[i])

BodyInv ==
    \A j \in 2..Height : stack[j].op = "body" =>
        ran[stack[j].mod] = 1 /\ ~IsNative(stack[j].mod)

\* The requests that a frame has behind it have succeeded; about the last of
\* them the frame above will say, or the exception says.
BehindInv ==
    \A j \in 2..Height : Phase = 4 =>
        /\ ~Has(stack[j].mod, "evaluated")
        /\ stack[j].op = "evaluate" =>
              \A i \in 1..Len(def[stack[j].mod].tgt) : i < stack[j].i =>
                  \/ Succeeded(def[stack[j].mod].tgt[i])
                  \/ /\ i = stack[j].i - 1
                     /\ failing \/ (/\ j < Height
                                    /\ stack[j + 1].mod = def[stack[j].mod].tgt[i])

RootInv ==
    stack # <<>> /\ Phase = 4 =>
        \/ failing
        \/ Has(stack[1].mod, "evaluated")
        \/ Height >= 2 /\ stack[2].mod = stack[1].mod

Begun(m) == Has(m, "created") \/ Has(m, "linked")

\* A module that has been begun and not evaluated is the one that is
\* evaluated, or some module that has been begun imports it.
BegunInv ==
    \A m \in loaded : Begun(m) /\ ~Has(m, "evaluated") =>
        /\ stack # <<>> /\ Phase >= 2
        /\ \/ m = stack[1].mod
           \/ \E k \in loaded : Begun(k) /\ \E i \in 1..Len(def[k].tgt) : def[k].tgt[i] = m

-----------------------------------------------------------------------------
(***************************************************************************)
(* The effects of steps on the definitions and on the stack.               *)
(***************************************************************************)
SetFlags(m, F) ==
    /\ def' \in [Addr -> DefType]
    /\ \A a \in Addr :
          /\ def'[a].name = def[a].name /\ def'[a].req = def[a].req
          /\ def'[a].tgt = def[a].tgt
          /\ def'[a].flags = IF a = m THEN F ELSE def[a].flags

IsBelow(s) ==
    /\ s \in Seq(FrameType) /\ Len(s) = Height - 1
    /\ \A j \in 1..Height - 1 : s[j] = stack[j]

IsAdvanced(s) ==
    /\ s \in Seq(FrameType) /\ Len(s) = Height
    /\ \A j \in 1..Height - 1 : s[j] = stack[j]
    /\ s[Height].op = Top.op /\ s[Height].mod = Top.mod
    /\ s[Height].i = Top.i + 1
    /\ s[Height].owned <=> Top.owned

IsPushed(s, t, f) ==
    /\ t \in Seq(FrameType) /\ Len(t) = Len(s) + 1
    /\ \A j \in 1..Len(s) : t[j] = s[j]
    /\ t[Len(s) + 1] = f

LEMMA FlagsEffect ==
    ASSUME def \in [Addr -> DefType], NEW m \in Addr, NEW F \in SUBSET Flags,
           def' = [def EXCEPT ![m].flags = F]
    PROVE  SetFlags(m, F)
BY DEF SetFlags, DefType

LEMMA TopType ==
    ASSUME TypeOK, stack # <<>>
    PROVE  /\ Height \in Nat \ {0} /\ Top = stack[Height] /\ Top \in FrameType
           /\ Top.mod \in Defined /\ Top.mod \in Addr /\ Top.i \in Nat \ {0}
           /\ IsBelow(Below)
           /\ IsAdvanced(Advanced)
<1>1. Height \in Nat \ {0} /\ stack \in Seq(FrameType) /\ Top = stack[Height]
  BY DEF TypeOK, FrameType, Height, Top
<1>2. Top \in FrameType /\ Top.mod < nextDef
  BY <1>1 DEF TypeOK, Height
<1>3. nextDef \in Nat
  BY BoundsAssumption DEF TypeOK
<1>4. Top.mod \in Addr /\ Top.i \in Nat \ {0} /\ Top.mod \in Defined
  BY <1>2, <1>3, BoundsAssumption DEF FrameType, Addr, Defined
<1>5. IsBelow(Below)
  <2> DEFINE n == Height - 1
  <2>1. n \in Nat /\ \A i \in 1..n : stack[i] \in FrameType
    BY <1>1 DEF Height
  <2> HIDE DEF n
  <2>2. /\ SubSeq(stack, 1, n) \in Seq(FrameType)
        /\ Len(SubSeq(stack, 1, n)) = IF 1 <= n THEN n - 1 + 1 ELSE 0
        /\ \A i \in 1..(n - 1 + 1) : SubSeq(stack, 1, n)[i] = stack[1 + i - 1]
    BY <2>1, SubSeqProperties
  <2>3. /\ Len(SubSeq(stack, 1, n)) = n
        /\ \A i \in 1..n : SubSeq(stack, 1, n)[i] = stack[i]
    BY <2>1, <2>2
  <2>4. QED
    BY <2>2, <2>3 DEF IsBelow, Below, n, Height
<1>6. IsAdvanced(Advanced)
  <2> DEFINE f == [Top EXCEPT !.i = @ + 1]
  <2>1. /\ f \in FrameType /\ f.op = Top.op /\ f.mod = Top.mod /\ f.i = Top.i + 1
        /\ f.owned = Top.owned
    BY <1>2, <1>4 DEF FrameType
  <2> HIDE DEF f
  <2>2. Advanced = Append(Below, f)
    BY DEF Advanced, f
  <2>3. /\ Advanced \in Seq(FrameType) /\ Len(Advanced) = Height
        /\ Advanced[Height] = f
        /\ \A j \in 1..Height - 1 : Advanced[j] = Below[j]
    BY <1>1, <1>5, <2>1, <2>2 DEF IsBelow
  <2>4. QED
    BY <1>5, <2>1, <2>3 DEF IsBelow, IsAdvanced
<1>7. QED
  BY <1>1, <1>2, <1>4, <1>5, <1>6

LEMMA FrameOfType ==
    ASSUME NEW op \in {"base", "resolve", "create", "link", "evaluate", "body"},
           NEW m \in Addr, NEW o \in BOOLEAN
    PROVE  /\ Frame(op, m, o) \in FrameType
           /\ Frame(op, m, o).op = op /\ Frame(op, m, o).mod = m
           /\ Frame(op, m, o).i = 1
BY DEF Frame, FrameType

LEMMA OwnedFrame ==
    ASSUME NEW op, NEW m
    PROVE  Frame(op, m, TRUE).owned /\ ~Frame(op, m, FALSE).owned
BY DEF Frame

LEMMA PushEffect ==
    ASSUME NEW s \in Seq(FrameType), NEW f \in FrameType
    PROVE  IsPushed(s, Append(s, f), f)
BY DEF IsPushed

LEMMA SeqAt ==
    ASSUME NEW T, NEW t \in Seq(T), NEW i \in 1..Len(t)
    PROVE  t[i] \in T /\ i \in DOMAIN t
OBVIOUS

\* The loaded modules and the ones that Swift knows are defined.
LEMMA TypeFacts ==
    ASSUME TypeOK
    PROVE  /\ nextDef \in Nat \ {0} /\ Defined \subseteq Addr
           /\ loaded \subseteq Defined /\ swift \subseteq Defined
           /\ def \in [Addr -> DefType]
           /\ \A a \in Addr : /\ def[a].req \in Seq(Names) /\ def[a].tgt \in Seq(0..MaxDefs)
                              /\ def[a].flags \in SUBSET Flags
                              /\ Len(def[a].req) = Len(def[a].tgt)
                              /\ Len(def[a].tgt) \in Nat
                              /\ \A i \in 1..Len(def[a].tgt) :
                                    /\ def[a].tgt[i] \in 0..MaxDefs
                                    /\ def[a].tgt[i] = 0 \/ def[a].tgt[i] \in Defined
           /\ stack \in Seq(FrameType) /\ Height \in Nat
           /\ \A j \in 1..Height : stack[j] \in FrameType /\ stack[j].mod \in Defined
<1>1. nextDef \in Nat \ {0} /\ Defined \subseteq Addr
      /\ loaded \subseteq Defined /\ swift \subseteq Defined
  BY BoundsAssumption DEF TypeOK, Defined, Addr
<1>2. def \in [Addr -> DefType]
  BY DEF TypeOK, DefType
<1>3. ASSUME NEW a \in Addr
      PROVE  /\ def[a].req \in Seq(Names) /\ def[a].tgt \in Seq(0..MaxDefs)
             /\ def[a].flags \in SUBSET Flags
             /\ Len(def[a].req) = Len(def[a].tgt)
             /\ Len(def[a].tgt) \in Nat
             /\ \A i \in 1..Len(def[a].tgt) :
                   /\ def[a].tgt[i] \in 0..MaxDefs
                   /\ def[a].tgt[i] = 0 \/ def[a].tgt[i] \in Defined
  <2>1. /\ def[a].req \in Seq(Names) /\ def[a].tgt \in Seq(0..MaxDefs)
        /\ def[a].flags \in SUBSET Flags
    BY <1>2 DEF DefType
  <2>2. Len(def[a].req) = Len(def[a].tgt) /\ Len(def[a].tgt) \in Nat
    BY <2>1 DEF TypeOK
  <2>3. ASSUME NEW i \in 1..Len(def[a].tgt)
        PROVE  /\ def[a].tgt[i] \in 0..MaxDefs
               /\ def[a].tgt[i] = 0 \/ def[a].tgt[i] \in Defined
    <3> DEFINE t == def[a].tgt
    <3>1. t[i] \in 0..MaxDefs /\ i \in DOMAIN t
      <4>1. t \in Seq(0..MaxDefs) /\ i \in 1..Len(t)
        BY <2>1
      <4> HIDE DEF t
      <4>2. QED
        BY <4>1, SeqAt
    <3>2. def[a].tgt[i] < nextDef
      BY <3>1 DEF TypeOK
    <3>3. QED
      BY <1>1, <3>1, <3>2, BoundsAssumption DEF Defined
  <2>4. QED
    BY <2>1, <2>2, <2>3
<1>4. stack \in Seq(FrameType) /\ Height \in Nat
  BY DEF TypeOK, FrameType, Height
<1>5. ASSUME NEW j \in 1..Height
      PROVE  stack[j] \in FrameType /\ stack[j].mod \in Defined
  <2>1. stack[j] \in FrameType /\ j \in DOMAIN stack
    BY <1>4 DEF Height
  <2>2. stack[j].mod < nextDef /\ stack[j].mod \in Addr
    BY <2>1 DEF TypeOK, FrameType
  <2>3. QED
    BY <1>1, <2>1, <2>2, BoundsAssumption DEF Defined, Addr
<1>6. QED
  BY <1>1, <1>2, <1>3, <1>4, <1>5

\* Types from the effect on the definitions and on the stack.
LEMMA TypeAgain ==
    ASSUME TypeOK, text' = text, nextDef' \in 1..(MaxDefs + 1), nextDef <= nextDef',
           loaded' \subseteq 1..(nextDef' - 1), swift' \subseteq 1..(nextDef' - 1),
           def' \in [Addr -> DefType],
           \A a \in Addr : /\ Len(def'[a].tgt) = Len(def'[a].req)
                           /\ \A i \in 1..Len(def'[a].tgt) : def'[a].tgt[i] < nextDef',
           stack' \in Seq(FrameType),
           \A j \in 1..Len(stack') : stack'[j].mod < nextDef',
           failing' \in BOOLEAN, ran' \in [Addr -> Nat], fault' \in BOOLEAN
    PROVE  TypeOK'
<1>1. \A a \in Addr : DOMAIN def'[a].tgt = 1..Len(def'[a].tgt)
  BY DEF DefType
<1>2. DOMAIN stack' = 1..Len(stack')
  OBVIOUS
<1>3. QED
  BY <1>1, <1>2 DEF TypeOK, DefType, FrameType

\* A step that changes flags, and the stack so that its modules were there.
LEMMA TypeFlags ==
    ASSUME TypeOK, NEW m, NEW F, SetFlags(m, F) \/ def' = def,
           stack' \in Seq(FrameType),
           \A j \in 1..Len(stack') : stack'[j].mod \in Defined,
           loaded' \subseteq loaded,
           UNCHANGED <<text, nextDef, swift>>, failing' \in BOOLEAN,
           ran' \in [Addr -> Nat], fault' \in BOOLEAN
    PROVE  TypeOK'
<1>1. /\ nextDef \in Nat \ {0} /\ Defined \subseteq Addr /\ def \in [Addr -> DefType]
      /\ loaded \subseteq Defined /\ swift \subseteq Defined
  BY TypeFacts
<1>2. nextDef' \in 1..(MaxDefs + 1) /\ nextDef <= nextDef'
  BY <1>1 DEF TypeOK
<1>3. loaded' \subseteq 1..(nextDef' - 1) /\ swift' \subseteq 1..(nextDef' - 1)
  BY <1>1 DEF Defined
<1>4. def' \in [Addr -> DefType] /\ \A a \in Addr : def'[a].tgt = def[a].tgt /\ def'[a].req = def[a].req
  BY <1>1 DEF SetFlags
<1>5. \A a \in Addr : /\ Len(def'[a].tgt) = Len(def'[a].req)
                      /\ \A i \in 1..Len(def'[a].tgt) : def'[a].tgt[i] < nextDef'
  <2>1. \A a \in Addr : \A i \in 1..Len(def[a].tgt) : def[a].tgt[i] < nextDef
    <3>1. \A a \in Addr : DOMAIN def[a].tgt = 1..Len(def[a].tgt)
      BY <1>1 DEF DefType
    <3>2. QED
      BY <3>1 DEF TypeOK
  <2>2. QED
    BY <1>4, <2>1, TypeFacts
<1>6. \A j \in 1..Len(stack') : stack'[j].mod < nextDef'
  BY <1>1 DEF Defined
<1>7. QED
  BY <1>2, <1>3, <1>4, <1>5, <1>6, TypeAgain

\* A new definition.
Defines(name, imports, F) ==
    /\ nextDef \in Addr /\ nextDef' = nextDef + 1
    /\ loaded' = loaded \cup {nextDef}
    /\ def' \in [Addr -> DefType]
    /\ \A a \in Addr \ {nextDef} : def'[a] = def[a]
    /\ LET d == def'[nextDef]
       IN  /\ d.name = name /\ d.req = imports /\ d.flags = F
           /\ Len(d.tgt) = Len(imports)
           /\ \A i \in 1..Len(imports) : d.tgt[i] = 0

LEMMA DefinesEffect ==
    ASSUME TypeOK, NEW name \in Names \cup {Root}, NEW imports \in Seq(Names),
           NEW F \in SUBSET Flags, nextDef \in Addr, nextDef' = nextDef + 1,
           loaded' = loaded \cup {nextDef},
           def' = [def EXCEPT ![nextDef] = [NewDef(name, imports) EXCEPT !.flags = F]]
    PROVE  Defines(name, imports, F)
<1> DEFINE n == Len(imports)
           tgt == [i \in DOMAIN imports |-> 0]
           d == [name |-> name, req |-> imports, tgt |-> tgt, flags |-> F]
<1>1. n \in Nat /\ DOMAIN imports = 1..n
  OBVIOUS
<1>2. tgt \in [1..n -> 0..MaxDefs] /\ \A i \in 1..n : tgt[i] = 0
  BY <1>1, BoundsAssumption
<1>3. [NewDef(name, imports) EXCEPT !.flags = F] = d
  BY DEF NewDef
<1> HIDE DEF tgt, n
<1>4. tgt \in Seq(0..MaxDefs) /\ Len(tgt) = n
  <2> DEFINE T == 0..MaxDefs
  <2>1. tgt \in [1..n -> T] /\ n \in Nat
    BY <1>1, <1>2
  <2> HIDE DEF T
  <2>2. tgt \in Seq(T) /\ Len(tgt) = n
    BY <2>1
  <2>3. QED
    BY <2>2 DEF T
<1>5. d \in DefType
  BY <1>4 DEF DefType
<1>6. def' = [def EXCEPT ![nextDef] = d]
  BY <1>3
<1>7. d.name = name /\ d.req = imports /\ d.flags = F /\ d.tgt = tgt
  OBVIOUS
<1> HIDE DEF d
<1>8. def \in [Addr -> DefType]
  BY TypeFacts
<1>9. /\ def' \in [Addr -> DefType] /\ def'[nextDef] = d
      /\ \A a \in Addr \ {nextDef} : def'[a] = def[a]
  BY <1>5, <1>6, <1>8
<1>10. QED
  BY <1>2, <1>4, <1>7, <1>9 DEF Defines, n

\* Types after a new definition.
LEMMA TypeDefines ==
    ASSUME TypeOK, NEW name \in Names \cup {Root}, NEW imports \in Seq(Names),
           NEW F, Defines(name, imports, F),
           stack' \in Seq(FrameType),
           \A j \in 1..Len(stack') : stack'[j].mod \in Defined \cup {nextDef},
           swift' \subseteq Defined \cup {nextDef},
           text' = text, failing' \in BOOLEAN, ran' = ran, fault' = fault
    PROVE  TypeOK'
<1>1. /\ nextDef \in Nat \ {0} /\ loaded \subseteq Defined /\ nextDef \in Addr
      /\ nextDef' = nextDef + 1
  BY TypeFacts DEF Defines
<1>2. nextDef' \in 1..(MaxDefs + 1) /\ nextDef <= nextDef'
  BY <1>1, BoundsAssumption DEF Addr
<1>3. Defined \cup {nextDef} \subseteq 1..(nextDef' - 1)
  BY <1>1 DEF Defined
<1>4. loaded' \subseteq 1..(nextDef' - 1) /\ swift' \subseteq 1..(nextDef' - 1)
  BY <1>1, <1>3 DEF Defines
<1>5. ASSUME NEW a \in Addr
      PROVE  /\ Len(def'[a].tgt) = Len(def'[a].req)
             /\ \A i \in 1..Len(def'[a].tgt) : def'[a].tgt[i] < nextDef'
  <2>1. CASE a = nextDef
    BY <1>1, <2>1 DEF Defines
  <2>2. CASE a # nextDef
    <3>1. def'[a] = def[a]
      BY <2>2 DEF Defines
    <3>2. \A i \in 1..Len(def[a].tgt) : def[a].tgt[i] = 0 \/ def[a].tgt[i] \in Defined
      BY TypeFacts
    <3>3. \A x : x = 0 \/ x \in Defined => x < nextDef'
      BY <1>1 DEF Defined
    <3>4. QED
      BY <3>1, <3>2, <3>3, TypeFacts
  <2>3. QED
    BY <2>1, <2>2
<1>6. \A j \in 1..Len(stack') : stack'[j].mod < nextDef'
  <2>1. \A x \in Defined \cup {nextDef} : x < nextDef'
    BY <1>1 DEF Defined
  <2>2. QED
    BY <2>1
<1>7. def' \in [Addr -> DefType]
  BY DEF Defines
<1>8. ran' \in [Addr -> Nat] /\ fault' \in BOOLEAN
  BY DEF TypeOK
<1>9. QED
  BY <1>2, <1>4, <1>5, <1>6, <1>7, <1>8, TypeAgain

\* Request i of module t is met by module m, which is resolved.
Meets(t, i, m) ==
    /\ def' \in [Addr -> DefType]
    /\ \A a \in Addr :
          /\ def'[a].name = def[a].name /\ def'[a].req = def[a].req
          /\ def'[a].flags = IF a = m THEN def[a].flags \cup {"resolved"}
                                      ELSE def[a].flags
          /\ Len(def'[a].tgt) = Len(def[a].tgt)
          /\ \A k \in 1..Len(def[a].tgt) :
                def'[a].tgt[k] = IF a = t /\ k = i THEN m ELSE def[a].tgt[k]

LEMMA MeetsEffect ==
    ASSUME TypeOK, NEW t \in Addr, NEW m \in Addr, NEW i \in 1..Len(def[t].tgt)
    PROVE  def' = [def EXCEPT ![t].tgt[i] = m, ![m].flags = @ \cup {"resolved"}]
             => Meets(t, i, m)
<1> DEFINE T == 0..MaxDefs
           u == [def[t].tgt EXCEPT ![i] = m]
           e == [def EXCEPT ![t].tgt = u]
           d == [def EXCEPT ![t].tgt[i] = m, ![m].flags = @ \cup {"resolved"}]
<1>1. def \in [Addr -> DefType] /\ def[t].tgt \in Seq(T) /\ m \in T
  BY TypeFacts, BoundsAssumption DEF Addr
<1>2. /\ u \in Seq(T) /\ Len(u) = Len(def[t].tgt)
      /\ \A k \in 1..Len(def[t].tgt) : u[k] = IF k = i THEN m ELSE def[t].tgt[k]
  <2> DEFINE s == def[t].tgt
  <2>1. s \in Seq(T) /\ i \in 1..Len(s)
    BY <1>1
  <2> HIDE DEF s, T
  <2>2. /\ [s EXCEPT ![i] = m] \in Seq(T) /\ Len([s EXCEPT ![i] = m]) = Len(s)
        /\ \A k \in 1..Len(s) : [s EXCEPT ![i] = m][k] = IF k = i THEN m ELSE s[k]
    BY <1>1, <2>1
  <2>3. QED
    BY <2>2 DEF s
<1>3. d = [e EXCEPT ![m].flags = @ \cup {"resolved"}]
  BY <1>1
<1> HIDE DEF u
<1>4. /\ e \in [Addr -> DefType]
      /\ \A a \in Addr : /\ e[a].name = def[a].name /\ e[a].req = def[a].req
                         /\ e[a].flags = def[a].flags
                         /\ e[a].tgt = IF a = t THEN u ELSE def[a].tgt
  BY <1>1, <1>2 DEF DefType
<1> DEFINE F == e[m].flags \cup {"resolved"}
<1>5. d = [e EXCEPT ![m].flags = F]
  BY <1>3
<1>6. F \in SUBSET Flags /\ F = def[m].flags \cup {"resolved"}
  <2>1. e[m].flags = def[m].flags /\ def[m].flags \in SUBSET Flags
    BY <1>4, TypeFacts
  <2>2. QED
    BY <2>1 DEF Flags
<1> HIDE DEF e, F, d
<1>7. /\ d \in [Addr -> DefType]
      /\ \A a \in Addr : /\ d[a].name = e[a].name /\ d[a].req = e[a].req
                         /\ d[a].flags = IF a = m THEN F ELSE e[a].flags
                         /\ d[a].tgt = e[a].tgt
  <2>1. e \in [Addr -> DefType] /\ F \in SUBSET Flags /\ d = [e EXCEPT ![m].flags = F]
    BY <1>4, <1>5, <1>6
  <2>2. QED
    BY <2>1 DEF DefType
<1>8. ASSUME NEW a \in Addr
      PROVE  /\ d[a].name = def[a].name /\ d[a].req = def[a].req
             /\ d[a].flags = IF a = m THEN def[a].flags \cup {"resolved"}
                                         ELSE def[a].flags
             /\ Len(d[a].tgt) = Len(def[a].tgt)
             /\ \A k \in 1..Len(def[a].tgt) :
                   d[a].tgt[k] = IF a = t /\ k = i THEN m ELSE def[a].tgt[k]
  <2>1. /\ d[a].name = def[a].name /\ d[a].req = def[a].req
        /\ d[a].flags = IF a = m THEN def[a].flags \cup {"resolved"}
                                    ELSE def[a].flags
    BY <1>4, <1>6, <1>7
  <2>2. d[a].tgt = IF a = t THEN u ELSE def[a].tgt
    BY <1>4, <1>7
  <2>3. CASE a = t
    BY <1>2, <2>1, <2>2, <2>3
  <2>4. CASE a # t
    BY <2>1, <2>2, <2>4
  <2>5. QED
    BY <2>3, <2>4
<1>9. ASSUME def' = d PROVE Meets(t, i, m)
  BY <1>7, <1>8, <1>9 DEF Meets
<1>10. QED
  BY <1>9 DEF d

LEMMA TypeMeets ==
    ASSUME TypeOK, NEW t, NEW i, NEW m \in Defined, Meets(t, i, m),
           stack' \in Seq(FrameType),
           \A j \in 1..Len(stack') : stack'[j].mod \in Defined,
           UNCHANGED <<text, nextDef, swift, loaded, failing, ran, fault>>
    PROVE  TypeOK'
<1>1. nextDef \in Nat \ {0} /\ loaded \subseteq Defined /\ swift \subseteq Defined
  BY TypeFacts
<1>2. \A x : x = 0 \/ x \in Defined => x < nextDef
  BY <1>1 DEF Defined
<1>3. ASSUME NEW a \in Addr
      PROVE  /\ Len(def'[a].tgt) = Len(def'[a].req)
             /\ \A k \in 1..Len(def'[a].tgt) : def'[a].tgt[k] < nextDef
  <2>1. /\ Len(def[a].tgt) = Len(def[a].req)
        /\ \A k \in 1..Len(def[a].tgt) : def[a].tgt[k] = 0 \/ def[a].tgt[k] \in Defined
    BY TypeFacts
  <2>2. QED
    BY <1>2, <2>1 DEF Meets
<1>4. nextDef' \in 1..(MaxDefs + 1) /\ nextDef <= nextDef'
  BY <1>1 DEF TypeOK
<1>5. loaded' \subseteq 1..(nextDef' - 1) /\ swift' \subseteq 1..(nextDef' - 1)
  BY <1>1 DEF Defined
<1>6. \A j \in 1..Len(stack') : stack'[j].mod < nextDef'
  BY <1>2
<1>7. failing' \in BOOLEAN /\ ran' \in [Addr -> Nat] /\ fault' \in BOOLEAN
  BY DEF TypeOK
<1>8. def' \in [Addr -> DefType]
  BY DEF Meets
<1>9. QED
  BY <1>3, <1>4, <1>5, <1>6, <1>7, <1>8, TypeAgain

\* The frame on top advances, and frame f is put on it.
AdvancesAndPushes(f) ==
    /\ stack' \in Seq(FrameType) /\ Len(stack') = Height + 1
    /\ \A j \in 1..Height - 1 : stack'[j] = stack[j]
    /\ stack'[Height].op = Top.op /\ stack'[Height].mod = Top.mod
    /\ stack'[Height].i = Top.i + 1
    /\ stack'[Height].owned <=> Top.owned
    /\ stack'[Height + 1] = f

LEMMA AdvancePushEffect ==
    ASSUME TypeOK, stack # <<>>, NEW f \in FrameType, stack' = Append(Advanced, f)
    PROVE  AdvancesAndPushes(f)
<1>1. IsAdvanced(Advanced) /\ Height \in Nat \ {0}
  BY TopType
<1>2. Advanced \in Seq(FrameType) /\ Len(Advanced) = Height
  BY <1>1 DEF IsAdvanced
<1>3. IsPushed(Advanced, stack', f)
  BY <1>2, PushEffect
<1>4. \A j \in 1..Height : stack'[j] = Advanced[j]
  BY <1>2, <1>3 DEF IsPushed
<1>5. QED
  BY <1>1, <1>2, <1>3, <1>4 DEF IsAdvanced, IsPushed, AdvancesAndPushes

\* The three outcomes of Visit.
VisitFaults(m) == m \notin loaded /\ fault' = TRUE /\ UNCHANGED <<def, stack, failing>>

VisitPushes(op, m) ==
    /\ m \in loaded /\ ~Visited(op, m)
    /\ SetFlags(m, def[m].flags \cup {FlagOf(op)})
    /\ AdvancesAndPushes(Frame(op, m, FALSE))
    /\ UNCHANGED <<failing, fault>>

VisitSkips(op, m) ==
    /\ m \in loaded /\ Visited(op, m)
    /\ IsAdvanced(stack')
    /\ UNCHANGED <<def, fault>>
    /\ failing' = (op = "evaluate" /\ ~Has(m, "mark") /\ Has(m, "exc"))

LEMMA VisitEffect ==
    ASSUME TypeOK, stack # <<>>, NEW op \in {"create", "link", "evaluate"}, NEW m,
           Visit(op, m, Advanced)
    PROVE  VisitFaults(m) \/ VisitPushes(op, m) \/ VisitSkips(op, m)
<1>1. CASE m \notin loaded
  BY <1>1 DEF Visit, VisitFaults
<1>2. CASE m \in loaded /\ ~Visited(op, m)
  <2>1. /\ stack' = Append(Advanced, Frame(op, m, FALSE))
        /\ def' = Marked(op, m) /\ UNCHANGED <<failing, fault>>
    BY <1>2 DEF Visit
  <2>2. m \in Addr /\ def \in [Addr -> DefType] /\ def[m].flags \in SUBSET Flags
    BY <1>2, TypeFacts
  <2>3. Frame(op, m, FALSE) \in FrameType
    BY <2>2, FrameOfType
  <2>4. AdvancesAndPushes(Frame(op, m, FALSE))
    BY <2>1, <2>3, AdvancePushEffect
  <2>5. FlagOf(op) \in Flags
    BY DEF FlagOf, Flags
  <2> DEFINE F == def[m].flags \cup {FlagOf(op)}
  <2>6. F \in SUBSET Flags /\ def' = [def EXCEPT ![m].flags = F]
    BY <2>1, <2>2, <2>5 DEF Marked
  <2> HIDE DEF F
  <2>7. SetFlags(m, F)
    BY <2>2, <2>6, FlagsEffect
  <2>8. QED
    BY <1>2, <2>1, <2>4, <2>7 DEF VisitPushes, F
<1>3. CASE m \in loaded /\ Visited(op, m)
  <2>1. /\ stack' = Advanced /\ UNCHANGED <<def, fault>>
        /\ failing' = (op = "evaluate" /\ ~Has(m, "mark") /\ Has(m, "exc"))
    BY <1>3 DEF Visit
  <2>2. IsAdvanced(stack')
    BY <2>1, TopType
  <2>3. QED
    BY <1>3, <2>1, <2>2 DEF VisitSkips
<1>4. QED
  BY <1>1, <1>2, <1>3

\* The modules of the frames stay where they are.
LEMMA AdvancedMods ==
    ASSUME TypeOK, stack # <<>>, NEW s, IsAdvanced(s) \/ IsBelow(s)
    PROVE  s \in Seq(FrameType) /\ \A j \in 1..Len(s) : s[j].mod \in Defined
<1>1. /\ Height \in Nat \ {0} /\ Top.mod \in Defined
      /\ \A j \in 1..Height : stack[j].mod \in Defined
  BY TopType, TypeFacts
<1>2. QED
  BY <1>1 DEF IsAdvanced, IsBelow

LEMMA PushedMods ==
    ASSUME TypeOK, stack # <<>>, NEW f, f.mod \in Defined, AdvancesAndPushes(f)
    PROVE  stack' \in Seq(FrameType) /\ \A j \in 1..Len(stack') : stack'[j].mod \in Defined
<1>1. /\ Height \in Nat \ {0} /\ Top.mod \in Defined
      /\ \A j \in 1..Height : stack[j].mod \in Defined
  BY TopType, TypeFacts
<1>2. \A j \in 1..Height + 1 : j \in 1..Height - 1 \/ j = Height \/ j = Height + 1
  BY <1>1
<1>3. QED
  BY <1>1, <1>2 DEF AdvancesAndPushes

LEMMA VisitType ==
    ASSUME TypeOK, stack # <<>>, NEW op \in {"create", "link", "evaluate"}, NEW m,
           VisitFaults(m) \/ VisitPushes(op, m) \/ VisitSkips(op, m),
           UNCHANGED <<text, loaded, nextDef, swift, ran>>
    PROVE  TypeOK'
<1>1. loaded' \subseteq loaded /\ ran' \in [Addr -> Nat] /\ failing \in BOOLEAN
      /\ fault \in BOOLEAN /\ loaded \subseteq Defined /\ Defined \subseteq Addr
  BY TypeFacts DEF TypeOK
<1>2. CASE VisitFaults(m)
  BY <1>1, <1>2 DEF VisitFaults, TypeOK
<1>3. CASE VisitPushes(op, m)
  <2>1. Frame(op, m, FALSE).mod \in Defined
    BY <1>1, <1>3 DEF VisitPushes, Frame
  <2>2. stack' \in Seq(FrameType) /\ \A j \in 1..Len(stack') : stack'[j].mod \in Defined
    BY <1>3, <2>1, PushedMods DEF VisitPushes
  <2>3. SetFlags(m, def[m].flags \cup {FlagOf(op)}) /\ failing' \in BOOLEAN
        /\ fault' \in BOOLEAN
    BY <1>1, <1>3 DEF VisitPushes
  <2>4. QED
    BY <1>1, <2>2, <2>3, TypeFlags
<1>4. CASE VisitSkips(op, m)
  <2>1. stack' \in Seq(FrameType) /\ \A j \in 1..Len(stack') : stack'[j].mod \in Defined
    BY <1>4, AdvancedMods DEF VisitSkips
  <2>2. def' = def /\ failing' \in BOOLEAN /\ fault' \in BOOLEAN
    BY <1>1, <1>4 DEF VisitSkips
  <2>3. QED
    BY <1>1, <2>1, <2>2, TypeFlags
<1>5. QED
  BY <1>2, <1>3, <1>4

\* A set of natural numbers that is not empty has a least element.
LEMMA NatMin ==
    ASSUME NEW T \in SUBSET Nat, T # {}
    PROVE  \E x \in T : \A y \in T : x <= y
<1>1. \E R : /\ IsWellFoundedOn(R, Nat)
             /\ \A x, y \in Nat : <<y, x>> \in R <=> y < x
  <2>1. \A x, y \in Nat : <<y, x>> \in OpToRel(<, Nat) <=> y < x
    BY DEF OpToRel
  <2>2. QED
    BY <2>1, NatLessThanWellFounded
<1>2. PICK R : /\ IsWellFoundedOn(R, Nat)
               /\ \A x, y \in Nat : <<y, x>> \in R <=> y < x
  BY <1>1
<1>3. PICK x \in T : \A y \in T : <<y, x>> \notin R
  BY <1>2, WFMin
<1>4. ASSUME NEW y \in T PROVE x <= y
  <2>1. x \in Nat /\ y \in Nat
    OBVIOUS
  <2>2. <<y, x>> \notin R
    BY <1>3
  <2>3. ~(y < x)
    BY <1>2, <2>1, <2>2
  <2>4. QED
    BY <2>1, <2>3
<1>5. QED
  BY <1>4

\* js_find_loaded_module finds a module of the name if one is loaded.
LEMMA FindEffect ==
    ASSUME TypeOK, NEW name
    PROVE  LET m == js_find_loaded_module(name)
           IN  /\ m # 0 => m \in loaded /\ def[m].name = name
               /\ m = 0 => \A a \in loaded : def[a].name # name
<1> DEFINE hits == {a \in loaded : def[a].name = name}
<1>1. hits \in SUBSET Nat /\ \A a \in hits : a # 0
  BY TypeFacts DEF Defined
<1>2. CASE hits = {}
  BY <1>2 DEF js_find_loaded_module
<1>3. CASE hits # {}
  <2>1. js_find_loaded_module(name) = Min(hits)
    BY <1>3 DEF js_find_loaded_module
  <2>2. \E x \in hits : \A y \in hits : x <= y
    BY <1>1, <1>3, NatMin
  <2> HIDE DEF hits
  <2>3. Min(hits) \in hits
    BY <2>2 DEF Min
  <2>4. QED
    BY <1>1, <2>1, <2>3 DEF hits
<1>4. QED
  BY <1>2, <1>3

\* The three outcomes of ResolveRequest.
Wanted == def[Top.mod].req[Top.i]

ResolveFinds(m) ==
    /\ m \in loaded /\ def[m].name = Wanted
    /\ Meets(Top.mod, Top.i, m)
    /\ IF Has(m, "resolved") THEN IsAdvanced(stack')
       ELSE AdvancesAndPushes(Frame("resolve", m, FALSE))
    /\ UNCHANGED <<loaded, nextDef, failing>>

ResolveLoads ==
    /\ Wanted \in Files /\ \A a \in loaded : def[a].name # Wanted
    /\ Defines(Wanted, text[Wanted], {"resolved"})
    /\ IsPushed(stack, stack', Frame("resolve", nextDef, TRUE))
    /\ UNCHANGED failing

ResolveFails == failing' = TRUE /\ UNCHANGED <<def, loaded, nextDef, stack>>

\* A text is a list of names.
LEMMA TextType ==
    ASSUME TypeOK
    PROVE  \A f \in Files : text[f] \in Seq(Names) /\ f \in Names
BY TextsAssumption DEF TypeOK, Names

LEMMA LoadEffect ==
    ASSUME TypeOK, NEW name \in Names \cup {Root}, NEW imports \in Seq(Names),
           NEW frames \in Seq(FrameType), Load(name, imports, frames)
    PROVE  /\ Defines(name, imports, {"resolved"})
           /\ IsPushed(frames, stack', Frame("resolve", nextDef, TRUE))
<1>1. {"resolved"} \in SUBSET Flags
  BY DEF Flags
<1>2. Defines(name, imports, {"resolved"})
  BY <1>1, DefinesEffect DEF Load
<1>3. nextDef \in Addr
  BY DEF Load
<1>4. Frame("resolve", nextDef, TRUE) \in FrameType
  BY <1>3, FrameOfType
<1>5. QED
  BY <1>2, <1>4, PushEffect DEF Load

LEMMA ResolveEffect ==
    ASSUME TypeOK, ResolveRequest
    PROVE  /\ stack # <<>> /\ Top.op = "resolve" /\ ~failing /\ ~fault
           /\ Top.i \in 1..Len(def[Top.mod].req)
           /\ (\E m : ResolveFinds(m)) \/ ResolveLoads \/ ResolveFails
           /\ UNCHANGED <<text, swift, ran, fault>>
<1> DEFINE m == js_find_loaded_module(Wanted)
<1>1. /\ stack # <<>> /\ Top.op = "resolve" /\ ~failing /\ ~fault
      /\ Top.i <= Len(def[Top.mod].req)
  BY DEF ResolveRequest, Running, AtRest, MoreRequests
<1>2. Top.mod \in Addr /\ Top.i \in Nat \ {0}
  BY <1>1, TopType
<1>3. Top.i \in 1..Len(def[Top.mod].req) /\ Top.i \in 1..Len(def[Top.mod].tgt)
  BY <1>1, <1>2, TypeFacts
<1>4. /\ m # 0 => m \in loaded /\ def[m].name = Wanted
      /\ m = 0 => \A a \in loaded : def[a].name # Wanted
  BY FindEffect
<1> HIDE DEF m
<1>5. CASE m # 0
  <2>1. /\ def' = [def EXCEPT ![Top.mod].tgt[Top.i] = m, ![m].flags = @ \cup {"resolved"}]
        /\ stack' = IF Has(m, "resolved") THEN Advanced
                    ELSE Append(Advanced, Frame("resolve", m, FALSE))
        /\ UNCHANGED <<loaded, nextDef, failing>>
    BY <1>5 DEF ResolveRequest, m, Wanted
  <2>2. m \in Addr
    BY <1>4, <1>5, TypeFacts
  <2>3. Meets(Top.mod, Top.i, m)
    BY <1>2, <1>3, <2>1, <2>2, MeetsEffect
  <2>4. CASE Has(m, "resolved")
    <3>1. IsAdvanced(stack')
      BY <1>1, <2>1, <2>4, TopType
    <3>2. QED
      BY <1>1, <1>3, <1>4, <1>5, <2>1, <2>3, <2>4, <3>1 DEF ResolveFinds, ResolveRequest
  <2>5. CASE ~Has(m, "resolved")
    <3>1. Frame("resolve", m, FALSE) \in FrameType
      BY <2>2, FrameOfType
    <3>2. AdvancesAndPushes(Frame("resolve", m, FALSE))
      BY <1>1, <2>1, <2>5, <3>1, AdvancePushEffect
    <3>3. QED
      BY <1>1, <1>3, <1>4, <1>5, <2>1, <2>3, <2>5, <3>2 DEF ResolveFinds, ResolveRequest
  <2>6. QED
    BY <2>4, <2>5
<1>6. CASE m = 0 /\ Wanted \in Files
  <2>1. Load(Wanted, text[Wanted], stack) /\ UNCHANGED failing
    BY <1>6 DEF ResolveRequest, m, Wanted
  <2>2. text[Wanted] \in Seq(Names) /\ Wanted \in Names /\ stack \in Seq(FrameType)
    BY <1>6, TextType, TypeFacts
  <2>3. /\ Defines(Wanted, text[Wanted], {"resolved"})
        /\ IsPushed(stack, stack', Frame("resolve", nextDef, TRUE))
    BY <2>1, <2>2, LoadEffect
  <2>4. ResolveLoads
    BY <1>4, <1>6, <2>1, <2>3 DEF ResolveLoads
  <2>5. QED
    BY <1>1, <1>3, <2>4 DEF ResolveRequest
<1>7. CASE m = 0 /\ Wanted \notin Files
  <2>1. ResolveFails
    BY <1>7 DEF ResolveRequest, m, Wanted, ResolveFails
  <2>2. QED
    BY <1>1, <1>3, <2>1 DEF ResolveRequest
<1>8. QED
  BY <1>5, <1>6, <1>7

LEMMA ResolveType ==
    ASSUME TypeOK, ResolveRequest
    PROVE  TypeOK'
<1>1. /\ stack # <<>> /\ UNCHANGED <<text, swift, ran, fault>>
      /\ (\E m : ResolveFinds(m)) \/ ResolveLoads \/ ResolveFails
  BY ResolveEffect
<1>2. /\ stack \in Seq(FrameType) /\ Height \in Nat /\ loaded \subseteq Defined
      /\ \A j \in 1..Height : stack[j].mod \in Defined
      /\ swift \subseteq Defined /\ failing \in BOOLEAN
  BY TypeFacts DEF TypeOK
<1>3. ASSUME NEW m, ResolveFinds(m) PROVE TypeOK'
  <2>1. /\ m \in Defined /\ Meets(Top.mod, Top.i, m)
        /\ UNCHANGED <<loaded, nextDef, failing>>
    BY <1>2, <1>3 DEF ResolveFinds
  <2>2. Frame("resolve", m, FALSE).mod \in Defined
    BY <2>1 DEF Frame
  <2>3. stack' \in Seq(FrameType) /\ \A j \in 1..Len(stack') : stack'[j].mod \in Defined
    BY <1>1, <1>3, <2>2, PushedMods, AdvancedMods DEF ResolveFinds
  <2>4. QED
    BY <1>1, <2>1, <2>3, TypeMeets
<1>4. CASE ResolveLoads
  <2>1. /\ Wanted \in Names \cup {Root} /\ text[Wanted] \in Seq(Names)
        /\ Defines(Wanted, text[Wanted], {"resolved"}) /\ failing' \in BOOLEAN
        /\ IsPushed(stack, stack', Frame("resolve", nextDef, TRUE))
    BY <1>2, <1>4, TextType DEF ResolveLoads
  <2>2. Frame("resolve", nextDef, TRUE).mod = nextDef
    BY DEF Frame
  <2>3. \A j \in 1..Height + 1 : j \in 1..Height \/ j = Height + 1
    BY <1>2
  <2>4. /\ stack' \in Seq(FrameType)
        /\ \A j \in 1..Len(stack') : stack'[j].mod \in Defined \cup {nextDef}
    BY <1>2, <2>1, <2>2, <2>3 DEF IsPushed, Height
  <2>5. QED
    BY <1>1, <1>2, <2>1, <2>4, TypeDefines
<1>5. CASE ResolveFails
  BY <1>1, <1>5 DEF ResolveFails, TypeOK
<1>6. QED
  BY <1>1, <1>3, <1>4, <1>5

LEMMA ModuleEffect ==
    ASSUME TypeOK, NEW n \in Natives, Module(n)
    PROVE  /\ stack = <<>> /\ Defines(n, <<>>, {}) /\ swift' = swift \cup {nextDef}
           /\ UNCHANGED <<text, stack, failing, ran, fault>>
           /\ TypeOK'
<1>1. /\ stack = <<>> /\ nextDef \in Addr /\ swift' = swift \cup {nextDef}
      /\ UNCHANGED <<text, stack, failing, ran, fault>>
  BY DEF Module, AtRest
<1>2. [NewDef(n, <<>>) EXCEPT !.flags = {}] = NewDef(n, <<>>)
  <2> DEFINE t == [i \in DOMAIN <<>> |-> 0]
             e == <<>>
  <2>1. NewDef(n, <<>>) = [name |-> n, req |-> e, tgt |-> t, flags |-> {}]
    BY DEF NewDef
  <2> HIDE DEF t, e
  <2>2. QED
    BY <2>1
<1>3. n \in Names \cup {Root} /\ <<>> \in Seq(Names) /\ {} \in SUBSET Flags
  BY DEF Names
<1>4. Defines(n, <<>>, {})
  BY <1>1, <1>2, <1>3, DefinesEffect DEF Module
<1>5. stack' \in Seq(FrameType)
  BY <1>1
<1>6. \A j \in 1..Len(stack') : stack'[j].mod \in Defined \cup {nextDef}
  BY <1>1
<1>7. swift' \subseteq Defined \cup {nextDef}
  BY <1>1, TypeFacts
<1>8. failing' \in BOOLEAN
  BY <1>1 DEF TypeOK
<1>9. text' = text /\ ran' = ran /\ fault' = fault
  BY <1>1
<1>10. TypeOK'
  BY <1>3, <1>4, <1>5, <1>6, <1>7, <1>8, <1>9, TypeDefines
<1>11. QED
  BY <1>1, <1>4, <1>10

LEMMA FunctionEffect ==
    ASSUME TypeOK, NEW m \in swift, Function(m)
    PROVE  /\ stack = <<>> /\ m \in Defined /\ ~fault
           /\ UNCHANGED <<text, loaded, nextDef, swift, stack, failing, ran>>
           /\ def' = def \/ SetFlags(m, def[m].flags \cup {"unbound"})
           /\ TypeOK'
<1>1. /\ stack = <<>> /\ ~fault
      /\ UNCHANGED <<text, loaded, nextDef, swift, stack, failing, ran>>
  BY DEF Function, AtRest
<1>2. /\ m \in Defined /\ m \in Addr /\ def \in [Addr -> DefType]
      /\ def[m].flags \in SUBSET Flags
  BY TypeFacts
<1> DEFINE F == def[m].flags \cup {"unbound"}
<1>3. F \in SUBSET Flags
  BY <1>2 DEF Flags
<1>4. def' = def \/ SetFlags(m, F)
  <2>1. def' = def \/ def' = [def EXCEPT ![m].flags = F]
    BY DEF Function
  <2> HIDE DEF F
  <2>2. QED
    BY <1>2, <1>3, <2>1, FlagsEffect
<1>6. fault' \in BOOLEAN
  BY DEF Function, Use
<1>7. stack' \in Seq(FrameType)
  BY <1>1
<1>8. \A j \in 1..Len(stack') : stack'[j].mod \in Defined
  BY <1>1
<1>9. failing' \in BOOLEAN /\ ran' \in [Addr -> Nat]
  BY <1>1 DEF TypeOK
<1>10. loaded' \subseteq loaded /\ UNCHANGED <<text, nextDef, swift>>
  BY <1>1
<1> HIDE DEF F
<1>11. TypeOK'
  BY <1>4, <1>6, <1>7, <1>8, <1>9, <1>10, TypeFlags
<1>12. QED
  BY <1>1, <1>2, <1>4, <1>11 DEF F

\* eval, and import() of a name that is not loaded: a script or a file is
\* loaded for a new evaluation.
Starts(name, imports) ==
    /\ Defines(name, imports, {"resolved"})
    /\ stack' \in Seq(FrameType) /\ Len(stack') = Height + 2
    /\ \A j \in 1..Height : stack'[j] = stack[j]
    /\ stack'[Height + 1] = Frame("base", nextDef, FALSE)
    /\ stack'[Height + 2] = Frame("resolve", nextDef, TRUE)
    /\ UNCHANGED <<text, swift, failing, ran, fault>>

LEMMA StartEffect ==
    ASSUME TypeOK, NEW name \in Names \cup {Root}, NEW imports \in Seq(Names),
           Load(name, imports, Append(stack, Frame("base", nextDef, FALSE))),
           UNCHANGED <<text, swift, failing, ran, fault>>
    PROVE  Starts(name, imports) /\ TypeOK'
<1> DEFINE f == Frame("base", nextDef, FALSE)
           g == Frame("resolve", nextDef, TRUE)
           s == Append(stack, f)
<1>1. nextDef \in Addr
  BY DEF Load
<1>2. f \in FrameType /\ f.mod = nextDef /\ g.mod = nextDef
  BY <1>1, FrameOfType
<1>3. /\ stack \in Seq(FrameType) /\ Height \in Nat /\ Len(stack) = Height
      /\ \A j \in 1..Height : stack[j].mod \in Defined
      /\ swift \subseteq Defined
  BY TypeFacts DEF Height
<1>4. IsPushed(stack, s, f)
  BY <1>2, <1>3, PushEffect
<1>5. s \in Seq(FrameType) /\ Len(s) = Height + 1
  BY <1>3, <1>4 DEF IsPushed
<1>6. Load(name, imports, s)
  OBVIOUS
<1> HIDE DEF f, s, g
<1>7. Defines(name, imports, {"resolved"}) /\ IsPushed(s, stack', g)
  BY <1>5, <1>6, LoadEffect DEF g
<1>8. /\ stack' \in Seq(FrameType) /\ Len(stack') = Height + 2
      /\ \A j \in 1..Height : stack'[j] = stack[j]
      /\ stack'[Height + 1] = f /\ stack'[Height + 2] = g
  <2>1. stack' \in Seq(FrameType) /\ Len(stack') = (Height + 1) + 1
    BY <1>5, <1>7 DEF IsPushed
  <2>2. stack'[Height + 1 + 1] = g /\ \A j \in 1..Height + 1 : stack'[j] = s[j]
    BY <1>5, <1>7 DEF IsPushed
  <2>3. s[Height + 1] = f /\ \A j \in 1..Height : s[j] = stack[j]
    BY <1>3, <1>4 DEF IsPushed
  <2> HIDE DEF Height
  <2>4. Height + 1 + 1 = Height + 2
    BY <1>3
  <2>5. Height + 1 \in 1..Height + 1 /\ \A j \in 1..Height : j \in 1..Height + 1
    BY <1>3
  <2>6. QED
    BY <2>1, <2>2, <2>3, <2>4, <2>5
<1>9. Starts(name, imports)
  BY <1>7, <1>8 DEF Starts, f, g
<1>10. ASSUME NEW j \in 1..Len(stack') PROVE stack'[j].mod \in Defined \cup {nextDef}
  <2>1. j \in 1..Height \/ j = Height + 1 \/ j = Height + 2
    BY <1>3, <1>8
  <2>2. QED
    BY <1>2, <1>3, <1>8, <2>1
<1>11. failing' \in BOOLEAN
  BY DEF TypeOK
<1>12. swift' \subseteq Defined \cup {nextDef}
  BY <1>3
<1>13. TypeOK'
  BY <1>7, <1>8, <1>10, <1>11, <1>12, TypeDefines
<1>14. QED
  BY <1>9, <1>13

LEMMA EvalEffect ==
    ASSUME TypeOK, NEW imports \in RootTexts, Eval(imports)
    PROVE  /\ Starts(Root, imports) /\ imports \in Seq(Names) /\ TypeOK'
           /\ ~fault /\ (stack = <<>> \/ (Reentrant /\ Top.op = "body"))
<1>1. imports \in Seq(Names)
  BY TextsAssumption
<1>2. /\ Load(Root, imports, Append(stack, Frame("base", nextDef, FALSE)))
      /\ UNCHANGED <<text, swift, failing, ran, fault>>
      /\ ~fault /\ (stack = <<>> \/ (Reentrant /\ Top.op = "body"))
  BY DEF Eval, InCode, AtRest
<1>3. Starts(Root, imports) /\ TypeOK'
  BY <1>1, <1>2, StartEffect
<1>4. QED
  BY <1>1, <1>2, <1>3

\* import() of a module that is loaded.
ImportFinds(n, m) ==
    /\ m \in loaded /\ def[m].name = n
    /\ SetFlags(m, def[m].flags \cup {"resolved"})
    /\ stack' \in Seq(FrameType)
    /\ Len(stack') = IF Has(m, "resolved") THEN 1 ELSE 2
    /\ stack'[1] = Frame("base", m, FALSE)
    /\ ~Has(m, "resolved") => stack'[2] = Frame("resolve", m, FALSE)
    /\ UNCHANGED <<text, loaded, nextDef, swift, failing, ran, fault>>

LEMMA ImportEffect ==
    ASSUME TypeOK, NEW n \in Names, Import(n)
    PROVE  /\ stack = <<>> /\ ~fault /\ TypeOK'
           /\ \/ /\ n \in Files /\ text[n] \in Seq(Names) /\ Starts(n, text[n])
                 /\ \A a \in loaded : def[a].name # n
              \/ \E m : ImportFinds(n, m)
<1> DEFINE m == js_find_loaded_module(n)
<1>1. /\ m # 0 => m \in loaded /\ def[m].name = n
      /\ m = 0 => \A a \in loaded : def[a].name # n
  BY FindEffect
<1>2. stack = <<>> /\ ~fault /\ UNCHANGED <<text, swift, failing, ran, fault>>
  BY DEF Import, AtRest
<1>3. CASE m = 0
  <2>1. n \in Files /\ Load(n, text[n], <<Frame("base", nextDef, FALSE)>>)
    BY <1>3 DEF Import
  <2>2. text[n] \in Seq(Names)
    BY <2>1, TextType
  <2>3. <<Frame("base", nextDef, FALSE)>> = Append(stack, Frame("base", nextDef, FALSE))
    BY <1>2
  <2>4. Load(n, text[n], Append(stack, Frame("base", nextDef, FALSE)))
    BY <2>1, <2>3
  <2> HIDE DEF m
  <2>5. Starts(n, text[n]) /\ TypeOK'
    BY <1>2, <2>2, <2>4, StartEffect
  <2>6. QED
    BY <1>1, <1>2, <1>3, <2>1, <2>2, <2>5
<1>4. CASE m # 0
  <2> DEFINE f == Frame("base", m, FALSE)
             g == Frame("resolve", m, FALSE)
             F == def[m].flags \cup {"resolved"}
  <2>1. /\ stack' = <<f>> \o IF Has(m, "resolved") THEN <<>> ELSE <<g>>
        /\ UNCHANGED <<loaded, nextDef>>
    BY <1>4 DEF Import
  <2>2. def' = [def EXCEPT ![m].flags = F]
    BY <1>4 DEF Import
  <2>3. m \in loaded /\ m \in Addr /\ m \in Defined /\ def[m].name = n
        /\ def \in [Addr -> DefType]
    BY <1>1, <1>4, TypeFacts
  <2>4. F \in SUBSET Flags
    BY <2>3, TypeFacts DEF Flags
  <2> HIDE DEF m
  <2>5. f \in FrameType /\ g \in FrameType /\ f.mod = m /\ g.mod = m
    BY <2>3, FrameOfType
  <2> HIDE DEF F, f, g
  <2>6. SetFlags(m, F)
    BY <2>2, <2>3, <2>4, FlagsEffect
  <2>7. /\ stack' \in Seq(FrameType)
        /\ Len(stack') = IF Has(m, "resolved") THEN 1 ELSE 2
        /\ stack'[1] = f /\ (~Has(m, "resolved") => stack'[2] = g)
    <3> DEFINE s == <<f>>
    <3>1. s \in Seq(FrameType) /\ Len(s) = 1 /\ s[1] = f
      BY <2>5
    <3>2. stack' = s \o IF Has(m, "resolved") THEN <<>> ELSE <<g>>
      BY <2>1
    <3> HIDE DEF s
    <3>3. stack' = IF Has(m, "resolved") THEN s ELSE Append(s, g)
      BY <2>5, <3>1, <3>2, ConcatEmptySeq, AppendIsConcat
    <3>4. IsPushed(s, Append(s, g), g)
      BY <2>5, <3>1, PushEffect
    <3>5. CASE Has(m, "resolved")
      BY <3>1, <3>3, <3>5
    <3>6. CASE ~Has(m, "resolved")
      <4>1. IsPushed(s, stack', g)
        BY <3>3, <3>4, <3>6
      <4>2. QED
        BY <3>1, <3>6, <4>1 DEF IsPushed
    <3>7. QED
      BY <3>5, <3>6
  <2>8. ASSUME NEW j \in 1..Len(stack') PROVE stack'[j].mod \in Defined
    <3>1. j = 1 \/ (j = 2 /\ ~Has(m, "resolved"))
      BY <2>7
    <3>2. QED
      BY <2>3, <2>5, <2>7, <3>1
  <2>9. failing' \in BOOLEAN /\ ran' \in [Addr -> Nat] /\ fault' \in BOOLEAN
    BY <1>2 DEF TypeOK
  <2>10. stack' \in Seq(FrameType) /\ loaded' \subseteq loaded
         /\ UNCHANGED <<text, nextDef, swift>>
    BY <1>2, <2>1, <2>7
  <2>11. TypeOK'
    BY <2>6, <2>8, <2>9, <2>10, TypeFlags
  <2>12. ImportFinds(n, m)
    BY <1>2, <2>1, <2>3, <2>6, <2>7 DEF ImportFinds, F, f, g
  <2>13. QED
    BY <1>2, <2>11, <2>12
<1>5. QED
  BY <1>3, <1>4

\* The frame on top returns.
LEMMA PopType ==
    ASSUME TypeOK, stack # <<>>, stack' = Below, NEW F,
           SetFlags(Top.mod, F) \/ def' = def, loaded' \subseteq loaded,
           UNCHANGED <<text, nextDef, swift>>, failing' \in BOOLEAN,
           ran' \in [Addr -> Nat], fault' \in BOOLEAN
    PROVE  IsBelow(stack') /\ TypeOK'
<1>1. IsBelow(stack')
  BY TopType
<1>2. stack' \in Seq(FrameType) /\ \A j \in 1..Len(stack') : stack'[j].mod \in Defined
  BY <1>1, AdvancedMods
<1>3. QED
  BY <1>1, <1>2, TypeFlags

Visits(op, m) == VisitFaults(m) \/ VisitPushes(op, m) \/ VisitSkips(op, m)

LEMMA RequestEffect ==
    ASSUME TypeOK, NEW op \in {"create", "link", "evaluate"}, NextRequest(op)
    PROVE  /\ stack # <<>> /\ Top.op = op /\ ~failing /\ ~fault
           /\ Top.i \in 1..Len(def[Top.mod].tgt)
           /\ Visits(op, def[Top.mod].tgt[Top.i])
           /\ UNCHANGED <<text, loaded, nextDef, swift, ran>>
           /\ TypeOK'
<1>1. /\ stack # <<>> /\ Top.op = op /\ ~failing /\ ~fault
      /\ Top.i <= Len(def[Top.mod].req)
      /\ UNCHANGED <<text, loaded, nextDef, swift, ran>>
  BY DEF NextRequest, Running, AtRest, MoreRequests
<1>2. Top.mod \in Addr /\ Top.i \in Nat \ {0}
  BY <1>1, TopType
<1>3. Top.i \in 1..Len(def[Top.mod].tgt)
  BY <1>1, <1>2, TypeFacts
<1> DEFINE m == def[Top.mod].tgt[Top.i]
<1>4. Visit(op, m, Advanced)
  BY DEF NextRequest
<1> HIDE DEF m
<1>5. VisitFaults(m) \/ VisitPushes(op, m) \/ VisitSkips(op, m)
  BY <1>1, <1>4, VisitEffect
<1>6. TypeOK'
  BY <1>1, <1>5, VisitType
<1>7. QED
  BY <1>1, <1>3, <1>5, <1>6 DEF Visits, m

LEMMA StageEffect ==
    ASSUME TypeOK, NextStage
    PROVE  /\ stack # <<>> /\ Top.op = "base" /\ ~failing /\ ~fault
           /\ Top.i \in 1..3
           /\ Stages[Top.i] \in {"create", "link", "evaluate"}
           /\ Visits(Stages[Top.i], Top.mod)
           /\ UNCHANGED <<text, loaded, nextDef, swift, ran>>
           /\ TypeOK'
<1>1. /\ stack # <<>> /\ Top.op = "base" /\ ~failing /\ ~fault
      /\ Top.i <= Len(Stages)
      /\ UNCHANGED <<text, loaded, nextDef, swift, ran>>
  BY DEF NextStage, Running, AtRest
<1>2. Top.i \in Nat \ {0} /\ Len(Stages) = 3
  BY <1>1, TopType DEF Stages
<1>3. Top.i \in 1..3
  BY <1>1, <1>2
<1>4. Stages[Top.i] \in {"create", "link", "evaluate"}
  BY <1>3 DEF Stages
<1> DEFINE m == Top.mod
           op == Stages[Top.i]
<1>5. Visit(op, m, Advanced)
  BY DEF NextStage
<1> HIDE DEF m, op
<1>6. op \in {"create", "link", "evaluate"}
  BY <1>4 DEF op
<1>7. VisitFaults(m) \/ VisitPushes(op, m) \/ VisitSkips(op, m)
  BY <1>1, <1>5, <1>6, VisitEffect
<1>8. TypeOK'
  BY <1>1, <1>6, <1>7, VisitType
<1>9. QED
  BY <1>1, <1>3, <1>4, <1>7, <1>8 DEF Visits, m, op

\* A frame returns, with or without an error.
Pops == /\ stack # <<>> /\ IsBelow(stack') /\ ~fault
        /\ UNCHANGED <<text, nextDef, swift>>

DoneWith(op) == Top.op = op /\ Top.i > Len(def[Top.mod].tgt)

LEMMA Done ==
    ASSUME TypeOK, stack # <<>>, ~MoreRequests, NEW op, Top.op = op
    PROVE  DoneWith(op)
<1>1. Top.mod \in Addr /\ Top.i \in Nat
  BY TopType
<1>2. Len(def[Top.mod].req) = Len(def[Top.mod].tgt) /\ Len(def[Top.mod].tgt) \in Nat
  BY <1>1, TypeFacts
<1>3. QED
  BY <1>1, <1>2 DEF MoreRequests, DoneWith

LEMMA TraversalDoneEffect ==
    ASSUME TypeOK, TraversalDone
    PROVE  /\ Pops /\ ~failing /\ (DoneWith("resolve") \/ DoneWith("create"))
           /\ UNCHANGED <<def, loaded, failing, ran, fault>>
           /\ TypeOK'
<1>1. /\ stack # <<>> /\ ~failing /\ ~fault /\ stack' = Below /\ ~MoreRequests
      /\ Top.op = "resolve" \/ Top.op = "create"
      /\ UNCHANGED <<text, def, loaded, nextDef, swift, failing, ran, fault>>
  BY DEF TraversalDone, Running, AtRest
<1>2. failing' \in BOOLEAN /\ ran' \in [Addr -> Nat] /\ fault' \in BOOLEAN
  BY <1>1 DEF TypeOK
<1>3. IsBelow(stack') /\ TypeOK'
  BY <1>1, <1>2, PopType
<1>4. DoneWith("resolve") \/ DoneWith("create")
  BY <1>1, Done
<1>5. QED
  BY <1>1, <1>3, <1>4 DEF Pops

LEMMA LinkDoneEffect ==
    ASSUME TypeOK, LinkDone
    PROVE  /\ Pops /\ ~failing /\ DoneWith("link")
           /\ \/ UNCHANGED <<failing, fault>>
              \/ ~IsNative(Top.mod) /\ failing' /\ fault' = fault
              \/ \E i \in 1..Len(def[Top.mod].tgt) : Has(def[Top.mod].tgt[i], "unbound")
           /\ UNCHANGED <<def, loaded, ran>>
           /\ TypeOK'
<1>1. /\ stack # <<>> /\ ~failing /\ ~fault /\ stack' = Below /\ ~MoreRequests
      /\ Top.op = "link"
      /\ UNCHANGED <<text, def, loaded, nextDef, swift, ran>>
  BY DEF LinkDone, Running, AtRest
<1>2. failing' \in BOOLEAN
  BY DEF LinkDone, TypeOK
<1>3. fault' \in BOOLEAN
  BY DEF LinkDone, TypeOK
<1>4. ran' \in [Addr -> Nat]
  BY <1>1 DEF TypeOK
<1>5. IsBelow(stack') /\ TypeOK'
  BY <1>1, <1>2, <1>3, <1>4, PopType
<1>6. DoneWith("link")
  BY <1>1, Done
<1>7. \/ UNCHANGED <<failing, fault>>
      \/ ~IsNative(Top.mod) /\ failing' /\ fault' = fault
      \/ \E i \in DOMAIN def[Top.mod].tgt : Has(def[Top.mod].tgt[i], "unbound")
  BY DEF LinkDone
<1>8. DOMAIN def[Top.mod].tgt = 1..Len(def[Top.mod].tgt)
  BY <1>1, TopType, TypeFacts
<1>9. QED
  BY <1>1, <1>5, <1>6, <1>7, <1>8 DEF Pops

LEMMA EvalReturnsEffect ==
    ASSUME TypeOK, EvalReturns
    PROVE  /\ Pops /\ ~failing /\ Top.op = "base" /\ Top.i > 3
           /\ UNCHANGED <<def, loaded, failing, ran, fault>>
           /\ TypeOK'
<1>1. /\ stack # <<>> /\ ~failing /\ ~fault /\ stack' = Below
      /\ Top.op = "base" /\ Top.i > Len(Stages)
      /\ UNCHANGED <<text, def, loaded, nextDef, swift, failing, ran, fault>>
  BY DEF EvalReturns, Running, AtRest
<1>2. failing' \in BOOLEAN /\ ran' \in [Addr -> Nat] /\ fault' \in BOOLEAN
  BY <1>1 DEF TypeOK
<1>3. IsBelow(stack') /\ TypeOK'
  BY <1>1, <1>2, PopType
<1>4. Len(Stages) = 3
  BY DEF Stages
<1>5. QED
  BY <1>1, <1>3, <1>4 DEF Pops

\* What remains of the loaded modules when a frame fails.
Unloads ==
    \/ Top.op = "resolve" /\ loaded' = IF Top.owned THEN loaded \ {Top.mod} ELSE loaded
    \/ Top.op = "link" /\ loaded' = loaded
    \/ /\ Top.op = "base"
       /\ loaded' = IF Top.i = 1 THEN loaded ELSE {m \in loaded : Has(m, "evaluated")}

LEMMA UnwindEffect ==
    ASSUME TypeOK, UnwindResolve \/ UnwindLink \/ EvalFails
    PROVE  /\ Pops /\ failing /\ Unloads
           /\ (failing' <=> Top.op # "base")
           /\ UNCHANGED <<def, ran, fault>>
           /\ TypeOK'
<1>1. /\ stack # <<>> /\ failing /\ ~fault /\ stack' = Below
      /\ UNCHANGED <<text, def, nextDef, swift, ran, fault>>
  BY DEF UnwindResolve, UnwindLink, EvalFails, Failing, AtRest
<1>2. Unloads
  BY DEF UnwindResolve, UnwindLink, EvalFails, Failing, Without, js_free_modules, Unloads
<1>3. failing' \in BOOLEAN /\ (failing' <=> Top.op # "base")
  <2>1. CASE EvalFails
    BY <2>1 DEF EvalFails, Failing
  <2>2. CASE UnwindResolve \/ UnwindLink
    <3>1. failing' = failing /\ Top.op # "base"
      BY <2>2 DEF UnwindResolve, UnwindLink, Failing
    <3>2. QED
      BY <1>1, <3>1 DEF TypeOK
  <2>3. QED
    BY <2>1, <2>2
<1>4. ran' \in [Addr -> Nat] /\ fault' \in BOOLEAN
  BY <1>1 DEF TypeOK
<1>5. loaded' \subseteq loaded
  BY <1>2 DEF Unloads
<1>6. IsBelow(stack') /\ TypeOK'
  BY <1>1, <1>3, <1>4, <1>5, PopType
<1>7. QED
  BY <1>1, <1>2, <1>3, <1>6 DEF Pops

LEMMA UnwindEvaluateEffect ==
    ASSUME TypeOK, UnwindEvaluate
    PROVE  /\ Pops /\ failing /\ failing' = failing /\ Top.op = "evaluate"
           /\ SetFlags(Top.mod, def[Top.mod].flags \ {"mark"})
           /\ UNCHANGED <<loaded, ran, fault>>
           /\ TypeOK'
<1> DEFINE F == def[Top.mod].flags \ {"mark"}
<1>1. /\ stack # <<>> /\ failing /\ ~fault /\ stack' = Below /\ Top.op = "evaluate"
      /\ UNCHANGED <<text, loaded, nextDef, swift, failing, ran, fault>>
  BY DEF UnwindEvaluate, Failing, AtRest
<1>2. def' = [def EXCEPT ![Top.mod].flags = F]
  BY DEF UnwindEvaluate
<1>3. Top.mod \in Addr
  BY <1>1, TopType
<1>4. F \in SUBSET Flags /\ def \in [Addr -> DefType]
  BY <1>3, TypeFacts
<1> HIDE DEF F
<1>5. SetFlags(Top.mod, F)
  BY <1>2, <1>3, <1>4, FlagsEffect
<1>6. failing' \in BOOLEAN /\ ran' \in [Addr -> Nat] /\ fault' \in BOOLEAN
  BY <1>1 DEF TypeOK
<1>7. IsBelow(stack') /\ TypeOK'
  BY <1>1, <1>5, <1>6, PopType
<1>8. QED
  BY <1>1, <1>5, <1>7 DEF Pops, F

\* The code of the module on top has run.
AfterRun(m) == (def[m].flags \ {"mark"}) \cup {"evaluated"}

LEMMA AfterRunType ==
    ASSUME TypeOK, NEW m \in Addr, NEW E \in SUBSET Flags
    PROVE  AfterRun(m) \cup E \in SUBSET Flags
<1>1. def[m].flags \in SUBSET Flags
  BY TypeFacts
<1>2. QED
  BY <1>1 DEF AfterRun, Flags

CountsRun(m) ==
    ran' \in [Addr -> Nat] /\ \A a \in Addr : ran'[a] = IF a = m THEN ran[a] + 1 ELSE ran[a]

LEMMA RunEffect ==
    ASSUME TypeOK, NEW m \in Addr, ran' = [ran EXCEPT ![m] = @ + 1]
    PROVE  CountsRun(m)
BY DEF TypeOK, CountsRun

LEMMA InitNativeEffect ==
    ASSUME TypeOK, InitNative
    PROVE  /\ Pops /\ ~failing /\ DoneWith("evaluate") /\ IsNative(Top.mod)
           /\ SetFlags(Top.mod, AfterRun(Top.mod)
                                   \cup IF Top.mod \in swift THEN {"exported"} ELSE {})
           /\ CountsRun(Top.mod) /\ UNCHANGED <<loaded, failing>>
           /\ ~Has(Top.mod, "unbound") => ~fault'
           /\ TypeOK'
<1> DEFINE E == IF Top.mod \in swift THEN {"exported"} ELSE {}
           F == AfterRun(Top.mod) \cup E
<1>1. /\ stack # <<>> /\ ~failing /\ ~fault /\ stack' = Below /\ Top.op = "evaluate"
      /\ UNCHANGED <<text, loaded, nextDef, swift, failing>>
      /\ IsNative(Top.mod) /\ ~MoreRequests
  BY DEF InitNative, Running, AtRest
<1>2. def' = [def EXCEPT ![Top.mod].flags = F]
  BY DEF InitNative, AfterRun
<1>3. Top.mod \in Addr
  BY <1>1, TopType
<1>4. E \in SUBSET Flags
  BY DEF Flags
<1> HIDE DEF E
<1>5. F \in SUBSET Flags /\ def \in [Addr -> DefType]
  BY <1>3, <1>4, AfterRunType, TypeFacts
<1> HIDE DEF F
<1>6. SetFlags(Top.mod, F)
  BY <1>2, <1>3, <1>5, FlagsEffect
<1>7. CountsRun(Top.mod)
  BY <1>3, RunEffect DEF InitNative
<1>8. fault' \in BOOLEAN /\ (~Has(Top.mod, "unbound") => ~fault')
  BY <1>1 DEF InitNative
<1>9. failing' \in BOOLEAN
  BY <1>1 DEF TypeOK
<1>10. IsBelow(stack') /\ TypeOK'
  BY <1>1, <1>6, <1>7, <1>8, <1>9, PopType DEF CountsRun
<1>11. DoneWith("evaluate")
  BY <1>1, Done
<1>12. QED
  BY <1>1, <1>6, <1>7, <1>8, <1>10, <1>11 DEF Pops, F, E

LEMMA LeaveBodyEffect ==
    ASSUME TypeOK, LeaveBody
    PROVE  /\ Pops /\ ~failing /\ Top.op = "body"
           /\ \/ ~failing' /\ SetFlags(Top.mod, AfterRun(Top.mod))
              \/ failing' /\ SetFlags(Top.mod, AfterRun(Top.mod) \cup {"exc"})
           /\ UNCHANGED <<loaded, ran>>
           /\ Top.mod \in loaded => ~fault'
           /\ TypeOK'
<1> DEFINE F == AfterRun(Top.mod) \cup IF failing' THEN {"exc"} ELSE {}
<1>1. /\ stack # <<>> /\ ~failing /\ ~fault /\ stack' = Below /\ Top.op = "body"
      /\ UNCHANGED <<text, loaded, nextDef, swift, ran>>
  BY DEF LeaveBody, Running, AtRest
<1>2. failing' \in BOOLEAN /\ def' = [def EXCEPT ![Top.mod].flags = F]
  BY DEF LeaveBody, AfterRun
<1>3. Top.mod \in Addr
  BY <1>1, TopType
<1>4. F \in SUBSET Flags /\ def \in [Addr -> DefType]
  <2>1. (IF failing' THEN {"exc"} ELSE {}) \in SUBSET Flags
    BY DEF Flags
  <2>2. QED
    BY <1>3, <2>1, AfterRunType, TypeFacts
<1>5. F = IF failing' THEN AfterRun(Top.mod) \cup {"exc"} ELSE AfterRun(Top.mod)
  OBVIOUS
<1> HIDE DEF F
<1>6. SetFlags(Top.mod, F)
  BY <1>2, <1>3, <1>4, FlagsEffect
<1>7. fault' \in BOOLEAN /\ (Top.mod \in loaded => ~fault')
  BY <1>1 DEF LeaveBody, Use
<1>8. ran' \in [Addr -> Nat]
  BY <1>1 DEF TypeOK
<1>9. IsBelow(stack') /\ TypeOK'
  BY <1>1, <1>2, <1>6, <1>7, <1>8, PopType
<1>10. QED
  BY <1>1, <1>5, <1>6, <1>7, <1>9 DEF Pops

LEMMA EnterBodyEffect ==
    ASSUME TypeOK, EnterBody
    PROVE  /\ stack # <<>> /\ ~failing /\ ~fault /\ DoneWith("evaluate")
           /\ ~IsNative(Top.mod) /\ CountsRun(Top.mod)
           /\ stack' \in Seq(FrameType) /\ Len(stack') = Height
           /\ \A j \in 1..Height - 1 : stack'[j] = stack[j]
           /\ stack'[Height].op = "body" /\ stack'[Height].mod = Top.mod
           /\ stack'[Height].i = Top.i /\ (stack'[Height].owned <=> Top.owned)
           /\ UNCHANGED <<text, def, loaded, nextDef, swift, failing, fault>>
           /\ TypeOK'
<1> DEFINE f == [Top EXCEPT !.op = "body"]
<1>1. /\ stack # <<>> /\ ~failing /\ ~fault /\ Top.op = "evaluate"
      /\ UNCHANGED <<text, def, loaded, nextDef, swift, failing, fault>>
      /\ ~IsNative(Top.mod) /\ ~MoreRequests /\ stack' = Append(Below, f)
  BY DEF EnterBody, Running, AtRest
<1>2. /\ Height \in Nat \ {0} /\ Top \in FrameType /\ IsBelow(Below)
      /\ Top.mod \in Addr /\ Top.mod \in Defined
  BY <1>1, TopType
<1>3. f \in FrameType /\ f.op = "body" /\ f.mod = Top.mod /\ f.i = Top.i /\ f.owned = Top.owned
  BY <1>2 DEF FrameType
<1> HIDE DEF f
<1>4. CountsRun(Top.mod)
  BY <1>2, RunEffect DEF EnterBody
<1>5. /\ stack' \in Seq(FrameType) /\ Len(stack') = Height
      /\ stack'[Height] = f
      /\ \A j \in 1..Height - 1 : stack'[j] = stack[j]
  <2>1. IsPushed(Below, stack', f)
    BY <1>1, <1>2, <1>3, PushEffect DEF IsBelow
  <2>2. QED
    BY <1>2, <2>1 DEF IsBelow, IsPushed
<1>6. ASSUME NEW j \in 1..Len(stack') PROVE stack'[j].mod \in Defined
  <2>1. j \in 1..Height - 1 \/ j = Height
    BY <1>2, <1>5
  <2>2. QED
    BY <1>2, <1>3, <1>5, <2>1, TypeFacts
<1>7. failing' \in BOOLEAN /\ fault' \in BOOLEAN
  BY <1>1 DEF TypeOK
<1>8. ran' \in [Addr -> Nat]
  BY <1>4 DEF CountsRun
<1>9. TypeOK'
  BY <1>1, <1>5, <1>6, <1>7, <1>8, TypeFlags
<1>10. DoneWith("evaluate")
  BY <1>1, Done
<1>11. QED
  BY <1>1, <1>3, <1>4, <1>5, <1>9, <1>10

-----------------------------------------------------------------------------
(***************************************************************************)
(* What holds in every context.                                            *)
(***************************************************************************)
LEMMA TypeInit ==
    Init => TypeOK
<1> SUFFICES ASSUME Init PROVE TypeOK
  OBVIOUS
<1>1. NoDef \in DefType /\ NoDef.tgt = <<>> /\ NoDef.req = <<>>
  <2> DEFINE T == 0..MaxDefs
             t == [i \in DOMAIN <<>> |-> 0]
  <2>1. t = <<>> /\ <<>> \in Seq(T) /\ <<>> \in Seq(Names)
    OBVIOUS
  <2>2. NoDef = [name |-> "none", req |-> <<>>, tgt |-> t, flags |-> {}]
    BY DEF NoDef, NewDef
  <2> HIDE DEF t
  <2>3. QED
    BY <2>1, <2>2 DEF DefType
<1>2. def \in [Addr -> DefType] /\ \A a \in Addr : def[a].tgt = <<>> /\ def[a].req = <<>>
  BY <1>1 DEF Init
<1>3. \A a \in Addr : /\ Len(def[a].tgt) = Len(def[a].req)
                      /\ \A i \in DOMAIN def[a].tgt : def[a].tgt[i] < nextDef
  BY <1>2
<1>4. nextDef \in 1..(MaxDefs + 1)
  BY BoundsAssumption DEF Init
<1>5. /\ text \in Texts /\ loaded \subseteq 1..(nextDef - 1) /\ swift \subseteq 1..(nextDef - 1)
      /\ stack \in Seq(FrameType) /\ \A j \in DOMAIN stack : stack[j].mod < nextDef
  BY DEF Init
<1>6. failing \in BOOLEAN /\ fault \in BOOLEAN
  BY DEF Init
<1>7. ran \in [Addr -> Nat]
  BY DEF Init
<1>8. QED
  BY <1>2, <1>3, <1>4, <1>5, <1>6, <1>7 DEF TypeOK, DefType, FrameType

LEMMA TypeNext ==
    ASSUME TypeOK, Next
    PROVE  TypeOK'
<1>1. CASE ResolveRequest
  BY <1>1, ResolveType
<1>2. CASE \E op \in {"create", "link", "evaluate"} : NextRequest(op)
  BY <1>2, RequestEffect
<1>3. CASE TraversalDone
  BY <1>3, TraversalDoneEffect
<1>4. CASE LinkDone
  BY <1>4, LinkDoneEffect
<1>5. CASE InitNative
  BY <1>5, InitNativeEffect
<1>6. CASE EnterBody
  BY <1>6, EnterBodyEffect
<1>7. CASE LeaveBody
  BY <1>7, LeaveBodyEffect
<1>8. CASE NextStage
  BY <1>8, StageEffect
<1>9. CASE EvalReturns
  BY <1>9, EvalReturnsEffect
<1>10. CASE UnwindResolve \/ UnwindLink \/ EvalFails
  BY <1>10, UnwindEffect
<1>11. CASE UnwindEvaluate
  BY <1>11, UnwindEvaluateEffect
<1>12. CASE \E n \in Natives : Module(n)
  BY <1>12, ModuleEffect
<1>13. CASE \E m \in swift : Function(m)
  BY <1>13, FunctionEffect
<1>14. CASE \E imports \in RootTexts : Eval(imports)
  BY <1>14, EvalEffect
<1>15. CASE \E n \in Names : Import(n)
  BY <1>15, ImportEffect
<1>16. QED
  BY <1>1, <1>2, <1>3, <1>4, <1>5, <1>6, <1>7, <1>8, <1>9, <1>10, <1>11, <1>12,
     <1>13, <1>14, <1>15 DEF Next, EngineNext, AppNext

\* The lists, the definitions and the stack always have their types, the
\* addresses in them those of definitions.
THEOREM TypeCorrect ==
    Spec => []TypeOK
<1>1. TypeOK /\ [Next]_vars => TypeOK'
  <2> SUFFICES ASSUME TypeOK, [Next]_vars PROVE TypeOK'
    OBVIOUS
  <2>1. CASE Next
    BY <2>1, TypeNext
  <2>2. CASE UNCHANGED vars
    BY <2>2 DEF vars, TypeOK
  <2>3. QED
    BY <2>1, <2>2
<1>2. QED
  BY <1>1, TypeInit, PTL DEF Spec

\* The definitions keep their names and requests, and none is added.
KeepsDefs ==
    /\ loaded' \subseteq loaded /\ UNCHANGED <<text, nextDef, swift>>
    /\ \A a \in Addr : /\ def'[a].name = def[a].name /\ def'[a].req = def[a].req
                       /\ def'[a].tgt = def[a].tgt

\* A request is met by a loaded module of its name.
MeetsRequest ==
    /\ stack # <<>> /\ Top.op = "resolve" /\ Top.i \in 1..Len(def[Top.mod].req)
    /\ \E m : ResolveFinds(m)
    /\ UNCHANGED <<text, swift>>

\* A definition is added: of a native module, of a file that no loaded
\* module has the name of, or of a script.
AddsDef ==
    \E name, imports, F :
        /\ Defines(name, imports, F) /\ text' = text
        /\ \/ name \in Natives /\ imports = <<>> /\ swift' = swift \cup {nextDef}
           \/ /\ name \in Files /\ imports = text[name] /\ swift' = swift
              /\ \A a \in loaded : def[a].name # name
           \/ name = Root /\ swift' = swift

LEMMA DefsStep ==
    ASSUME TypeOK, Next
    PROVE  KeepsDefs \/ MeetsRequest \/ AddsDef
<1> USE DEF KeepsDefs
<1>1. CASE ResolveRequest
  <2>1. /\ stack # <<>> /\ Top.op = "resolve" /\ Top.i \in 1..Len(def[Top.mod].req)
        /\ (\E m : ResolveFinds(m)) \/ ResolveLoads \/ ResolveFails
        /\ UNCHANGED <<text, swift>>
    BY <1>1, ResolveEffect
  <2>2. CASE \E m : ResolveFinds(m)
    BY <2>1, <2>2 DEF MeetsRequest
  <2>3. CASE ResolveLoads
    BY <2>1, <2>3 DEF ResolveLoads, AddsDef
  <2>4. CASE ResolveFails
    BY <2>1, <2>4 DEF ResolveFails
  <2>5. QED
    BY <2>1, <2>2, <2>3, <2>4
<1>2. CASE \E op \in {"create", "link", "evaluate"} : NextRequest(op)
  <2>1. \E op, m : Visits(op, m) /\ UNCHANGED <<text, loaded, nextDef, swift>>
    BY <1>2, RequestEffect
  <2>2. QED
    BY <2>1 DEF Visits, VisitFaults, VisitPushes, VisitSkips, SetFlags
<1>3. CASE TraversalDone
  BY <1>3, TraversalDoneEffect DEF Pops
<1>4. CASE LinkDone
  BY <1>4, LinkDoneEffect DEF Pops
<1>5. CASE InitNative
  BY <1>5, InitNativeEffect DEF SetFlags, Pops
<1>6. CASE EnterBody
  BY <1>6, EnterBodyEffect
<1>7. CASE LeaveBody
  BY <1>7, LeaveBodyEffect DEF SetFlags, Pops
<1>8. CASE NextStage
  <2>1. \E op, m : Visits(op, m) /\ UNCHANGED <<text, loaded, nextDef, swift>>
    BY <1>8, StageEffect
  <2>2. QED
    BY <2>1 DEF Visits, VisitFaults, VisitPushes, VisitSkips, SetFlags
<1>9. CASE EvalReturns
  BY <1>9, EvalReturnsEffect DEF Pops
<1>10. CASE UnwindResolve \/ UnwindLink \/ EvalFails
  BY <1>10, UnwindEffect DEF Unloads, Pops
<1>11. CASE UnwindEvaluate
  BY <1>11, UnwindEvaluateEffect DEF SetFlags, Pops
<1>12. ASSUME NEW n \in Natives, Module(n) PROVE AddsDef
  BY <1>12, ModuleEffect DEF AddsDef
<1>13. CASE \E m \in swift : Function(m)
  BY <1>13, FunctionEffect DEF SetFlags
<1>14. ASSUME NEW imports \in RootTexts, Eval(imports) PROVE AddsDef
  BY <1>14, EvalEffect DEF AddsDef, Starts
<1>15. ASSUME NEW n \in Names, Import(n) PROVE KeepsDefs \/ AddsDef
  <2>1. \/ /\ n \in Files /\ Starts(n, text[n])
           /\ \A a \in loaded : def[a].name # n
        \/ \E m : ImportFinds(n, m)
    BY <1>15, ImportEffect
  <2>2. CASE \E m : ImportFinds(n, m)
    BY <2>2 DEF ImportFinds, SetFlags
  <2>3. CASE n \in Files /\ Starts(n, text[n]) /\ \A a \in loaded : def[a].name # n
    BY <2>3 DEF Starts, AddsDef
  <2>4. QED
    BY <2>1, <2>2, <2>3
<1>16. QED
  BY <1>1, <1>2, <1>3, <1>4, <1>5, <1>6, <1>7, <1>8, <1>9, <1>10, <1>11, <1>12,
     <1>13, <1>14, <1>15 DEF Next, EngineNext, AppNext

FlagsGrow == \A a \in Defined : def[a].flags \ {"mark"} \subseteq def'[a].flags

\* No flag is cleared but eval_mark.
LEMMA FlagsStep ==
    ASSUME TypeOK, Next
    PROVE  FlagsGrow
<1> USE DEF FlagsGrow
<1>1. Defined \subseteq Addr /\ loaded \subseteq Addr /\ nextDef \notin Defined
  BY TypeFacts DEF Defined
<1>2. ASSUME def' = def PROVE FlagsGrow
  BY <1>2
<1>3. ASSUME NEW m, NEW F, SetFlags(m, F), def[m].flags \ {"mark"} \subseteq F PROVE FlagsGrow
  BY <1>1, <1>3 DEF SetFlags
<1>4. ASSUME NEW op, NEW m, Visits(op, m) PROVE FlagsGrow
  BY <1>2, <1>3, <1>4 DEF Visits, VisitFaults, VisitPushes, VisitSkips
<1>5. ASSUME NEW name, NEW imports, NEW F, Defines(name, imports, F) PROVE FlagsGrow
  BY <1>1, <1>5 DEF Defines
<1>6. CASE ResolveRequest
  <2>1. (\E m : ResolveFinds(m)) \/ ResolveLoads \/ ResolveFails
    BY <1>6, ResolveEffect
  <2>2. ASSUME NEW m, ResolveFinds(m) PROVE FlagsGrow
    BY <1>1, <2>2 DEF ResolveFinds, Meets
  <2>3. QED
    BY <1>2, <1>5, <2>1, <2>2 DEF ResolveLoads, ResolveFails
<1>7. CASE \E op \in {"create", "link", "evaluate"} : NextRequest(op)
  BY <1>4, <1>7, RequestEffect
<1>8. CASE NextStage
  BY <1>4, <1>8, StageEffect
<1>9. CASE TraversalDone \/ LinkDone \/ EvalReturns \/ EnterBody
  BY <1>2, <1>9, TraversalDoneEffect, LinkDoneEffect, EvalReturnsEffect, EnterBodyEffect
<1>10. CASE UnwindResolve \/ UnwindLink \/ EvalFails
  BY <1>2, <1>10, UnwindEffect
<1>11. CASE UnwindEvaluate
  BY <1>3, <1>11, UnwindEvaluateEffect
<1>12. CASE InitNative
  <2>1. PICK E : SetFlags(Top.mod, AfterRun(Top.mod) \cup E)
    BY <1>12, InitNativeEffect
  <2>2. QED
    BY <1>3, <2>1 DEF AfterRun
<1>13. CASE LeaveBody
  <2>1. \/ SetFlags(Top.mod, AfterRun(Top.mod))
        \/ SetFlags(Top.mod, AfterRun(Top.mod) \cup {"exc"})
    BY <1>13, LeaveBodyEffect
  <2>2. def[Top.mod].flags \ {"mark"} \subseteq AfterRun(Top.mod)
    BY DEF AfterRun
  <2>3. QED
    BY <1>3, <2>1, <2>2
<1>14. ASSUME NEW n \in Natives, Module(n) PROVE FlagsGrow
  BY <1>5, <1>14, ModuleEffect
<1>15. ASSUME NEW m \in swift, Function(m) PROVE FlagsGrow
  BY <1>2, <1>3, <1>15, FunctionEffect
<1>16. ASSUME NEW imports \in RootTexts, Eval(imports) PROVE FlagsGrow
  BY <1>5, <1>16, EvalEffect DEF Starts
<1>17. ASSUME NEW n \in Names, Import(n) PROVE FlagsGrow
  BY <1>3, <1>5, <1>17, ImportEffect DEF Starts, ImportFinds
<1>18. QED
  BY <1>6, <1>7, <1>8, <1>9, <1>10, <1>11, <1>12, <1>13, <1>14, <1>15, <1>16, <1>17
  DEF Next, EngineNext, AppNext

\* Importers of one file share one definition, whatever the import graph,
\* the failures and the evaluations within evaluations:
\* js_host_resolve_imported_module never loads a file that is in the list.
THEOREM OneDefinition ==
    Spec => []OneDefinitionPerFile
<1>1. Init => OneDefinitionPerFile
  BY DEF Init, OneDefinitionPerFile
<1>2. TypeOK /\ OneDefinitionPerFile /\ [Next]_vars => OneDefinitionPerFile'
  <2> SUFFICES ASSUME TypeOK, OneDefinitionPerFile, [Next]_vars,
                      NEW m \in loaded', NEW n \in loaded',
                      def'[m].name = def'[n].name, def'[m].name \in Files
               PROVE  m = n
    BY DEF OneDefinitionPerFile
  <2>1. loaded \subseteq Addr /\ loaded \subseteq Defined
    BY TypeFacts
  <2>2. CASE KeepsDefs \/ MeetsRequest
    <3>1. loaded' \subseteq loaded /\ \A a \in Addr : def'[a].name = def[a].name
      BY <2>2 DEF KeepsDefs, MeetsRequest, ResolveFinds, Meets
    <3>2. QED
      BY <2>1, <3>1 DEF OneDefinitionPerFile
  <2>3. CASE AddsDef
    <3>1. PICK name, imports, F :
            /\ Defines(name, imports, F)
            /\ name \in Files => \A a \in loaded : def[a].name # name
      BY <2>3, NamesAssumption DEF AddsDef, Names
    <3>2. /\ loaded' = loaded \cup {nextDef} /\ def'[nextDef].name = name
          /\ \A a \in Addr \ {nextDef} : def'[a] = def[a]
      BY <3>1 DEF Defines
    <3>3. \A a \in loaded : a # nextDef
      BY <2>1, TypeFacts DEF Defined
    <3>4. \A a \in loaded : def'[a] = def[a]
      BY <2>1, <3>2, <3>3
    <3>5. QED
      BY <3>1, <3>2, <3>4 DEF OneDefinitionPerFile
  <2>4. CASE UNCHANGED vars
    BY <2>4 DEF vars, OneDefinitionPerFile
  <2>5. QED
    BY <2>2, <2>3, <2>4, DefsStep
<1>3. QED
  BY <1>1, <1>2, TypeCorrect, PTL DEF Spec

-----------------------------------------------------------------------------
(***************************************************************************)
(* Frames and their modules, with evaluations within evaluations.  A frame *)
(* that may free its module when it fails resolves it; the frames above it *)
(* resolve, too, and no other frame has the module but that of the         *)
(* evaluation it is loaded for.                                            *)
(***************************************************************************)
OwnedInv ==
    /\ \A j \in 1..Height : stack[j].owned =>
          stack[j].op = "resolve" /\ Has(stack[j].mod, "resolved")
    /\ \A j, k \in 1..Height : j < k /\ stack[j].op = "resolve" => stack[k].op = "resolve"
    /\ \A j, k \in 1..Height : j # k /\ stack[j].owned /\ stack[k].mod = stack[j].mod
          => stack[k].op = "base" /\ stack[k].i = 1

\* What FramesKeepModules says of a step.
KeepsFrames ==
    \A j \in DOMAIN stack' :
        \/ HasModule(stack'[j], loaded')
        \/ j \in DOMAIN stack /\ ~HasModule(stack[j], loaded)
        \/ NestedFailure

\* Unless the frame on top resolves, no frame does.
LEMMA NoneResolves ==
    ASSUME TypeOK, OwnedInv, stack = <<>> \/ Top.op # "resolve"
    PROVE  \A j \in 1..Height : stack[j].op # "resolve" /\ ~stack[j].owned
<1> SUFFICES ASSUME NEW j \in 1..Height, stack[j].op = "resolve" \/ stack[j].owned
             PROVE  FALSE
  OBVIOUS
<1>1. Height \in Nat /\ stack # <<>>
  BY TypeFacts DEF Height
<1>2. Top = stack[Height] /\ Top.op # "resolve"
  BY <1>1 DEF Top, Height
<1>3. stack[j].op = "resolve"
  BY DEF OwnedInv
<1>4. j = Height \/ j < Height
  BY <1>1
<1>5. QED
  BY <1>1, <1>2, <1>3, <1>4 DEF OwnedInv

\* The frame on top returns, and no definition is freed but its own.
LEMMA PopFrames ==
    ASSUME TypeOK, OwnedInv, FlagsGrow, stack # <<>>, IsBelow(stack'),
           \A j \in 1..Height - 1 : HasModule(stack[j], loaded) =>
               HasModule(stack[j], loaded') \/ NestedFailure
    PROVE  OwnedInv' /\ KeepsFrames
<1>1. /\ Height \in Nat \ {0} /\ Height' = Height - 1 /\ DOMAIN stack' = 1..Height - 1
      /\ DOMAIN stack = 1..Height
  BY TopType, TypeFacts DEF IsBelow, Height
<1>2. \A j \in 1..Height - 1 : j \in 1..Height /\ stack'[j] = stack[j] /\ stack[j].mod \in Defined
  BY <1>1, TypeFacts DEF IsBelow
<1>3. \A j \in 1..Height - 1 : Has(stack[j].mod, "resolved") => "resolved" \in def'[stack[j].mod].flags
  BY <1>2 DEF FlagsGrow, Has
<1>4. KeepsFrames
  BY <1>1, <1>2 DEF KeepsFrames
<1>5. QED
  BY <1>1, <1>2, <1>3, <1>4 DEF OwnedInv, Has

\* The frame on top moves on, or enters the code of its module.
Stays ==
    /\ stack' \in Seq(FrameType) /\ Len(stack') = Height
    /\ \A j \in 1..Height - 1 : stack'[j] = stack[j]
    /\ stack'[Height].mod = Top.mod /\ (stack'[Height].owned <=> Top.owned)
    /\ stack'[Height].op = "resolve" <=> Top.op = "resolve"
    /\ stack'[Height].op = "base" <=> Top.op = "base"
    /\ Top.op = "base" => Top.mod \in loaded

LEMMA StayFrames ==
    ASSUME TypeOK, OwnedInv, FlagsGrow, stack # <<>>, Stays, loaded \subseteq loaded'
    PROVE  OwnedInv' /\ KeepsFrames
<1>1. /\ Height \in Nat \ {0} /\ Height' = Height /\ DOMAIN stack' = 1..Height
      /\ DOMAIN stack = 1..Height /\ Top = stack[Height]
  BY TopType, TypeFacts DEF Stays, Height
<1>2. \A j \in 1..Height : /\ stack'[j].mod = stack[j].mod /\ stack[j].mod \in Defined
                           /\ stack'[j].owned <=> stack[j].owned
                           /\ stack'[j].op = "resolve" <=> stack[j].op = "resolve"
                           /\ j # Height => stack'[j] = stack[j]
  <2>1. \A j \in 1..Height : j = Height \/ j \in 1..Height - 1
    BY <1>1
  <2>2. QED
    BY <1>1, <2>1, TypeFacts DEF Stays
<1>3. \A j \in 1..Height : Has(stack[j].mod, "resolved") => "resolved" \in def'[stack[j].mod].flags
  BY <1>2 DEF FlagsGrow, Has
<1>4. ASSUME NEW j \in 1..Height
      PROVE  HasModule(stack'[j], loaded') \/ ~HasModule(stack[j], loaded)
  <2>1. CASE j # Height
    BY <1>2, <2>1 DEF HasModule
  <2>2. CASE j = Height
    BY <1>1, <2>2 DEF HasModule, Stays
  <2>3. QED
    BY <2>1, <2>2
<1>5. KeepsFrames
  BY <1>1, <1>4 DEF KeepsFrames
<1>6. ASSUME NEW j \in 1..Height, NEW k \in 1..Height, j # k, stack[j].owned,
             stack[k].mod = stack[j].mod
      PROVE  stack'[k].op = "base" /\ stack'[k].i = 1
  <2>1. stack[k].op = "base" /\ stack[k].i = 1 /\ stack[j].op = "resolve"
    BY <1>6 DEF OwnedInv
  <2>2. k # Height
    BY <1>1, <2>1, NoneResolves
  <2>3. QED
    BY <1>2, <2>1, <2>2
<1>7. QED
  BY <1>1, <1>2, <1>3, <1>5, <1>6 DEF OwnedInv, Has

\* A traversal goes on to a loaded module.
LEMMA PushFrames ==
    ASSUME TypeOK, OwnedInv, FlagsGrow, stack # <<>>, loaded' = loaded,
           NEW op \in {"resolve", "create", "link", "evaluate"}, NEW m \in loaded,
           AdvancesAndPushes(Frame(op, m, FALSE)),
           Top.op = "base" => Top.mod \in loaded,
           Top.op = "resolve" <=> op = "resolve",
           op = "resolve" => ~Has(m, "resolved")
    PROVE  OwnedInv' /\ KeepsFrames
<1> DEFINE f == Frame(op, m, FALSE)
<1>1. f.op = op /\ f.mod = m /\ ~f.owned
  BY DEF Frame
<1> HIDE DEF f
<1>2. /\ Height \in Nat \ {0} /\ Height' = Height + 1 /\ DOMAIN stack' = 1..Height + 1
      /\ DOMAIN stack = 1..Height /\ Top = stack[Height]
  BY TopType, TypeFacts DEF AdvancesAndPushes, Height
<1>3. \A j \in 1..Height : /\ stack'[j].mod = stack[j].mod /\ stack[j].mod \in Defined
                           /\ stack'[j].owned <=> stack[j].owned
                           /\ stack'[j].op = stack[j].op
                           /\ j # Height => stack'[j] = stack[j]
  <2>1. \A j \in 1..Height : j = Height \/ j \in 1..Height - 1
    BY <1>2
  <2>2. QED
    BY <1>2, <2>1, TypeFacts DEF AdvancesAndPushes
<1>4. stack'[Height + 1] = f
  BY DEF AdvancesAndPushes, f
<1>5. \A j \in 1..Height : Has(stack[j].mod, "resolved") => "resolved" \in def'[stack[j].mod].flags
  BY <1>3 DEF FlagsGrow, Has
<1>6. KeepsFrames
  <2> SUFFICES ASSUME NEW j \in 1..Height + 1
               PROVE  HasModule(stack'[j], loaded)
                         \/ (j \in 1..Height /\ ~HasModule(stack[j], loaded))
    BY <1>2 DEF KeepsFrames
  <2>1. CASE j = Height + 1
    BY <1>1, <1>4, <2>1 DEF HasModule
  <2>2. CASE j = Height
    BY <1>2, <1>3, <2>2 DEF HasModule
  <2>3. CASE j \in 1..Height - 1
    <3>1. j \in 1..Height /\ j # Height
      BY <1>2, <2>3
    <3>2. QED
      BY <1>3, <3>1 DEF HasModule
  <2>4. QED
    BY <1>2, <2>1, <2>2, <2>3
<1>7. \A j \in 1..Height : stack[j].owned => stack[j].op = "resolve" /\ stack[j].mod # m
  <2> SUFFICES ASSUME NEW j \in 1..Height, stack[j].owned
               PROVE  stack[j].op = "resolve" /\ stack[j].mod # m
    OBVIOUS
  <2>1. stack[j].op = "resolve" /\ Has(stack[j].mod, "resolved")
    BY DEF OwnedInv
  <2>2. op = "resolve"
    BY <2>1, NoneResolves
  <2>3. QED
    BY <2>1, <2>2
<1>8. \A j \in 1..Height : stack[j].op = "resolve" => op = "resolve"
  BY NoneResolves
<1>9. ASSUME NEW j \in 1..Height + 1, stack'[j].owned
      PROVE  /\ j \in 1..Height /\ stack[j].owned /\ stack'[j].op = "resolve"
             /\ "resolved" \in def'[stack'[j].mod].flags
  <2>1. j \in 1..Height
    BY <1>1, <1>2, <1>4, <1>9
  <2>2. QED
    BY <1>3, <1>5, <1>9, <2>1 DEF OwnedInv
<1>10. ASSUME NEW j \in 1..Height + 1, NEW k \in 1..Height + 1, j < k, stack'[j].op = "resolve"
       PROVE  stack'[k].op = "resolve"
  <2>1. j \in 1..Height /\ stack[j].op = "resolve"
    BY <1>2, <1>3, <1>10
  <2>2. CASE k = Height + 1
    BY <1>1, <1>4, <1>8, <2>1, <2>2
  <2>3. CASE k \in 1..Height
    BY <1>3, <1>10, <2>1, <2>3 DEF OwnedInv
  <2>4. QED
    BY <1>2, <2>2, <2>3
<1>11. ASSUME NEW j \in 1..Height + 1, NEW k \in 1..Height + 1, j # k, stack'[j].owned,
              stack'[k].mod = stack'[j].mod
       PROVE  stack'[k].op = "base" /\ stack'[k].i = 1
  <2>1. j \in 1..Height /\ stack[j].owned /\ stack'[j].mod = stack[j].mod
    BY <1>3, <1>9, <1>11
  <2>2. k # Height + 1
    BY <1>1, <1>4, <1>7, <1>11, <2>1
  <2>3. k \in 1..Height
    BY <1>2, <2>2
  <2>4. stack[k].op = "base" /\ stack[k].i = 1 /\ stack[j].op = "resolve"
    BY <1>3, <1>11, <2>1, <2>3 DEF OwnedInv
  <2>5. k # Height
    BY <1>2, <2>1, <2>4, NoneResolves
  <2>6. QED
    BY <1>3, <2>3, <2>4, <2>5
<1>12. OwnedInv'
  BY <1>2, <1>9, <1>10, <1>11 DEF OwnedInv, Has
<1>13. QED
  BY <1>6, <1>12

\* The module on top has a file loaded.
LEMMA LoadFrames ==
    ASSUME TypeOK, OwnedInv, FlagsGrow, stack # <<>>, Top.op = "resolve",
           NEW name, NEW imports, Defines(name, imports, {"resolved"}),
           IsPushed(stack, stack', Frame("resolve", nextDef, TRUE))
    PROVE  OwnedInv' /\ KeepsFrames
<1> DEFINE f == Frame("resolve", nextDef, TRUE)
<1>1. f.op = "resolve" /\ f.mod = nextDef /\ f.owned
  BY DEF Frame
<1> HIDE DEF f
<1>2. /\ Height \in Nat \ {0} /\ Height' = Height + 1 /\ DOMAIN stack' = 1..Height + 1
      /\ DOMAIN stack = 1..Height /\ Top = stack[Height]
  BY TopType, TypeFacts DEF IsPushed, Height
<1>3. \A j \in 1..Height : /\ stack'[j] = stack[j] /\ stack[j].mod \in Defined
                           /\ stack[j].mod # nextDef
  BY TypeFacts DEF IsPushed, Height, Defined
<1>4. stack'[Height + 1] = f
  BY <1>2 DEF IsPushed, Height, f
<1>5. \A j \in 1..Height : Has(stack[j].mod, "resolved") => "resolved" \in def'[stack[j].mod].flags
  BY <1>3 DEF FlagsGrow, Has
<1>6. loaded \subseteq loaded' /\ nextDef \in loaded' /\ "resolved" \in def'[nextDef].flags
  BY DEF Defines
<1>7. KeepsFrames
  <2> SUFFICES ASSUME NEW j \in 1..Height + 1
               PROVE  HasModule(stack'[j], loaded')
                         \/ (j \in 1..Height /\ ~HasModule(stack[j], loaded))
    BY <1>2 DEF KeepsFrames
  <2>1. CASE j = Height + 1
    BY <1>1, <1>4, <1>6, <2>1 DEF HasModule
  <2>2. CASE j \in 1..Height
    BY <1>3, <1>6, <2>2 DEF HasModule
  <2>3. QED
    BY <1>2, <2>1, <2>2
<1>8. \A j \in 1..Height + 1 : j \in 1..Height \/ j = Height + 1
  BY <1>2
<1>9. \A j \in 1..Height + 1 : stack'[j].owned =>
          stack'[j].op = "resolve" /\ "resolved" \in def'[stack'[j].mod].flags
  BY <1>1, <1>3, <1>4, <1>5, <1>6, <1>8 DEF OwnedInv
<1>10. \A j, k \in 1..Height + 1 : j < k /\ stack'[j].op = "resolve" => stack'[k].op = "resolve"
  <2> SUFFICES ASSUME NEW j \in 1..Height + 1, NEW k \in 1..Height + 1, j < k,
                      stack'[j].op = "resolve"
               PROVE  stack'[k].op = "resolve"
    OBVIOUS
  <2>1. CASE k = Height + 1
    BY <1>1, <1>4, <2>1
  <2>2. CASE k \in 1..Height
    <3>1. j \in 1..Height
      BY <1>2, <2>2
    <3>2. QED
      BY <1>3, <2>2, <3>1 DEF OwnedInv
  <2>3. QED
    BY <1>8, <2>1, <2>2
<1>11. \A j, k \in 1..Height + 1 : j # k /\ stack'[j].owned /\ stack'[k].mod = stack'[j].mod
          => stack'[k].op = "base" /\ stack'[k].i = 1
  <2> SUFFICES ASSUME NEW j \in 1..Height + 1, NEW k \in 1..Height + 1, j # k,
                      stack'[j].owned, stack'[k].mod = stack'[j].mod
               PROVE  stack'[k].op = "base" /\ stack'[k].i = 1
    OBVIOUS
  <2>1. j \in 1..Height /\ k \in 1..Height
    BY <1>1, <1>3, <1>4, <1>8
  <2>2. QED
    BY <1>3, <2>1 DEF OwnedInv
<1>12. OwnedInv'
  BY <1>2, <1>9, <1>10, <1>11 DEF OwnedInv, Has
<1>13. QED
  BY <1>7, <1>12

\* An evaluation starts, at rest or from the code of a module.
LEMMA StartFrames ==
    ASSUME TypeOK, OwnedInv, stack = <<>> \/ Top.op = "body",
           NEW name, NEW imports, Starts(name, imports)
    PROVE  OwnedInv' /\ KeepsFrames
<1> DEFINE f == Frame("base", nextDef, FALSE)
           g == Frame("resolve", nextDef, TRUE)
<1>1. /\ f.op = "base" /\ f.mod = nextDef /\ ~f.owned /\ f.i = 1
      /\ g.op = "resolve" /\ g.mod = nextDef /\ g.owned
  BY DEF Frame
<1>2. stack'[Height + 1] = f /\ stack'[Height + 2] = g
  BY DEF Starts
<1> HIDE DEF f, g
<1>3. /\ Height \in Nat /\ Height' = Height + 2 /\ DOMAIN stack' = 1..Height + 2
      /\ DOMAIN stack = 1..Height
  BY TypeFacts DEF Starts, Height
<1>4. \A j \in 1..Height : stack'[j] = stack[j] /\ stack[j].mod # nextDef
  BY TypeFacts DEF Starts, Defined
<1>5. \A j \in 1..Height : stack[j].op # "resolve" /\ ~stack[j].owned
  BY NoneResolves
<1>6. loaded \subseteq loaded' /\ nextDef \in loaded' /\ "resolved" \in def'[nextDef].flags
  BY DEF Starts, Defines
<1>7. \A j \in 1..Height + 2 : j \in 1..Height \/ j = Height + 1 \/ j = Height + 2
  BY <1>3
<1>8. KeepsFrames
  <2> SUFFICES ASSUME NEW j \in 1..Height + 2
               PROVE  HasModule(stack'[j], loaded')
                         \/ (j \in 1..Height /\ ~HasModule(stack[j], loaded))
    BY <1>3 DEF KeepsFrames
  <2>1. CASE j \in 1..Height
    BY <1>4, <1>6, <2>1 DEF HasModule
  <2>2. CASE j = Height + 1 \/ j = Height + 2
    BY <1>1, <1>2, <1>6, <2>2 DEF HasModule
  <2>3. QED
    BY <1>7, <2>1, <2>2
<1>9. \A j \in 1..Height + 2 : stack'[j].owned \/ stack'[j].op = "resolve" => j = Height + 2
  BY <1>1, <1>2, <1>4, <1>5, <1>7
<1>10. \A j \in 1..Height + 2 : stack'[j].owned =>
          stack'[j].op = "resolve" /\ "resolved" \in def'[stack'[j].mod].flags
  BY <1>1, <1>2, <1>6, <1>9
<1>11. \A j, k \in 1..Height + 2 : j < k /\ stack'[j].op = "resolve" => stack'[k].op = "resolve"
  BY <1>3, <1>9
<1>12. \A j, k \in 1..Height + 2 : j # k /\ stack'[j].owned /\ stack'[k].mod = stack'[j].mod
          => stack'[k].op = "base" /\ stack'[k].i = 1
  <2> SUFFICES ASSUME NEW j \in 1..Height + 2, NEW k \in 1..Height + 2, j # k,
                      stack'[j].owned, stack'[k].mod = stack'[j].mod
               PROVE  stack'[k].op = "base" /\ stack'[k].i = 1
    OBVIOUS
  <2>1. j = Height + 2 /\ stack'[k].mod = nextDef
    BY <1>1, <1>2, <1>9
  <2>2. k = Height + 1
    BY <1>4, <1>7, <2>1
  <2>3. QED
    BY <1>1, <1>2, <2>2
<1>13. OwnedInv'
  BY <1>3, <1>10, <1>11, <1>12 DEF OwnedInv, Has
<1>14. QED
  BY <1>8, <1>13

LEMMA ImportView ==
    ASSUME TypeOK, stack = <<>>, NEW n, NEW m, ImportFinds(n, m)
    PROVE  /\ Height' \in 1..2 /\ Phase' = 1 /\ stack' # <<>>
           /\ stack'[1] = Frame("base", m, FALSE)
           /\ Height' = 2 => stack'[2] = Frame("resolve", m, FALSE)
<1>1. /\ Len(stack') = IF Has(m, "resolved") THEN 1 ELSE 2
      /\ stack'[1] = Frame("base", m, FALSE)
      /\ ~Has(m, "resolved") => stack'[2] = Frame("resolve", m, FALSE)
  BY DEF ImportFinds
<1>2. Frame("base", m, FALSE).i = 1
  BY DEF Frame
<1>3. Phase' = 1
  BY <1>1, <1>2 DEF Phase
<1>4. Height' = Len(stack')
  BY DEF Height
<1>5. CASE Has(m, "resolved")
  <2>1. Height' = 1
    BY <1>1, <1>4, <1>5
  <2>2. stack' # <<>>
    BY <2>1 DEF Height
  <2>3. QED
    BY <1>1, <1>3, <2>1, <2>2
<1>6. CASE ~Has(m, "resolved")
  <2>1. Height' = 2
    BY <1>1, <1>4, <1>6
  <2>2. stack' # <<>>
    BY <2>1 DEF Height
  <2>3. stack'[1] = Frame("base", m, FALSE) /\ stack'[2] = Frame("resolve", m, FALSE)
    BY <1>1, <1>6
  <2>4. QED
    BY <1>3, <2>1, <2>2, <2>3
<1>7. QED
  BY <1>5, <1>6

LEMMA ImportFrames ==
    ASSUME TypeOK, stack = <<>>, NEW n, NEW m, ImportFinds(n, m)
    PROVE  OwnedInv' /\ KeepsFrames
<1>1. m \in loaded /\ loaded' = loaded /\ stack' \in Seq(FrameType)
  BY DEF ImportFinds
<1>2. /\ Height' \in 1..2 /\ stack'[1] = Frame("base", m, FALSE)
      /\ Height' = 2 => stack'[2] = Frame("resolve", m, FALSE)
  BY ImportView
<1>3. DOMAIN stack' = 1..Height'
  BY <1>1 DEF Height
<1>4. /\ \A j \in 1..Height' : stack'[j].mod = m /\ ~stack'[j].owned
      /\ stack'[1].op = "base"
  <2>1. /\ stack'[1].mod = m /\ ~stack'[1].owned /\ stack'[1].op = "base"
        /\ Height' = 2 => stack'[2].mod = m /\ ~stack'[2].owned
    BY <1>2 DEF Frame
  <2>2. \A j \in 1..Height' : j = 1 \/ (j = 2 /\ Height' = 2)
    BY <1>2
  <2>3. QED
    BY <2>1, <2>2
<1>5. KeepsFrames
  BY <1>1, <1>3, <1>4 DEF KeepsFrames, HasModule
<1>6. \A j, k \in 1..Height' : j < k => j = 1
  BY <1>2
<1>7. QED
  BY <1>4, <1>5, <1>6 DEF OwnedInv

LEMMA FrameStep ==
    ASSUME TypeOK, OwnedInv, Next
    PROVE  OwnedInv' /\ KeepsFrames
<1> DEFINE Goal == OwnedInv' /\ KeepsFrames
<1>1. FlagsGrow
  BY FlagsStep
<1>2. Height \in Nat /\ DOMAIN stack = 1..Height /\ (stack # <<>> => Top = stack[Height])
  BY TypeFacts DEF Height, Top
<1>3. ASSUME stack' = stack, loaded \subseteq loaded' PROVE Goal
  <2>1. Height' = Height /\ \A j \in 1..Height : stack[j].mod \in Defined
    BY <1>3, TypeFacts DEF Height
  <2>2. \A j \in 1..Height : Has(stack[j].mod, "resolved") => "resolved" \in def'[stack[j].mod].flags
    BY <1>1, <2>1 DEF FlagsGrow, Has
  <2>3. KeepsFrames
    BY <1>2, <1>3 DEF KeepsFrames, HasModule
  <2>4. QED
    BY <1>3, <2>1, <2>2, <2>3 DEF OwnedInv, Has
<1>4. ASSUME Pops, loaded' = loaded PROVE Goal
  BY <1>1, <1>4, PopFrames DEF Pops, HasModule
<1>5. ASSUME NEW op \in {"create", "link", "evaluate"}, NEW m, Visits(op, m),
             stack # <<>>, Top.op # "resolve", Top.op = "base" => m = Top.mod, loaded' = loaded
      PROVE  Goal
  <2>1. CASE VisitFaults(m)
    BY <1>3, <1>5, <2>1 DEF VisitFaults
  <2>2. CASE VisitPushes(op, m)
    BY <1>1, <1>5, <2>2, PushFrames DEF VisitPushes
  <2>3. CASE VisitSkips(op, m)
    <3>1. Stays
      BY <1>5, <2>3 DEF VisitSkips, IsAdvanced, Stays
    <3>2. QED
      BY <1>1, <1>5, <3>1, StayFrames
  <2>4. QED
    BY <1>5, <2>1, <2>2, <2>3 DEF Visits
<1>6. CASE ResolveRequest
  <2>1. /\ stack # <<>> /\ Top.op = "resolve"
        /\ (\E m : ResolveFinds(m)) \/ ResolveLoads \/ ResolveFails
    BY <1>6, ResolveEffect
  <2>2. ASSUME NEW m, ResolveFinds(m) PROVE Goal
    <3>1. /\ m \in loaded /\ loaded' = loaded
          /\ IF Has(m, "resolved") THEN IsAdvanced(stack')
             ELSE AdvancesAndPushes(Frame("resolve", m, FALSE))
      BY <2>2 DEF ResolveFinds
    <3>2. CASE Has(m, "resolved")
      <4>1. Stays
        BY <2>1, <3>1, <3>2 DEF IsAdvanced, Stays
      <4>2. QED
        BY <1>1, <2>1, <3>1, <4>1, StayFrames
    <3>3. CASE ~Has(m, "resolved")
      BY <1>1, <2>1, <3>1, <3>3, PushFrames
    <3>4. QED
      BY <3>2, <3>3
  <2>3. CASE ResolveLoads
    BY <1>1, <2>1, <2>3, LoadFrames DEF ResolveLoads
  <2>4. CASE ResolveFails
    BY <1>3, <2>4 DEF ResolveFails
  <2>5. QED
    BY <2>1, <2>2, <2>3, <2>4
<1>7. ASSUME NEW op \in {"create", "link", "evaluate"}, NextRequest(op) PROVE Goal
  <2>1. /\ stack # <<>> /\ Top.op = op /\ Visits(op, def[Top.mod].tgt[Top.i]) /\ loaded' = loaded
    BY <1>7, RequestEffect
  <2>2. Top.op # "resolve" /\ Top.op # "base"
    BY <2>1
  <2>3. QED
    BY <1>5, <2>1, <2>2
<1>8. CASE NextStage
  BY <1>5, <1>8, StageEffect
<1>9. CASE TraversalDone \/ LinkDone \/ InitNative \/ LeaveBody \/ EvalReturns \/ UnwindEvaluate
  BY <1>4, <1>9, TraversalDoneEffect, LinkDoneEffect, InitNativeEffect, LeaveBodyEffect,
     EvalReturnsEffect, UnwindEvaluateEffect
<1>10. CASE EnterBody
  <2>1. /\ stack # <<>> /\ Top.op = "evaluate" /\ loaded' = loaded
        /\ stack' \in Seq(FrameType) /\ Len(stack') = Height
        /\ \A j \in 1..Height - 1 : stack'[j] = stack[j]
        /\ stack'[Height].op = "body" /\ stack'[Height].mod = Top.mod
        /\ (stack'[Height].owned <=> Top.owned)
    BY <1>10, EnterBodyEffect DEF DoneWith
  <2>2. Stays
    BY <2>1 DEF Stays
  <2>3. QED
    BY <1>1, <2>1, <2>2, StayFrames
<1>11. CASE UnwindResolve \/ UnwindLink \/ EvalFails
  <2>1. Pops /\ failing /\ Unloads /\ ~fault /\ stack # <<>> /\ IsBelow(stack')
    BY <1>11, UnwindEffect DEF Pops
  <2>2. Height \in Nat \ {0} /\ Top = stack[Height] /\ Top.i \in Nat \ {0}
    BY <2>1, TopType
  <2>3. CASE loaded' = loaded
    BY <1>4, <2>1, <2>3
  <2>4. CASE Top.op = "resolve" /\ Top.owned /\ loaded' = loaded \ {Top.mod}
    <3>1. ASSUME NEW j \in 1..Height - 1, HasModule(stack[j], loaded)
          PROVE  HasModule(stack[j], loaded')
      <4>1. j \in 1..Height /\ Height \in 1..Height /\ j # Height
        BY <2>2
      <4>2. CASE stack[j].mod = Top.mod
        <5>1. stack[j].op = "base" /\ stack[j].i = 1
          BY <2>2, <2>4, <4>1, <4>2 DEF OwnedInv
        <5>2. QED
          BY <5>1 DEF HasModule
      <4>3. CASE stack[j].mod # Top.mod
        BY <2>4, <3>1, <4>3 DEF HasModule
      <4>4. QED
        BY <4>2, <4>3
    <3>2. QED
      BY <1>1, <2>1, <3>1, PopFrames
  <2>5. CASE Top.op = "base" /\ Top.i # 1
    <3>1. Failing("base") /\ Top.i > 1
      BY <2>1, <2>2, <2>5 DEF Failing, AtRest
    <3>2. \A j \in 1..Height - 1 : NestedFailure
      BY <2>2, <3>1 DEF NestedFailure, Height
    <3>3. QED
      BY <1>1, <2>1, <3>2, PopFrames
  <2>6. QED
    BY <2>1, <2>3, <2>4, <2>5 DEF Unloads
<1>12. ASSUME NEW n \in Natives, Module(n) PROVE Goal
  BY <1>3, <1>12, ModuleEffect DEF Defines
<1>13. ASSUME NEW m \in swift, Function(m) PROVE Goal
  BY <1>3, <1>13, FunctionEffect
<1>14. ASSUME NEW imports \in RootTexts, Eval(imports) PROVE Goal
  BY <1>14, EvalEffect, StartFrames
<1>15. ASSUME NEW n \in Names, Import(n) PROVE Goal
  BY <1>15, ImportEffect, StartFrames, ImportFrames
<1>16. QED
  BY <1>6, <1>7, <1>8, <1>9, <1>10, <1>11, <1>12, <1>13, <1>14, <1>15
  DEF Next, EngineNext, AppNext

\* Whatever native functions load and evaluate in the middle of an
\* evaluation, whatever files import and wherever loading fails, no step
\* takes the definition of a frame away or makes a frame for a freed one,
\* except that of an evaluation within another that fails after loading.
THEOREM FramesKept ==
    Spec => FramesKeepModules
<1>1. Init => OwnedInv
  BY DEF Init, OwnedInv, Height
<1>2. TypeOK /\ OwnedInv /\ [Next]_vars => OwnedInv'
  <2> SUFFICES ASSUME TypeOK, OwnedInv, [Next]_vars PROVE OwnedInv'
    OBVIOUS
  <2>1. CASE UNCHANGED vars
    BY <2>1 DEF vars, OwnedInv, Height, Has
  <2>2. QED
    BY <2>1, FrameStep
<1>3. TypeOK /\ OwnedInv /\ [Next]_vars => [KeepsFrames]_vars
  BY FrameStep
<1>4. QED
  BY <1>1, <1>2, <1>3, TypeCorrect, PTL DEF Spec, FramesKeepModules, KeepsFrames

-----------------------------------------------------------------------------
(***************************************************************************)
(* Contexts whose native functions do not evaluate modules.                *)
(***************************************************************************)
LEMMA OpPhase ==
    ASSUME NEW p \in 1..4
    PROVE  /\ "base" \notin OpsOf[p]
           /\ "resolve" \in OpsOf[p] <=> p = 1
           /\ "create" \in OpsOf[p] <=> p = 2
           /\ "link" \in OpsOf[p] <=> p = 3
           /\ "evaluate" \in OpsOf[p] <=> p = 4
           /\ "body" \in OpsOf[p] <=> p = 4
           /\ p = 1 => FlagIn[p] = "resolved"
           /\ p = 4 => FlagIn[p] = "mark"
           /\ \A op \in {"create", "link", "evaluate"} :
                 op \in OpsOf[p] => FlagOf(op) = FlagIn[p]
           /\ p # 4 => /\ Stages[p] \in OpsOf[p + 1] /\ Stages[p] # "body"
                       /\ FlagOf(Stages[p]) = FlagIn[p + 1]
<1>1. /\ OpsOf[1] = {"resolve"} /\ OpsOf[2] = {"create"} /\ OpsOf[3] = {"link"}
      /\ OpsOf[4] = {"evaluate", "body"}
  BY DEF OpsOf
<1>2. /\ FlagIn[1] = "resolved" /\ FlagIn[2] = "created" /\ FlagIn[3] = "linked"
      /\ FlagIn[4] = "mark"
  BY DEF FlagIn
<1>3. Stages[1] = "create" /\ Stages[2] = "link" /\ Stages[3] = "evaluate"
  BY DEF Stages
<1>4. FlagOf("create") = "created" /\ FlagOf("link") = "linked" /\ FlagOf("evaluate") = "mark"
  BY DEF FlagOf
<1>5. CASE p = 1
  BY <1>1, <1>2, <1>3, <1>4, <1>5
<1>6. CASE p = 2
  BY <1>1, <1>2, <1>3, <1>4, <1>6
<1>7. CASE p = 3
  BY <1>1, <1>2, <1>3, <1>4, <1>7
<1>8. CASE p = 4
  BY <1>1, <1>2, <1>3, <1>4, <1>8
<1>9. QED
  BY <1>5, <1>6, <1>7, <1>8

StackInv == TypeOK /\ BottomInv /\ FrameInv

\* The frame on top is the evaluation, or belongs to a traversal.
LEMMA Shape ==
    ASSUME StackInv, stack # <<>>
    PROVE  /\ Height \in Nat \ {0} /\ Phase \in 1..4 /\ Top = stack[Height]
           /\ Top.op = "base" <=> Height = 1
           /\ Height >= 2 => /\ Top.op \in OpsOf[Phase] /\ Top.mod \in loaded
                             /\ Has(Top.mod, FlagIn[Phase])
<1>1. Height \in Nat \ {0} /\ Top = stack[Height]
  BY TopType DEF StackInv
<1>2. Phase \in 1..4 /\ stack[1].op = "base"
  BY DEF StackInv, BottomInv
<1>3. CASE Height = 1
  BY <1>1, <1>2, <1>3
<1>4. CASE Height # 1
  <2>1. Height \in 2..Height
    BY <1>1, <1>4
  <2>2. Top.op \in OpsOf[Phase] /\ Top.mod \in loaded /\ Has(Top.mod, FlagIn[Phase])
    BY <1>1, <2>1 DEF StackInv, FrameInv
  <2>3. Top.op # "base"
    BY <1>2, <2>2, OpPhase
  <2>4. QED
    BY <1>1, <1>2, <1>4, <2>2, <2>3
<1>5. QED
  BY <1>3, <1>4

\* A frame of a traversal returns.
LEMMA FramesPop ==
    ASSUME StackInv, Height >= 2, IsBelow(stack'), failing' \in BOOLEAN,
           ~failing' \/ Phase > 1 => stack[1].mod \in loaded',
           \A j \in 2..Height : stack[j].mod # Top.mod =>
               stack[j].mod \in loaded' /\ FlagIn[Phase] \in def'[stack[j].mod].flags
    PROVE  BottomInv' /\ FrameInv'
<1>1. stack # <<>> /\ Height \in Nat
  BY TypeFacts DEF Height, StackInv
<1>2. /\ Height \in Nat \ {0} /\ Phase \in 1..4 /\ Top = stack[Height]
  BY <1>1, Shape
<1>3. /\ stack' # <<>> /\ stack'[1] = stack[1] /\ Height' = Height - 1
  BY <1>2 DEF IsBelow, Height
<1>4. \A j \in 2..Height' : j \in 2..Height /\ j # Height /\ stack'[j] = stack[j]
  BY <1>2, <1>3 DEF IsBelow
<1>5. \A j \in 2..Height' : stack[j].mod # Top.mod
  <2>1. Height \in 2..Height
    BY <1>2
  <2>2. QED
    BY <1>2, <1>4, <2>1 DEF StackInv, FrameInv
<1>6. Phase' = Phase
  BY <1>3 DEF Phase
<1>7. BottomInv'
  BY <1>1, <1>2, <1>3, <1>6 DEF BottomInv, StackInv
<1>8. \A j \in 2..Height' : /\ stack[j].op \in OpsOf[Phase]
                            /\ stack[j].op # "body"
                            /\ stack[j].mod \in loaded'
                            /\ FlagIn[Phase] \in def'[stack[j].mod].flags
  BY <1>4, <1>5 DEF StackInv, FrameInv
<1>9. \A j, k \in 2..Height' : stack[j].mod = stack[k].mod => j = k
  BY <1>4 DEF StackInv, FrameInv
<1>10. FrameInv'
  BY <1>4, <1>6, <1>8, <1>9 DEF FrameInv, Has
<1>11. QED
  BY <1>7, <1>10

\* The frame on top of a traversal moves on, or enters the module's code.
LEMMA FramesStay ==
    ASSUME StackInv, Height >= 2, Len(stack') = Height,
           \A j \in 1..Height - 1 : stack'[j] = stack[j],
           stack'[Height].mod = Top.mod,
           stack'[Height].op = Top.op
             \/ (Top.op = "evaluate" /\ stack'[Height].op = "body"),
           failing' \in BOOLEAN, loaded \subseteq loaded',
           \A j \in 2..Height : FlagIn[Phase] \in def'[stack[j].mod].flags,
           Phase = 1 => ~failing
    PROVE  BottomInv' /\ FrameInv'
<1>1. stack # <<>> /\ Height \in Nat
  BY TypeFacts DEF Height, StackInv
<1>2. /\ Height \in Nat \ {0} /\ Phase \in 1..4 /\ Top = stack[Height]
      /\ Top.op \in OpsOf[Phase]
  BY <1>1, Shape
<1>3. /\ stack' # <<>> /\ stack'[1] = stack[1] /\ Height' = Height
  BY <1>2 DEF Height
<1>4. Phase' = Phase
  BY <1>3 DEF Phase
<1>5. stack[1].mod \in loaded /\ stack[1].op = "base"
  BY <1>1, <1>2 DEF StackInv, BottomInv
<1>6. BottomInv'
  BY <1>2, <1>3, <1>4, <1>5 DEF BottomInv
<1>7. \A j \in 2..Height : j = Height \/ j \in 1..Height - 1
  BY <1>2
<1>8. \A j \in 2..Height : stack'[j].mod = stack[j].mod
  BY <1>2, <1>7
<1>9. \A j \in 2..Height : /\ stack'[j].op \in OpsOf[Phase]
                           /\ stack'[j].op = "body" => j = Height
  <2>1. \A j \in 2..Height : /\ stack[j].op \in OpsOf[Phase]
                             /\ stack[j].op = "body" => j = Height
    BY DEF StackInv, FrameInv
  <2>2. stack'[Height].op \in OpsOf[Phase]
    BY <1>2, OpPhase
  <2>3. QED
    BY <1>7, <2>1, <2>2
<1>10. \A j \in 2..Height : stack[j].mod \in loaded
  BY DEF StackInv, FrameInv
<1>11. \A j, k \in 2..Height : stack[j].mod = stack[k].mod => j = k
  BY DEF StackInv, FrameInv
<1>12. FrameInv'
  BY <1>3, <1>4, <1>8, <1>9, <1>10, <1>11 DEF FrameInv, Has
<1>13. QED
  BY <1>6, <1>12

\* A traversal calls itself: a frame is put on top of its frames.
LEMMA FramesPush ==
    ASSUME StackInv, Height >= 2, Len(stack') = Height + 1,
           \A j \in 1..Height - 1 : stack'[j] = stack[j],
           stack'[Height].mod = Top.mod, stack'[Height].op = Top.op, Top.op # "body",
           NEW f, stack'[Height + 1] = f, f.op \in OpsOf[Phase], f.mod \in loaded',
           \A j \in 2..Height : f.mod # stack[j].mod,
           FlagIn[Phase] \in def'[f.mod].flags,
           failing' \in BOOLEAN, loaded \subseteq loaded',
           \A j \in 2..Height : FlagIn[Phase] \in def'[stack[j].mod].flags,
           Phase = 1 => ~failing
    PROVE  BottomInv' /\ FrameInv'
<1>1. stack # <<>> /\ Height \in Nat
  BY TypeFacts DEF Height, StackInv
<1>2. /\ Height \in Nat \ {0} /\ Phase \in 1..4 /\ Top = stack[Height]
      /\ Top.op \in OpsOf[Phase]
  BY <1>1, Shape
<1>3. /\ stack' # <<>> /\ stack'[1] = stack[1] /\ Height' = Height + 1
  BY <1>2 DEF Height
<1>4. Phase' = Phase
  BY <1>3 DEF Phase
<1>5. stack[1].mod \in loaded /\ stack[1].op = "base"
  BY <1>1, <1>2 DEF StackInv, BottomInv
<1>6. BottomInv'
  BY <1>2, <1>3, <1>4, <1>5 DEF BottomInv
<1>7. \A j \in 2..Height' : j = Height + 1 \/ j \in 2..Height
  BY <1>2, <1>3
<1>8. \A j \in 2..Height : j = Height \/ j \in 1..Height - 1
  BY <1>2
<1>9. \A j \in 2..Height : /\ stack'[j].mod = stack[j].mod /\ stack'[j].op = stack[j].op
  BY <1>2, <1>8
<1>10. \A j \in 2..Height : /\ stack[j].op \in OpsOf[Phase] /\ stack[j].op # "body"
                            /\ stack[j].mod \in loaded
  BY <1>2 DEF StackInv, FrameInv
<1>11. \A j, k \in 2..Height : stack[j].mod = stack[k].mod => j = k
  BY DEF StackInv, FrameInv
<1>12. \A j \in 2..Height' : /\ stack'[j].op \in OpsOf[Phase]
                             /\ stack'[j].op = "body" => j = Height'
                             /\ stack'[j].mod \in loaded'
                             /\ FlagIn[Phase] \in def'[stack'[j].mod].flags
  BY <1>3, <1>7, <1>9, <1>10
<1>13. \A j, k \in 2..Height' : stack'[j].mod = stack'[k].mod => j = k
  BY <1>7, <1>9, <1>11
<1>14. FrameInv'
  BY <1>4, <1>12, <1>13 DEF FrameInv, Has
<1>15. QED
  BY <1>6, <1>14

\* An evaluation begins: its module is loaded, or resolved first.
LEMMA FramesStart ==
    ASSUME TypeOK, Len(stack') \in 1..2, NEW m, ~failing',
           stack'[1] = Frame("base", m, FALSE), m \in loaded',
           NEW o, Len(stack') = 2 => stack'[2] = Frame("resolve", m, o),
           Len(stack') = 2 => "resolved" \in def'[m].flags
    PROVE  BottomInv' /\ FrameInv'
<1>1. Height' \in 1..2 /\ stack' # <<>> /\ Phase' = 1
      /\ stack'[1].op = "base" /\ stack'[1].mod = m
  BY DEF Height, Frame, Phase
<1>2. BottomInv'
  <2>1. Phase' \in 1..4
    BY <1>1
  <2>2. stack'[1].mod \in loaded'
    BY <1>1
  <2>3. QED
    BY <1>1, <2>1, <2>2 DEF BottomInv
<1>3. \A j \in 2..Height' : j = 2 /\ Height' = 2
  BY <1>1
<1>4. Height' = 2 => stack'[2].op = "resolve" /\ stack'[2].mod = m
  BY DEF Height, Frame
<1>5. FrameInv'
  BY <1>1, <1>3, <1>4, OpPhase DEF FrameInv, Has, Height
<1>6. QED
  BY <1>2, <1>5

LEMMA FramesEnd ==
    ASSUME stack' = <<>>, ~failing'
    PROVE  BottomInv' /\ FrameInv'
<1>1. Height' = 0
  BY DEF Height
<1>2. QED
  BY <1>1 DEF BottomInv, FrameInv

\* A traversal of phase p visits a module.
LEMMA FramesVisit ==
    ASSUME StackInv, Height >= 2, ~failing, Top.op # "body", TypeOK',
           NEW op \in {"create", "link", "evaluate"}, op \in OpsOf[Phase], NEW m,
           Visits(op, m), loaded' = loaded
    PROVE  BottomInv' /\ FrameInv'
<1>1. stack # <<>> /\ Height \in Nat /\ failing' \in BOOLEAN
  BY TypeFacts DEF Height, StackInv, TypeOK
<1>2. Phase \in 1..4 /\ FlagOf(op) = FlagIn[Phase]
  BY <1>1, Shape, OpPhase
<1>3. \A j \in 2..Height : stack[j].mod \in loaded /\ FlagIn[Phase] \in def[stack[j].mod].flags
  BY DEF StackInv, FrameInv, Has
<1>4. loaded \subseteq Addr
  BY TypeFacts DEF StackInv
<1>5. CASE VisitFaults(m)
  <2>1. def' = def /\ stack' = stack /\ failing' = failing
    BY <1>5 DEF VisitFaults
  <2>2. QED
    BY <2>1 DEF StackInv, BottomInv, FrameInv, Has, Phase, Height
<1>6. CASE VisitPushes(op, m)
  <2> DEFINE f == Frame(op, m, FALSE)
  <2>1. /\ m \in loaded /\ ~Visited(op, m)
        /\ SetFlags(m, def[m].flags \cup {FlagOf(op)}) /\ AdvancesAndPushes(f)
    BY <1>6 DEF VisitPushes
  <2>2. f.op = op /\ f.mod = m
    BY DEF Frame
  <2> HIDE DEF f
  <2>3. FlagIn[Phase] \notin def[m].flags
    BY <1>2, <2>1 DEF Visited, Has
  <2>4. \A j \in 2..Height : m # stack[j].mod
    BY <1>3, <2>3
  <2>5. \A a \in Addr : FlagIn[Phase] \in def[a].flags => FlagIn[Phase] \in def'[a].flags
    BY <2>1 DEF SetFlags
  <2>6. FlagIn[Phase] \in def'[m].flags
    BY <1>2, <1>4, <2>1 DEF SetFlags
  <2>7. \A j \in 2..Height : FlagIn[Phase] \in def'[stack[j].mod].flags
    BY <1>3, <1>4, <2>5
  <2>8. /\ Len(stack') = Height + 1
        /\ \A j \in 1..Height - 1 : stack'[j] = stack[j]
        /\ stack'[Height].mod = Top.mod /\ stack'[Height].op = Top.op
        /\ stack'[Height + 1] = f
    BY <2>1 DEF AdvancesAndPushes
  <2>9. QED
    BY <1>1, <2>1, <2>2, <2>4, <2>6, <2>7, <2>8, FramesPush
<1>7. CASE VisitSkips(op, m)
  <2>1. IsAdvanced(stack') /\ def' = def
    BY <1>7 DEF VisitSkips
  <2>2. /\ Len(stack') = Height
        /\ \A j \in 1..Height - 1 : stack'[j] = stack[j]
        /\ stack'[Height].mod = Top.mod /\ stack'[Height].op = Top.op
    BY <2>1 DEF IsAdvanced
  <2>3. \A j \in 2..Height : FlagIn[Phase] \in def'[stack[j].mod].flags
    BY <1>3, <2>1
  <2>4. QED
    BY <1>1, <2>2, <2>3, FramesStay
<1>8. QED
  BY <1>5, <1>6, <1>7 DEF Visits

\* The evaluation starts its next traversal.
LEMMA FramesStage ==
    ASSUME StackInv, NextStage
    PROVE  BottomInv' /\ FrameInv'
<1>1. /\ stack # <<>> /\ Top.op = "base" /\ ~failing /\ ~fault /\ Top.i \in 1..3
      /\ Visits(Stages[Top.i], Top.mod) /\ loaded' = loaded
  BY StageEffect DEF StackInv
<1>2. Height = 1 /\ Top = stack[1] /\ Phase = Top.i /\ Phase \in 1..3
  BY <1>1, Shape DEF Phase
<1>3. stack[1].mod \in loaded /\ stack[1].op = "base"
  BY <1>1 DEF StackInv, BottomInv
<1>4. loaded \subseteq Addr
  BY TypeFacts DEF StackInv
<1>5. /\ Stages[Phase] \in OpsOf[Phase + 1] /\ Stages[Phase] # "body"
      /\ FlagOf(Stages[Phase]) = FlagIn[Phase + 1]
  BY <1>2, OpPhase
<1> DEFINE op == Stages[Phase]
           m == stack[1].mod
<1>6. VisitPushes(op, m) \/ VisitSkips(op, m)
  BY <1>1, <1>2, <1>3 DEF Visits, VisitFaults
<1> HIDE DEF op, m
<1>7. CASE VisitPushes(op, m)
  <2>1. AdvancesAndPushes(Frame(op, m, FALSE)) /\ SetFlags(m, def[m].flags \cup {FlagOf(op)})
        /\ failing' = failing
    BY <1>7 DEF VisitPushes
  <2>2. Frame(op, m, FALSE).op = op /\ Frame(op, m, FALSE).mod = m
    BY DEF Frame
  <2>3. /\ Len(stack') = 2 /\ stack'[1].op = "base" /\ stack'[1].mod = m
        /\ stack'[1].i = Phase + 1 /\ stack'[2].op = op /\ stack'[2].mod = m
    <3>1. /\ Len(stack') = Height + 1 /\ stack'[Height].op = Top.op
          /\ stack'[Height].mod = Top.mod /\ stack'[Height].i = Top.i + 1
          /\ stack'[Height + 1] = Frame(op, m, FALSE)
      BY <2>1 DEF AdvancesAndPushes
    <3>2. Height + 1 = 2
      BY <1>2
    <3>3. QED
      BY <1>2, <1>3, <2>2, <3>1, <3>2 DEF m
  <2>4. FlagIn[Phase + 1] \in def'[m].flags /\ m \in loaded' /\ op \in OpsOf[Phase + 1]
        /\ op # "body"
    BY <1>1, <1>3, <1>4, <1>5, <2>1 DEF SetFlags, m, op
  <2>5. Height' = 2 /\ Phase' = Phase + 1 /\ stack' # <<>> /\ Phase' \in 1..4
    BY <1>2, <2>3 DEF Height, Phase
  <2>6. BottomInv'
    BY <2>3, <2>4, <2>5 DEF BottomInv
  <2>7. \A j \in 2..Height' : j = 2
    BY <2>5
  <2>8. FrameInv'
    BY <2>3, <2>4, <2>5, <2>7 DEF FrameInv, Has
  <2>9. QED
    BY <2>6, <2>8
<1>8. CASE VisitSkips(op, m)
  <2>1. IsAdvanced(stack')
    BY <1>8 DEF VisitSkips
  <2>2. /\ Len(stack') = 1 /\ stack'[1].op = "base" /\ stack'[1].mod = m
        /\ stack'[1].i = Phase + 1
    BY <1>2, <1>3, <2>1 DEF IsAdvanced, m
  <2>3. Height' = 1 /\ Phase' = Phase + 1 /\ stack' # <<>> /\ Phase' \in 1..4
        /\ m \in loaded'
    BY <1>1, <1>2, <1>3, <2>2 DEF Height, Phase, m
  <2>4. QED
    BY <2>2, <2>3 DEF BottomInv, FrameInv
<1>9. QED
  BY <1>6, <1>7, <1>8

LEMMA FramesResolve ==
    ASSUME StackInv, ResolveRequest
    PROVE  BottomInv' /\ FrameInv'
<1>1. /\ stack # <<>> /\ Top.op = "resolve" /\ ~failing
      /\ (\E m : ResolveFinds(m)) \/ ResolveLoads \/ ResolveFails
  BY ResolveEffect DEF StackInv
<1>2. Height >= 2 /\ Phase = 1 /\ FlagIn[Phase] = "resolved" /\ "resolve" \in OpsOf[Phase]
  BY <1>1, Shape, OpPhase
<1>3. \A j \in 2..Height : stack[j].mod \in loaded /\ FlagIn[Phase] \in def[stack[j].mod].flags
  BY DEF StackInv, FrameInv, Has
<1>4. loaded \subseteq Addr /\ loaded \subseteq Defined
  BY TypeFacts DEF StackInv
<1>5. failing' \in BOOLEAN
  BY ResolveType DEF StackInv, TypeOK
<1>6. ASSUME NEW m, ResolveFinds(m) PROVE BottomInv' /\ FrameInv'
  <2>1. /\ m \in loaded /\ Meets(Top.mod, Top.i, m) /\ loaded' = loaded
    BY <1>6 DEF ResolveFinds
  <2>2. \A a \in Addr : def[a].flags \subseteq def'[a].flags
    BY <2>1 DEF Meets
  <2>3. \A j \in 2..Height : FlagIn[Phase] \in def'[stack[j].mod].flags
    BY <1>3, <1>4, <2>2
  <2>4. CASE Has(m, "resolved")
    <3>1. IsAdvanced(stack')
      BY <1>6, <2>4 DEF ResolveFinds
    <3>2. /\ Len(stack') = Height
          /\ \A j \in 1..Height - 1 : stack'[j] = stack[j]
          /\ stack'[Height].mod = Top.mod /\ stack'[Height].op = Top.op
      BY <3>1 DEF IsAdvanced
    <3>3. QED
      BY <1>1, <1>2, <1>5, <2>1, <2>3, <3>2, FramesStay
  <2>5. CASE ~Has(m, "resolved")
    <3> DEFINE f == Frame("resolve", m, FALSE)
    <3>1. AdvancesAndPushes(f)
      BY <1>6, <2>5 DEF ResolveFinds
    <3>2. f.op = "resolve" /\ f.mod = m
      BY DEF Frame
    <3> HIDE DEF f
    <3>3. \A j \in 2..Height : m # stack[j].mod
      BY <1>2, <1>3, <2>5 DEF Has
    <3>4. "resolved" \in def'[m].flags
      BY <1>4, <2>1 DEF Meets
    <3>5. /\ Len(stack') = Height + 1
          /\ \A j \in 1..Height - 1 : stack'[j] = stack[j]
          /\ stack'[Height].mod = Top.mod /\ stack'[Height].op = Top.op
          /\ stack'[Height + 1] = f
      BY <3>1 DEF AdvancesAndPushes
    <3>6. QED
      BY <1>1, <1>2, <1>5, <2>1, <2>3, <3>2, <3>3, <3>4, <3>5, FramesPush
  <2>6. QED
    BY <2>4, <2>5
<1>7. CASE ResolveLoads
  <2> DEFINE f == Frame("resolve", nextDef, TRUE)
  <2>1. /\ Defines(Wanted, text[Wanted], {"resolved"}) /\ IsPushed(stack, stack', f)
    BY <1>7 DEF ResolveLoads
  <2>2. f.op = "resolve" /\ f.mod = nextDef
    BY DEF Frame
  <2> HIDE DEF f
  <2>3. nextDef \notin Defined /\ Height \in Nat /\ Top = stack[Height]
    BY <1>1, TypeFacts, Shape DEF Defined, StackInv
  <2>4. \A j \in 2..Height : nextDef # stack[j].mod
    BY <1>3, <1>4, <2>3
  <2>5. /\ loaded' = loaded \cup {nextDef} /\ def'[nextDef].flags = {"resolved"}
        /\ \A a \in Addr \ {nextDef} : def'[a] = def[a]
    BY <2>1 DEF Defines
  <2>6. \A j \in 2..Height : FlagIn[Phase] \in def'[stack[j].mod].flags
    BY <1>3, <1>4, <2>4, <2>5
  <2>7. /\ Len(stack') = Height + 1 /\ \A j \in 1..Height : stack'[j] = stack[j]
        /\ stack'[Height + 1] = f
    BY <2>1 DEF IsPushed, Height
  <2>8. /\ \A j \in 1..Height - 1 : stack'[j] = stack[j]
        /\ stack'[Height].mod = Top.mod /\ stack'[Height].op = Top.op
    BY <1>2, <2>3, <2>7
  <2>9. QED
    BY <1>1, <1>2, <1>5, <2>2, <2>4, <2>5, <2>6, <2>7, <2>8, FramesPush
<1>8. CASE ResolveFails
  <2>1. UNCHANGED <<def, loaded, nextDef, stack>>
    BY <1>8 DEF ResolveFails
  <2>2. FrameInv'
    BY <2>1 DEF StackInv, FrameInv, Has, Phase, Height
  <2>3. BottomInv'
    BY <1>1, <2>1 DEF StackInv, BottomInv, Phase
  <2>4. QED
    BY <2>2, <2>3
<1>9. QED
  BY <1>1, <1>6, <1>7, <1>8

LEMMA FramesUnwind ==
    ASSUME StackInv, UnwindResolve \/ UnwindLink \/ EvalFails
    PROVE  BottomInv' /\ FrameInv'
<1>1. /\ stack # <<>> /\ IsBelow(stack') /\ failing /\ Unloads /\ def' = def
      /\ (failing' <=> Top.op # "base") /\ failing' \in BOOLEAN
  BY UnwindEffect DEF Pops, StackInv, TypeOK
<1>2. /\ Height \in Nat \ {0} /\ Phase \in 1..4 /\ Top = stack[Height]
      /\ Top.op = "base" <=> Height = 1
      /\ Height >= 2 => Top.op \in OpsOf[Phase]
  BY <1>1, Shape
<1>3. CASE Height = 1
  <2>1. stack' = <<>> /\ ~failing'
    BY <1>1, <1>2, <1>3 DEF IsBelow
  <2>2. QED
    BY <2>1, FramesEnd
<1>4. CASE Height >= 2
  <2>1. Top.op # "base" /\ failing'
    BY <1>1, <1>2, <1>4
  <2>2. loaded \ {Top.mod} \subseteq loaded' /\ (Phase > 1 => loaded' = loaded)
    BY <1>1, <1>2, <1>4, <2>1, OpPhase DEF Unloads
  <2>3. \A j \in 2..Height : stack[j].mod # Top.mod =>
           stack[j].mod \in loaded' /\ FlagIn[Phase] \in def'[stack[j].mod].flags
    BY <1>1, <2>2 DEF StackInv, FrameInv, Has
  <2>4. ~failing' \/ Phase > 1 => stack[1].mod \in loaded'
    <3>1. Phase > 1 => stack[1].mod \in loaded
      BY <1>1 DEF StackInv, BottomInv
    <3>2. QED
      BY <2>1, <2>2, <3>1
  <2>5. QED
    BY <1>1, <1>4, <2>3, <2>4, FramesPop
<1>5. QED
  BY <1>2, <1>3, <1>4

\* A frame returns that leaves the other modules as they are.
LEMMA FramesReturn ==
    ASSUME StackInv, Pops, Top.op # "base", loaded' = loaded, failing' \in BOOLEAN,
           NEW F, def' = def \/ SetFlags(Top.mod, F),
           Phase = 1 => ~failing
    PROVE  BottomInv' /\ FrameInv'
<1>1. stack # <<>> /\ IsBelow(stack')
  BY DEF Pops
<1>2. Height >= 2 /\ Phase \in 1..4
  BY <1>1, Shape
<1>3. loaded \subseteq Addr
  BY TypeFacts DEF StackInv
<1>4. stack[1].mod \in loaded'
  BY <1>1, <1>2 DEF StackInv, BottomInv
<1>5. \A j \in 2..Height : stack[j].mod # Top.mod =>
         stack[j].mod \in loaded' /\ FlagIn[Phase] \in def'[stack[j].mod].flags
  <2>1. \A j \in 2..Height : stack[j].mod \in loaded /\ FlagIn[Phase] \in def[stack[j].mod].flags
    BY DEF StackInv, FrameInv, Has
  <2>2. \A a \in Addr : a # Top.mod => def'[a].flags = def[a].flags
    BY DEF SetFlags
  <2>3. QED
    BY <1>3, <2>1, <2>2
<1>6. QED
  BY <1>1, <1>2, <1>4, <1>5, FramesPop

LEMMA FramesNext ==
    ASSUME ~Reentrant, StackInv, Next
    PROVE  BottomInv' /\ FrameInv'
<1>1. TypeOK /\ TypeOK' /\ failing' \in BOOLEAN
  BY TypeNext DEF StackInv, TypeOK
<1>2. stack = <<>> => ~failing
  BY DEF StackInv, BottomInv
<1>3. CASE ResolveRequest
  BY <1>3, FramesResolve
<1>4. ASSUME NEW op \in {"create", "link", "evaluate"}, NextRequest(op)
      PROVE  BottomInv' /\ FrameInv'
  <2>1. /\ stack # <<>> /\ Top.op = op /\ ~failing
        /\ Visits(op, def[Top.mod].tgt[Top.i]) /\ loaded' = loaded
    BY <1>1, <1>4, RequestEffect
  <2>2. Height >= 2 /\ op \in OpsOf[Phase]
    BY <2>1, Shape
  <2>3. QED
    BY <1>1, <2>1, <2>2, FramesVisit
<1>5. CASE TraversalDone
  <2>1. /\ Pops /\ ~failing /\ Top.op # "base" /\ def' = def /\ loaded' = loaded
    BY <1>1, <1>5, TraversalDoneEffect DEF DoneWith
  <2>2. QED
    BY <1>1, <2>1, FramesReturn
<1>6. CASE LinkDone
  <2>1. /\ Pops /\ ~failing /\ Top.op # "base" /\ def' = def /\ loaded' = loaded
    BY <1>1, <1>6, LinkDoneEffect DEF DoneWith
  <2>2. QED
    BY <1>1, <2>1, FramesReturn
<1>7. CASE InitNative
  <2>1. /\ Pops /\ ~failing /\ Top.op # "base" /\ loaded' = loaded
        /\ \E F : SetFlags(Top.mod, F)
    BY <1>1, <1>7, InitNativeEffect DEF DoneWith
  <2>2. QED
    BY <1>1, <2>1, FramesReturn
<1>8. CASE EnterBody
  <2>1. /\ stack # <<>> /\ ~failing /\ Top.op = "evaluate"
        /\ Len(stack') = Height /\ \A j \in 1..Height - 1 : stack'[j] = stack[j]
        /\ stack'[Height].op = "body" /\ stack'[Height].mod = Top.mod
        /\ def' = def /\ loaded' = loaded
    BY <1>1, <1>8, EnterBodyEffect DEF DoneWith
  <2>2. Height >= 2
    BY <2>1, Shape
  <2>3. \A j \in 2..Height : FlagIn[Phase] \in def'[stack[j].mod].flags
    BY <2>1 DEF StackInv, FrameInv, Has
  <2>4. QED
    BY <1>1, <2>1, <2>2, <2>3, FramesStay
<1>9. CASE LeaveBody
  <2>1. /\ Pops /\ ~failing /\ Top.op # "base" /\ loaded' = loaded
        /\ \E F : SetFlags(Top.mod, F)
    BY <1>1, <1>9, LeaveBodyEffect
  <2>2. QED
    BY <1>1, <2>1, FramesReturn
<1>10. CASE NextStage
  BY <1>10, FramesStage
<1>11. CASE EvalReturns
  <2>1. /\ stack # <<>> /\ IsBelow(stack') /\ ~failing /\ Top.op = "base" /\ failing' = failing
    BY <1>1, <1>11, EvalReturnsEffect DEF Pops
  <2>2. Height = 1
    BY <2>1, Shape
  <2>3. stack' = <<>> /\ ~failing'
    BY <2>1, <2>2 DEF IsBelow
  <2>4. QED
    BY <2>3, FramesEnd
<1>12. CASE UnwindResolve \/ UnwindLink \/ EvalFails
  BY <1>12, FramesUnwind
<1>13. CASE UnwindEvaluate
  <2>1. /\ Pops /\ Top.op = "evaluate" /\ loaded' = loaded
        /\ \E F : SetFlags(Top.mod, F)
    BY <1>1, <1>13, UnwindEvaluateEffect
  <2>2. Phase # 1
    BY <2>1, Shape, OpPhase DEF Pops
  <2>3. QED
    BY <1>1, <2>1, <2>2, FramesReturn
<1>14. ASSUME NEW n \in Natives, Module(n) PROVE BottomInv' /\ FrameInv'
  <2>1. stack = <<>> /\ stack' = stack /\ failing' = failing
    BY <1>1, <1>14, ModuleEffect
  <2>2. QED
    BY <1>2, <2>1, FramesEnd
<1>15. ASSUME NEW m \in swift, Function(m) PROVE BottomInv' /\ FrameInv'
  <2>1. stack = <<>> /\ stack' = stack /\ failing' = failing
    BY <1>1, <1>15, FunctionEffect
  <2>2. QED
    BY <1>2, <2>1, FramesEnd
<1>16. ASSUME NEW name, NEW imports, Starts(name, imports), stack = <<>>
       PROVE  BottomInv' /\ FrameInv'
  <2>1. Height = 0
    BY <1>16 DEF Height
  <2>2. /\ Len(stack') = 2 /\ stack'[1] = Frame("base", nextDef, FALSE)
        /\ stack'[2] = Frame("resolve", nextDef, TRUE) /\ failing' = failing
        /\ nextDef \in loaded' /\ "resolved" \in def'[nextDef].flags
    <3>1. /\ Defines(name, imports, {"resolved"}) /\ Len(stack') = Height + 2
          /\ stack'[Height + 1] = Frame("base", nextDef, FALSE)
          /\ stack'[Height + 2] = Frame("resolve", nextDef, TRUE) /\ failing' = failing
      BY <1>16 DEF Starts
    <3>2. Height + 1 = 1 /\ Height + 2 = 2
      BY <2>1
    <3>3. QED
      BY <3>1, <3>2 DEF Defines
  <2>3. ~failing' /\ Len(stack') \in 1..2
    BY <1>2, <1>16, <2>2
  <2>4. QED
    BY <1>1, <2>2, <2>3, FramesStart
<1>17. ASSUME NEW imports \in RootTexts, Eval(imports) PROVE BottomInv' /\ FrameInv'
  BY <1>1, <1>16, <1>17, EvalEffect
<1>18. ASSUME NEW n \in Names, Import(n) PROVE BottomInv' /\ FrameInv'
  <2>1. stack = <<>> /\ ((\E imports : Starts(n, imports)) \/ \E m : ImportFinds(n, m))
    BY <1>1, <1>18, ImportEffect
  <2>2. ASSUME NEW m, ImportFinds(n, m) PROVE BottomInv' /\ FrameInv'
    <3>1. /\ m \in loaded' /\ m \in loaded /\ failing' = failing
          /\ Len(stack') = IF Has(m, "resolved") THEN 1 ELSE 2
          /\ stack'[1] = Frame("base", m, FALSE)
          /\ ~Has(m, "resolved") => stack'[2] = Frame("resolve", m, FALSE)
          /\ SetFlags(m, def[m].flags \cup {"resolved"})
      BY <2>2 DEF ImportFinds
    <3>2. "resolved" \in def'[m].flags
      BY <1>1, <3>1, TypeFacts DEF SetFlags
    <3>3. Len(stack') \in 1..2
      BY <3>1
    <3>4. Len(stack') = 2 => stack'[2] = Frame("resolve", m, FALSE)
      <4>1. Has(m, "resolved") => Len(stack') = 1
        BY <3>1
      <4>2. ~Has(m, "resolved") => stack'[2] = Frame("resolve", m, FALSE)
        BY <3>1
      <4> HIDE DEF Has
      <4>3. Len(stack') = 2 => ~Has(m, "resolved")
        BY <4>1
      <4>4. QED
        BY <4>2, <4>3
    <3>5. ~failing'
      BY <1>2, <2>1, <3>1
    <3>6. QED
      BY <1>1, <3>1, <3>2, <3>3, <3>4, <3>5, FramesStart
  <2>3. QED
    BY <1>16, <2>1, <2>2
<1>19. QED
  BY <1>3, <1>4, <1>5, <1>6, <1>7, <1>8, <1>9, <1>10, <1>11, <1>12, <1>13, <1>14, <1>15,
     <1>17, <1>18 DEF Next, EngineNext, AppNext

\* While native functions do not evaluate modules, the C stack holds one
\* evaluation and above it the frames of one traversal, each of a module
\* that is loaded, has the flag of the traversal, and has no other frame.
THEOREM StackInvariant ==
    ASSUME ~Reentrant
    PROVE  Spec => []StackInv
<1>1. Init => StackInv
  <2> SUFFICES ASSUME Init PROVE StackInv
    OBVIOUS
  <2>1. stack = <<>> /\ ~failing /\ Height = 0
    BY DEF Init, Height
  <2>2. QED
    BY <2>1, TypeInit DEF StackInv, BottomInv, FrameInv
<1>2. StackInv /\ [Next]_vars => StackInv'
  <2> SUFFICES ASSUME StackInv, [Next]_vars PROVE StackInv'
    OBVIOUS
  <2>1. CASE Next
    BY <2>1, TypeNext, FramesNext DEF StackInv
  <2>2. CASE UNCHANGED vars
    BY <2>2 DEF vars, StackInv, TypeOK, BottomInv, FrameInv, Height, Phase, Has
  <2>3. QED
    BY <2>1, <2>2
<1>3. QED
  BY <1>1, <1>2, PTL DEF Spec

-----------------------------------------------------------------------------
(***************************************************************************)
(* Contexts whose files, moreover, do not import each other in circles.    *)
(***************************************************************************)
LEMMA NamesNext ==
    ASSUME TypeOK, NameInv, Next
    PROVE  NameInv'
<1>1. /\ nextDef \in Nat \ {0} /\ Defined \subseteq Addr /\ loaded \subseteq Defined
      /\ \A a \in Addr : /\ Len(def[a].req) = Len(def[a].tgt)
                         /\ \A i \in 1..Len(def[a].tgt) :
                               def[a].tgt[i] = 0 \/ def[a].tgt[i] \in Defined
  BY TypeFacts
<1>2. CASE KeepsDefs
  <2>1. Defined' = Defined
    BY <1>2 DEF KeepsDefs, Defined
  <2>2. \A a \in Defined : /\ def'[a].name = def[a].name /\ def'[a].req = def[a].req
                           /\ def'[a].tgt = def[a].tgt
    BY <1>1, <1>2 DEF KeepsDefs
  <2>3. text' = text /\ swift' = swift
    BY <1>2 DEF KeepsDefs
  <2>4. ASSUME NEW a \in Defined, NEW i \in 1..Len(def[a].tgt), def[a].tgt[i] # 0
        PROVE  def'[def[a].tgt[i]].name = def[a].req[i]
    BY <1>1, <2>2, <2>4 DEF NameInv
  <2>5. QED
    BY <2>1, <2>2, <2>3, <2>4 DEF NameInv
<1>3. CASE MeetsRequest
  <2>1. PICK m : ResolveFinds(m)
    BY <1>3 DEF MeetsRequest
  <2>2. /\ Meets(Top.mod, Top.i, m) /\ m \in Defined /\ nextDef' = nextDef
        /\ def[m].name = def[Top.mod].req[Top.i]
    BY <1>1, <2>1 DEF ResolveFinds, Wanted
  <2>3. Defined' = Defined /\ text' = text /\ swift' = swift
    BY <1>3, <2>2 DEF Defined, MeetsRequest
  <2>4. \A a \in Defined : /\ def'[a].name = def[a].name /\ def'[a].req = def[a].req
                           /\ Len(def'[a].tgt) = Len(def[a].tgt)
    BY <1>1, <2>2 DEF Meets
  <2>5. ASSUME NEW a \in Defined, NEW i \in 1..Len(def[a].tgt), def'[a].tgt[i] # 0
        PROVE  def'[def'[a].tgt[i]].name = def[a].req[i]
    <3>1. def'[a].tgt[i] = IF a = Top.mod /\ i = Top.i THEN m ELSE def[a].tgt[i]
      BY <1>1, <2>2 DEF Meets
    <3>2. CASE a = Top.mod /\ i = Top.i
      BY <2>2, <2>4, <3>1, <3>2
    <3>3. CASE ~(a = Top.mod /\ i = Top.i)
      <4>1. def'[a].tgt[i] = def[a].tgt[i] /\ def[a].tgt[i] \in Defined
        BY <1>1, <2>5, <3>1, <3>3
      <4>2. QED
        BY <2>4, <2>5, <4>1 DEF NameInv
    <3>4. QED
      BY <3>2, <3>3
  <2>6. QED
    BY <2>3, <2>4, <2>5 DEF NameInv
<1>4. CASE AddsDef
  <2>1. PICK name, imports, F :
          /\ Defines(name, imports, F) /\ text' = text
          /\ \/ name \in Natives /\ imports = <<>> /\ swift' = swift \cup {nextDef}
             \/ name \in Files /\ imports = text[name] /\ swift' = swift
             \/ name = Root /\ swift' = swift
    BY <1>4 DEF AddsDef
  <2>2. /\ nextDef' = nextDef + 1 /\ \A a \in Addr \ {nextDef} : def'[a] = def[a]
        /\ def'[nextDef].name = name /\ def'[nextDef].req = imports
        /\ Len(def'[nextDef].tgt) = Len(imports)
        /\ \A i \in 1..Len(imports) : def'[nextDef].tgt[i] = 0
    BY <2>1 DEF Defines
  <2>3. Defined' = Defined \cup {nextDef} /\ nextDef \notin Defined
    BY <1>1, <2>2 DEF Defined
  <2>4. \A a \in Defined : def'[a] = def[a]
    BY <1>1, <2>2, <2>3
  <2>5. ASSUME NEW a \in Defined
        PROVE  /\ def'[a].name \in Natives \cup Files \cup {Root}
               /\ def'[a].name \in Natives => def'[a].req = <<>> /\ a \in swift'
               /\ def'[a].name \in Files => def'[a].req = text'[def'[a].name]
               /\ \A i \in 1..Len(def'[a].tgt) :
                     def'[a].tgt[i] # 0 => def'[def'[a].tgt[i]].name = def'[a].req[i]
    <3>1. \A i \in 1..Len(def[a].tgt) : def[a].tgt[i] # 0 => def[a].tgt[i] \in Defined
      BY <1>1
    <3>2. swift \subseteq swift' /\ text' = text
      BY <2>1
    <3>3. QED
      BY <2>4, <3>1, <3>2 DEF NameInv
  <2>6. /\ def'[nextDef].name \in Natives \cup Files \cup {Root}
        /\ def'[nextDef].name \in Natives => def'[nextDef].req = <<>> /\ nextDef \in swift'
        /\ def'[nextDef].name \in Files => def'[nextDef].req = text'[def'[nextDef].name]
    BY <2>1, <2>2, NamesAssumption DEF Names
  <2>7. QED
    BY <2>2, <2>3, <2>5, <2>6 DEF NameInv
<1>5. QED
  BY <1>2, <1>3, <1>4, DefsStep

\* A request has a smaller grade than its module.
LEMMA GradeStep ==
    ASSUME Acyclic, TypeOK, NameInv, NEW a \in Defined, NEW i \in 1..Len(def[a].req)
    PROVE  /\ GradeOf(a) \in Nat /\ Grade[def[a].req[i]] \in Nat
           /\ Grade[def[a].req[i]] < GradeOf(a)
<1>1. Grade \in Gradings(text)
  BY DEF Acyclic, TypeOK, Grade
<1>2. /\ Grade \in [Names \cup {Root} -> Nat] /\ \A n \in Names : Grade[n] < Grade[Root]
      /\ \A f \in Files : \A k \in DOMAIN text[f] : Grade[text[f][k]] < Grade[f]
  BY <1>1 DEF Gradings
<1>3. def[a].req \in Seq(Names) /\ def[a].req[i] \in Names
  BY TypeFacts
<1>4. /\ def[a].name \in Files \cup {Root}
      /\ def[a].name \in Files => def[a].req = text[def[a].name]
  BY <1>3 DEF NameInv
<1>5. CASE def[a].name = Root
  BY <1>2, <1>3, <1>5 DEF GradeOf
<1>6. CASE def[a].name \in Files
  <2>1. def[a].req = text[def[a].name] /\ i \in DOMAIN def[a].req
    BY <1>3, <1>4, <1>6
  <2>2. QED
    BY <1>2, <1>3, <1>6, <2>1 DEF GradeOf, Names
<1>7. QED
  BY <1>4, <1>5, <1>6

\* So has the module that meets it.
LEMMA GradeTarget ==
    ASSUME Acyclic, TypeOK, NameInv, NEW a \in Defined, NEW i \in 1..Len(def[a].tgt),
           def[a].tgt[i] # 0
    PROVE  /\ GradeOf(a) \in Nat /\ GradeOf(def[a].tgt[i]) \in Nat
           /\ GradeOf(def[a].tgt[i]) < GradeOf(a)
<1>1. i \in 1..Len(def[a].req)
  BY TypeFacts
<1>2. def[def[a].tgt[i]].name = def[a].req[i]
  BY DEF NameInv
<1>3. QED
  BY <1>1, <1>2, GradeStep DEF GradeOf

\* The stack of a traversal after a step.
LEMMA PopView ==
    ASSUME StackInv, Height >= 2, IsBelow(stack')
    PROVE  /\ stack' # <<>> /\ Height' = Height - 1 /\ Height' \in Nat \ {0}
           /\ Phase' = Phase /\ stack'[1] = stack[1]
           /\ \A j \in 2..Height' : /\ j \in 2..Height /\ j # Height
                                    /\ stack'[j] = stack[j] /\ stack[j].mod # Top.mod
<1>1. stack # <<>> /\ Height \in Nat /\ Top = stack[Height]
  BY TypeFacts DEF Height, StackInv, Top
<1>2. stack' # <<>> /\ stack'[1] = stack[1] /\ Height' = Height - 1
  BY <1>1 DEF IsBelow, Height
<1>3. \A j \in 2..Height' : j \in 2..Height /\ j # Height /\ stack'[j] = stack[j]
  BY <1>1, <1>2 DEF IsBelow
<1>4. \A j \in 2..Height' : stack[j].mod # Top.mod
  <2>1. Height \in 2..Height
    BY <1>1
  <2>2. QED
    BY <1>1, <1>3, <2>1 DEF StackInv, FrameInv
<1>5. Phase' = Phase /\ Height' \in Nat \ {0}
  BY <1>1, <1>2 DEF Phase
<1>6. QED
  BY <1>2, <1>3, <1>4, <1>5

LEMMA StayView ==
    ASSUME StackInv, Height >= 2, IsAdvanced(stack')
    PROVE  /\ stack' # <<>> /\ Height' = Height /\ Height \in Nat
           /\ Phase' = Phase /\ stack'[1] = stack[1]
           /\ stack'[Height].i = Top.i + 1 /\ Top = stack[Height]
           /\ \A j \in 2..Height : /\ stack'[j].mod = stack[j].mod
                                   /\ stack'[j].op = stack[j].op
                                   /\ stack'[j].owned <=> stack[j].owned
                                   /\ j # Height => stack'[j] = stack[j]
<1>1. stack # <<>> /\ Height \in Nat /\ Top = stack[Height]
  BY TypeFacts DEF Height, StackInv, Top
<1>2. /\ stack' # <<>> /\ stack'[1] = stack[1] /\ Height' = Height
      /\ stack'[Height].i = Top.i + 1
  BY <1>1 DEF IsAdvanced, Height
<1>3. Phase' = Phase
  BY <1>2 DEF Phase
<1>4. \A j \in 2..Height : j = Height \/ j \in 1..Height - 1
  BY <1>1
<1>5. QED
  BY <1>1, <1>2, <1>3, <1>4 DEF IsAdvanced

LEMMA PushView ==
    ASSUME StackInv, Height >= 2, NEW f, AdvancesAndPushes(f)
    PROVE  /\ stack' # <<>> /\ Height' = Height + 1 /\ Height \in Nat
           /\ Phase' = Phase /\ stack'[1] = stack[1] /\ Top = stack[Height]
           /\ stack'[Height].i = Top.i + 1 /\ stack'[Height + 1] = f
           /\ \A j \in 2..Height' : j \in 2..Height \/ j = Height + 1
           /\ \A j \in 2..Height : /\ stack'[j].mod = stack[j].mod
                                   /\ stack'[j].op = stack[j].op
                                   /\ stack'[j].owned <=> stack[j].owned
                                   /\ j # Height => stack'[j] = stack[j]
<1>1. stack # <<>> /\ Height \in Nat /\ Top = stack[Height]
  BY TypeFacts DEF Height, StackInv, Top
<1>2. /\ stack' # <<>> /\ stack'[1] = stack[1] /\ Height' = Height + 1
      /\ stack'[Height].i = Top.i + 1 /\ stack'[Height + 1] = f
  BY <1>1 DEF AdvancesAndPushes, Height
<1>3. Phase' = Phase
  BY <1>2 DEF Phase
<1>4. \A j \in 2..Height : j = Height \/ j \in 1..Height - 1
  BY <1>1
<1>5. \A j \in 2..Height' : j \in 2..Height \/ j = Height + 1
  BY <1>1, <1>2
<1>6. QED
  BY <1>1, <1>2, <1>3, <1>4, <1>5 DEF AdvancesAndPushes

LEMMA LoadView ==
    ASSUME StackInv, Height >= 2, NEW f, IsPushed(stack, stack', f)
    PROVE  /\ stack' # <<>> /\ Height' = Height + 1 /\ Height \in Nat
           /\ Phase' = Phase /\ stack'[1] = stack[1] /\ Top = stack[Height]
           /\ stack'[Height + 1] = f
           /\ \A j \in 2..Height' : j \in 2..Height \/ j = Height + 1
           /\ \A j \in 2..Height : stack'[j] = stack[j]
<1>1. stack # <<>> /\ Height \in Nat /\ Top = stack[Height]
  BY TypeFacts DEF Height, StackInv, Top
<1>2. /\ stack' # <<>> /\ stack'[1] = stack[1] /\ Height' = Height + 1
      /\ stack'[Height + 1] = f /\ \A j \in 2..Height : stack'[j] = stack[j]
  BY <1>1 DEF IsPushed, Height
<1>3. Phase' = Phase
  BY <1>2 DEF Phase
<1>4. \A j \in 2..Height' : j \in 2..Height \/ j = Height + 1
  BY <1>1, <1>2
<1>5. QED
  BY <1>1, <1>2, <1>3, <1>4

\* EnterBody changes the name of the frame on top only.
LEMMA EnterView ==
    ASSUME StackInv, EnterBody
    PROVE  /\ Height >= 2 /\ stack' # <<>> /\ Height' = Height /\ Height \in Nat
           /\ Phase' = Phase /\ Phase = 4 /\ stack'[1] = stack[1] /\ Top = stack[Height]
           /\ Top.op = "evaluate" /\ stack'[Height].op = "body" /\ stack # <<>>
           /\ \A j \in 2..Height : /\ stack'[j].mod = stack[j].mod
                                   /\ stack'[j].owned <=> stack[j].owned
                                   /\ stack'[j].i = stack[j].i
                                   /\ j # Height => stack'[j] = stack[j]
<1>1. /\ stack # <<>> /\ Top.op = "evaluate"
      /\ Len(stack') = Height
      /\ \A j \in 1..Height - 1 : stack'[j] = stack[j]
      /\ stack'[Height].op = "body" /\ stack'[Height].mod = Top.mod
      /\ stack'[Height].i = Top.i /\ (stack'[Height].owned <=> Top.owned)
  BY EnterBodyEffect DEF DoneWith, StackInv
<1>2. Height >= 2 /\ Height \in Nat /\ Top = stack[Height] /\ Phase = 4
  BY <1>1, Shape, OpPhase
<1>3. stack' # <<>> /\ stack'[1] = stack[1] /\ Height' = Height
  BY <1>1, <1>2 DEF Height
<1>4. Phase' = Phase
  BY <1>3 DEF Phase
<1>5. \A j \in 2..Height : j = Height \/ j \in 1..Height - 1
  BY <1>2
<1>6. QED
  BY <1>1, <1>2, <1>3, <1>4, <1>5

\* The evaluation visits its module with its next traversal.
LEMMA StageView ==
    ASSUME StackInv, NextStage
    PROVE  /\ stack # <<>> /\ stack' # <<>> /\ Height = 1 /\ Phase \in 1..3
           /\ Phase' = Phase + 1 /\ ~failing /\ Top.mod = stack[1].mod
           /\ stack'[1].mod = stack[1].mod /\ stack[1].mod \in loaded
           /\ Stages[Phase] \in {"create", "link", "evaluate"}
           /\ \/ VisitPushes(Stages[Phase], stack[1].mod) /\ Height' = 2
                 /\ stack'[2] = Frame(Stages[Phase], stack[1].mod, FALSE)
              \/ VisitSkips(Stages[Phase], stack[1].mod) /\ Height' = 1
           /\ UNCHANGED <<text, loaded, nextDef, swift, ran>>
<1>1. /\ stack # <<>> /\ Top.op = "base" /\ ~failing /\ Top.i \in 1..3
      /\ Stages[Top.i] \in {"create", "link", "evaluate"}
      /\ Visits(Stages[Top.i], Top.mod) /\ UNCHANGED <<text, loaded, nextDef, swift, ran>>
  BY StageEffect DEF StackInv
<1>2. Height = 1 /\ Top = stack[1] /\ Phase = Top.i
  BY <1>1, Shape DEF Phase
<1>3. stack[1].mod \in loaded
  BY <1>1 DEF StackInv, BottomInv
<1> DEFINE op == Stages[Phase]
           m == stack[1].mod
<1>4. VisitPushes(op, m) \/ VisitSkips(op, m)
  BY <1>1, <1>2, <1>3 DEF Visits, VisitFaults
<1> HIDE DEF op, m
<1>5. CASE VisitPushes(op, m)
  <2>1. /\ Len(stack') = Height + 1 /\ stack'[Height].mod = Top.mod
        /\ stack'[Height].i = Top.i + 1 /\ stack'[Height + 1] = Frame(op, m, FALSE)
    BY <1>5 DEF VisitPushes, AdvancesAndPushes
  <2>2. Height + 1 = 2
    BY <1>2
  <2>3. /\ Len(stack') = 2 /\ stack'[1].mod = Top.mod
        /\ stack'[1].i = Top.i + 1 /\ stack'[2] = Frame(op, m, FALSE)
    BY <1>2, <2>1, <2>2
  <2>4. Height' = 2 /\ Phase' = Phase + 1 /\ stack' # <<>>
    BY <1>2, <2>3 DEF Height, Phase
  <2>5. QED
    BY <1>1, <1>2, <1>3, <1>5, <2>3, <2>4 DEF op, m
<1>6. CASE VisitSkips(op, m)
  <2>1. /\ Len(stack') = Height /\ stack'[Height].mod = Top.mod
        /\ stack'[Height].i = Top.i + 1
    BY <1>6 DEF VisitSkips, IsAdvanced
  <2>2. /\ Len(stack') = 1 /\ stack'[1].mod = Top.mod /\ stack'[1].i = Top.i + 1
    BY <1>2, <2>1
  <2>3. Height' = 1 /\ Phase' = Phase + 1 /\ stack' # <<>>
    BY <1>2, <2>2 DEF Height, Phase
  <2>4. QED
    BY <1>1, <1>2, <1>3, <1>6, <2>2, <2>3 DEF op, m
<1>7. QED
  BY <1>4, <1>5, <1>6

\* A new evaluation, of a module that is loaded for it or was before.
LEMMA StartView ==
    ASSUME TypeOK, stack = <<>>, NEW name, NEW imports, Starts(name, imports)
    PROVE  /\ Height' = 2 /\ Phase' = 1 /\ stack' # <<>>
           /\ stack'[1] = Frame("base", nextDef, FALSE)
           /\ stack'[2] = Frame("resolve", nextDef, TRUE)
<1>1. Height = 0
  BY DEF Height
<1>2. /\ Len(stack') = Height + 2
      /\ stack'[Height + 1] = Frame("base", nextDef, FALSE)
      /\ stack'[Height + 2] = Frame("resolve", nextDef, TRUE)
  BY DEF Starts
<1>3. Height + 1 = 1 /\ Height + 2 = 2
  BY <1>1
<1>4. Frame("base", nextDef, FALSE).i = 1
  BY DEF Frame
<1>5. /\ Len(stack') = 2 /\ stack'[1] = Frame("base", nextDef, FALSE)
      /\ stack'[2] = Frame("resolve", nextDef, TRUE)
  BY <1>2, <1>3
<1>6. Height' = 2 /\ stack' # <<>>
  BY <1>5 DEF Height
<1>7. Phase' = 1
  BY <1>4, <1>5 DEF Phase
<1>8. QED
  BY <1>5, <1>6, <1>7

SameNames == text' = text /\ \A a \in Defined : def'[a].name = def[a].name

LEMMA NamesSame ==
    ASSUME TypeOK, Next
    PROVE  SameNames
<1>1. nextDef \notin Defined /\ Defined \subseteq Addr
  BY TypeFacts DEF Defined
<1>2. QED
  BY <1>1, DefsStep DEF KeepsDefs, MeetsRequest, AddsDef, ResolveFinds, Meets, Defines, SameNames

LEMMA PathKept ==
    ASSUME StackInv, SameNames, PathInv,
           \A j \in 2..Height' : j \in 2..Height /\ stack'[j].mod = stack[j].mod
    PROVE  PathInv'
<1>1. \A j \in 2..Height : stack[j].mod \in Defined
  BY TypeFacts DEF StackInv, FrameInv
<1>2. Grade' = Grade
  BY DEF Grade, SameNames
<1>3. \A j \in 2..Height' : def'[stack'[j].mod].name = def[stack[j].mod].name
  BY <1>1 DEF SameNames
<1>4. QED
  BY <1>2, <1>3 DEF PathInv, GradeOf

LEMMA PathPushed ==
    ASSUME StackInv, SameNames, PathInv, Height >= 2,
           \A j \in 2..Height' : j \in 2..Height \/ j = Height + 1,
           \A j \in 2..Height : stack'[j].mod = stack[j].mod,
           GradeOf(Top.mod) \in Nat,
           \A j \in 2..Height : GradeOf(stack[j].mod) \in Nat,
           Grade[def'[stack'[Height + 1].mod].name] \in Nat,
           Grade[def'[stack'[Height + 1].mod].name] < GradeOf(Top.mod)
    PROVE  PathInv'
<1>1. \A j \in 2..Height : stack[j].mod \in Defined
  BY TypeFacts DEF StackInv, FrameInv
<1>2. Grade' = Grade
  BY DEF Grade, SameNames
<1>3. \A j \in 2..Height : def'[stack'[j].mod].name = def[stack[j].mod].name
  BY <1>1 DEF SameNames
<1>4. \A j \in 2..Height : GradeOf(stack[j].mod) = Grade[def'[stack'[j].mod].name]
  BY <1>3 DEF GradeOf
<1>5. Height \in Nat /\ Top = stack[Height]
  BY TypeFacts DEF StackInv, Height, Top
<1> DEFINE g(j) == Grade[def'[stack'[j].mod].name]
<1>6. \A j, k \in 2..Height : j < k => g(k) < g(j)
  BY <1>4 DEF PathInv
<1>7. /\ \A j \in 2..Height : g(j) \in Nat
      /\ g(Height + 1) \in Nat /\ g(Height + 1) < g(Height)
  BY <1>4, <1>5
<1> HIDE DEF g
<1>8. \A j \in 2..Height : g(Height + 1) < g(j)
  <2> SUFFICES ASSUME NEW j \in 2..Height PROVE g(Height + 1) < g(j)
    OBVIOUS
  <2>1. Height \in 2..Height /\ j \in Nat /\ (j = Height \/ j < Height)
    BY <1>5
  <2>2. g(Height) <= g(j)
    BY <1>6, <1>7, <2>1
  <2>3. QED
    BY <1>7, <2>1, <2>2
<1>9. \A j, k \in 2..Height' : j < k => g(k) < g(j)
  BY <1>5, <1>6, <1>8
<1>10. QED
  BY <1>2, <1>9 DEF PathInv, GradeOf, g

\* A module on the stack is above all that the one on top requests.
LEMMA PathTop ==
    ASSUME Acyclic, StackInv, NameInv, PathInv, Height >= 2,
           NEW i \in 1..Len(def[Top.mod].req), NEW m \in Defined,
           def[m].name = def[Top.mod].req[i]
    PROVE  \A j \in 2..Height : stack[j].mod # m
<1> SUFFICES ASSUME NEW j \in 2..Height, stack[j].mod = m PROVE FALSE
  OBVIOUS
<1>1. Height \in Nat /\ Top = stack[Height] /\ TypeOK /\ Top.mod \in Defined
  <2>1. TypeOK /\ Height \in Nat /\ Top = stack[Height]
    BY TypeFacts DEF StackInv, Height, Top
  <2>2. QED
    BY <2>1, TypeFacts
<1>2. /\ GradeOf(Top.mod) \in Nat /\ Grade[def[Top.mod].req[i]] \in Nat
      /\ Grade[def[Top.mod].req[i]] < GradeOf(Top.mod)
  BY <1>1, GradeStep
<1>3. GradeOf(m) = Grade[def[Top.mod].req[i]]
  BY DEF GradeOf
<1>4. CASE j = Height
  BY <1>1, <1>2, <1>3, <1>4
<1>5. CASE j # Height
  <2>1. Height \in 2..Height /\ j < Height
    BY <1>1, <1>5
  <2>2. GradeOf(Top.mod) < GradeOf(m)
    BY <1>1, <2>1 DEF PathInv
  <2>3. QED
    BY <1>2, <1>3, <2>2
<1>6. QED
  BY <1>4, <1>5

LEMMA GradeNat ==
    ASSUME Acyclic, TypeOK, NameInv, NEW a \in Defined
    PROVE  GradeOf(a) \in Nat /\ GradeOf(a) <= Grade[Root] /\ Grade[Root] \in Nat
<1>1. Grade \in Gradings(text)
  BY DEF Acyclic, TypeOK, Grade
<1>2. def[a].name \in Names \cup {Root}
  BY DEF NameInv, Names
<1>3. /\ Grade \in [Names \cup {Root} -> Nat] /\ \A n \in Names : Grade[n] < Grade[Root]
  BY <1>1 DEF Gradings
<1>4. QED
  BY <1>2, <1>3 DEF GradeOf

LEMMA PathNext ==
    ASSUME ~Reentrant, Acyclic, StackInv, NameInv, PathInv, Next
    PROVE  PathInv'
<1>1. TypeOK /\ SameNames
  BY NamesSame DEF StackInv
<1>2. \A j \in 1..Height : stack[j].mod \in Defined
  BY <1>1, TypeFacts
<1>3. ASSUME Height >= 2
      PROVE  /\ Height \in Nat /\ Top.mod \in Defined
             /\ \A j \in 2..Height : GradeOf(stack[j].mod) \in Nat
             /\ GradeOf(Top.mod) \in Nat
  <2>1. Height \in Nat /\ Top = stack[Height]
    BY <1>1, TypeFacts DEF Height, Top
  <2>2. Height \in 1..Height /\ \A j \in 2..Height : j \in 1..Height
    BY <1>3, <2>1
  <2>3. QED
    BY <1>1, <1>2, <2>1, <2>2, GradeNat
<1>4. ASSUME stack' = <<>> PROVE PathInv'
  <2>1. Height' = 0
    BY <1>4 DEF Height
  <2>2. QED
    BY <2>1 DEF PathInv
<1>5. ASSUME Height' \in 1..2 PROVE PathInv'
  <2>1. \A j, k \in 2..Height' : ~(j < k)
    BY <1>5
  <2>2. QED
    BY <2>1 DEF PathInv
<1>6. CASE ResolveRequest
  <2>1. /\ stack # <<>> /\ Top.op = "resolve" /\ Top.i \in 1..Len(def[Top.mod].req)
        /\ (\E m : ResolveFinds(m)) \/ ResolveLoads \/ ResolveFails
    BY <1>1, <1>6, ResolveEffect
  <2>2. Height >= 2
    BY <2>1, Shape
  <2>3. /\ Grade[Wanted] \in Nat /\ Grade[Wanted] < GradeOf(Top.mod)
    BY <1>1, <1>3, <2>1, <2>2, GradeStep DEF Wanted
  <2>4. ASSUME NEW m, ResolveFinds(m) PROVE PathInv'
    <3>1. CASE Has(m, "resolved")
      <4>1. IsAdvanced(stack')
        BY <2>4, <3>1 DEF ResolveFinds
      <4>2. QED
        BY <1>1, <2>2, <4>1, StayView, PathKept
    <3>2. CASE ~Has(m, "resolved")
      <4>1. AdvancesAndPushes(Frame("resolve", m, FALSE)) /\ def[m].name = Wanted
            /\ m \in loaded
        BY <2>4, <3>2 DEF ResolveFinds
      <4>2. /\ \A j \in 2..Height' : j \in 2..Height \/ j = Height + 1
            /\ \A j \in 2..Height : stack'[j].mod = stack[j].mod
            /\ stack'[Height + 1] = Frame("resolve", m, FALSE)
        BY <2>2, <4>1, PushView
      <4>3. stack'[Height + 1].mod = m /\ m \in Defined
        BY <1>1, <4>1, <4>2, TypeFacts DEF Frame
      <4>4. def'[stack'[Height + 1].mod].name = Wanted
        BY <1>1, <4>1, <4>3 DEF SameNames
      <4>5. QED
        BY <1>1, <1>3, <2>2, <2>3, <4>2, <4>4, PathPushed
    <3>3. QED
      BY <3>1, <3>2
  <2>5. CASE ResolveLoads
    <3>1. /\ IsPushed(stack, stack', Frame("resolve", nextDef, TRUE))
          /\ def'[nextDef].name = Wanted
      BY <2>5 DEF ResolveLoads, Defines
    <3>2. /\ \A j \in 2..Height' : j \in 2..Height \/ j = Height + 1
          /\ \A j \in 2..Height : stack'[j].mod = stack[j].mod
          /\ stack'[Height + 1] = Frame("resolve", nextDef, TRUE)
      BY <2>2, <3>1, LoadView
    <3>3. def'[stack'[Height + 1].mod].name = Wanted
      BY <3>1, <3>2 DEF Frame
    <3>4. QED
      BY <1>1, <1>3, <2>2, <2>3, <3>2, <3>3, PathPushed
  <2>6. CASE ResolveFails
    <3>1. stack' = stack
      BY <2>6 DEF ResolveFails
    <3>2. \A j \in 2..Height' : j \in 2..Height /\ stack'[j].mod = stack[j].mod
      BY <3>1 DEF Height
    <3>3. QED
      BY <1>1, <3>2, PathKept
  <2>7. QED
    BY <2>1, <2>4, <2>5, <2>6
<1>7. ASSUME NEW op \in {"create", "link", "evaluate"}, NextRequest(op)
      PROVE  PathInv'
  <2> DEFINE m == def[Top.mod].tgt[Top.i]
  <2>1. /\ stack # <<>> /\ Top.op = op /\ Top.i \in 1..Len(def[Top.mod].tgt) /\ Visits(op, m)
    BY <1>1, <1>7, RequestEffect
  <2>2. Height >= 2
    BY <2>1, Shape
  <2>3. Top.i \in 1..Len(def[Top.mod].req)
    BY <1>1, <1>3, <2>1, <2>2, TypeFacts
  <2>4. CASE VisitFaults(m)
    <3>1. stack' = stack
      BY <2>4 DEF VisitFaults
    <3>2. \A j \in 2..Height' : j \in 2..Height /\ stack'[j].mod = stack[j].mod
      BY <3>1 DEF Height
    <3>3. QED
      BY <1>1, <3>2, PathKept
  <2>5. CASE VisitSkips(op, m)
    <3>1. IsAdvanced(stack')
      BY <2>5 DEF VisitSkips
    <3>2. QED
      BY <1>1, <2>2, <3>1, StayView, PathKept
  <2>6. CASE VisitPushes(op, m)
    <3>1. AdvancesAndPushes(Frame(op, m, FALSE)) /\ m \in loaded
      BY <2>6 DEF VisitPushes
    <3>2. m \in Defined /\ m # 0
      BY <1>1, <3>1, TypeFacts DEF Defined
    <3>3. GradeOf(m) \in Nat /\ GradeOf(m) < GradeOf(Top.mod)
      BY <1>1, <1>3, <2>1, <2>2, <3>2, GradeTarget
    <3> HIDE DEF m
    <3>4. /\ \A j \in 2..Height' : j \in 2..Height \/ j = Height + 1
          /\ \A j \in 2..Height : stack'[j].mod = stack[j].mod
          /\ stack'[Height + 1] = Frame(op, m, FALSE)
      BY <2>2, <3>1, PushView
    <3>5. stack'[Height + 1].mod = m
      BY <3>4 DEF Frame
    <3>6. Grade[def'[stack'[Height + 1].mod].name] = GradeOf(m)
      BY <1>1, <3>2, <3>5 DEF SameNames, GradeOf
    <3>7. QED
      BY <1>1, <1>3, <2>2, <3>3, <3>4, <3>6, PathPushed
  <2>7. QED
    BY <2>1, <2>4, <2>5, <2>6 DEF Visits
<1>8. CASE NextStage
  <2>1. Height' = 1 \/ Height' = 2
    BY <1>8, StageView
  <2>2. QED
    BY <1>5, <2>1
<1>9. CASE EnterBody
  BY <1>1, <1>9, EnterView, PathKept
<1>10. ASSUME Pops PROVE PathInv'
  <2>1. stack # <<>> /\ IsBelow(stack')
    BY <1>10 DEF Pops
  <2>2. Height \in Nat \ {0}
    BY <2>1, Shape
  <2>3. CASE Height = 1
    BY <1>4, <2>1, <2>3 DEF IsBelow
  <2>4. CASE Height >= 2
    BY <1>1, <2>1, <2>4, PopView, PathKept
  <2>5. QED
    BY <2>2, <2>3, <2>4
<1>11. CASE TraversalDone \/ LinkDone \/ InitNative \/ LeaveBody \/ EvalReturns
  BY <1>1, <1>10, <1>11, TraversalDoneEffect, LinkDoneEffect, InitNativeEffect,
     LeaveBodyEffect, EvalReturnsEffect
<1>12. CASE UnwindResolve \/ UnwindLink \/ EvalFails \/ UnwindEvaluate
  BY <1>1, <1>10, <1>12, UnwindEffect, UnwindEvaluateEffect
<1>13. ASSUME NEW n \in Natives, Module(n) PROVE PathInv'
  BY <1>1, <1>4, <1>13, ModuleEffect
<1>14. ASSUME NEW m \in swift, Function(m) PROVE PathInv'
  BY <1>1, <1>4, <1>14, FunctionEffect
<1>15. ASSUME NEW imports \in RootTexts, Eval(imports) PROVE PathInv'
  <2>1. stack = <<>> /\ Starts(Root, imports)
    BY <1>1, <1>15, EvalEffect
  <2>2. Height' = 2
    BY <1>1, <2>1, StartView
  <2>3. QED
    BY <1>5, <2>2
<1>16. ASSUME NEW n \in Names, Import(n) PROVE PathInv'
  <2>1. stack = <<>> /\ (Starts(n, text[n]) \/ \E m : ImportFinds(n, m))
    BY <1>1, <1>16, ImportEffect
  <2>2. Starts(n, text[n]) => Height' = 2
    BY <1>1, <2>1, StartView
  <2>3. (\E m : ImportFinds(n, m)) => Height' \in 1..2
    BY <1>1, <2>1, ImportView
  <2>4. QED
    BY <1>5, <2>1, <2>2, <2>3
<1>17. QED
  BY <1>6, <1>7, <1>8, <1>9, <1>11, <1>12, <1>13, <1>14, <1>15, <1>16
  DEF Next, EngineNext, AppNext

\* A definition that is added has not been touched by a traversal.
NewFlags ==
    \A a \in Defined' \ Defined :
        /\ a = nextDef /\ nextDef \in Addr
        /\ def'[a].flags = {"resolved"} \/ (def'[a].flags = {} /\ def'[a].name \in Natives)

LEMMA NewFlagsStep ==
    ASSUME TypeOK, Next
    PROVE  NewFlags
<1>1. nextDef \in Nat \ {0}
  BY TypeFacts
<1>2. ASSUME nextDef' = nextDef PROVE NewFlags
  BY <1>2 DEF NewFlags, Defined
<1>3. ASSUME NEW name, NEW imports, NEW F, Defines(name, imports, F),
             F = {"resolved"} \/ (F = {} /\ name \in Natives)
      PROVE  NewFlags
  <2>1. /\ nextDef' = nextDef + 1 /\ nextDef \in Addr /\ def'[nextDef].flags = F
        /\ def'[nextDef].name = name
    BY <1>3 DEF Defines
  <2>2. \A a \in Defined' \ Defined : a = nextDef
    BY <1>1, <2>1 DEF Defined
  <2>3. QED
    BY <1>3, <2>1, <2>2 DEF NewFlags
<1>4. CASE ResolveRequest
  <2>1. (\E m : ResolveFinds(m)) \/ ResolveLoads \/ ResolveFails
    BY <1>4, ResolveEffect
  <2>2. QED
    BY <1>2, <1>3, <2>1 DEF ResolveFinds, ResolveLoads, ResolveFails
<1>5. CASE \E op \in {"create", "link", "evaluate"} : NextRequest(op)
  BY <1>2, <1>5, RequestEffect
<1>6. CASE NextStage
  BY <1>2, <1>6, StageEffect
<1>7. CASE TraversalDone \/ LinkDone \/ EvalReturns \/ InitNative \/ LeaveBody
  BY <1>2, <1>7, TraversalDoneEffect, LinkDoneEffect, EvalReturnsEffect, InitNativeEffect,
     LeaveBodyEffect DEF Pops
<1>8. CASE UnwindResolve \/ UnwindLink \/ EvalFails \/ UnwindEvaluate
  BY <1>2, <1>8, UnwindEffect, UnwindEvaluateEffect DEF Pops
<1>9. CASE EnterBody
  BY <1>2, <1>9, EnterBodyEffect
<1>10. ASSUME NEW n \in Natives, Module(n) PROVE NewFlags
  BY <1>3, <1>10, ModuleEffect
<1>11. ASSUME NEW m \in swift, Function(m) PROVE NewFlags
  BY <1>2, <1>11, FunctionEffect
<1>12. ASSUME NEW imports \in RootTexts, Eval(imports) PROVE NewFlags
  BY <1>3, <1>12, EvalEffect DEF Starts
<1>13. ASSUME NEW n \in Names, Import(n) PROVE NewFlags
  BY <1>2, <1>3, <1>13, ImportEffect DEF Starts, ImportFinds
<1>14. QED
  BY <1>4, <1>5, <1>6, <1>7, <1>8, <1>9, <1>10, <1>11, <1>12, <1>13
  DEF Next, EngineNext, AppNext

\* A step that meets no request and starts no loading.
LEMMA ResolvedKept ==
    ASSUME StackInv, ResolvedInv, KeepsDefs,
           \A a \in Defined' : "resolved" \in def'[a].flags \/ def'[a].name \in Natives,
           \A j \in 2..Height' : Phase' = 1 =>
               /\ Phase = 1 /\ j \in 2..Height /\ stack'[j].mod = stack[j].mod
               /\ stack'[j].i \in Nat /\ stack[j].i \in Nat /\ stack'[j].i >= stack[j].i
    PROVE  ResolvedInv'
<1>1. \A j \in 2..Height : stack[j].mod \in Addr
  BY TypeFacts DEF StackInv, FrameInv
<1>2. \A j \in 2..Height' : Phase' = 1 => def'[stack'[j].mod].tgt = def[stack[j].mod].tgt
  BY <1>1 DEF KeepsDefs
<1>3. ASSUME NEW j \in 2..Height', Phase' = 1, NEW i \in 1..Len(def'[stack'[j].mod].tgt),
             i >= stack'[j].i
      PROVE  def'[stack'[j].mod].tgt[i] = 0
  <2>1. /\ Phase = 1 /\ j \in 2..Height /\ stack'[j].i >= stack[j].i
        /\ stack'[j].i \in Nat /\ stack[j].i \in Nat
    BY <1>3
  <2>2. i \in 1..Len(def[stack[j].mod].tgt)
    BY <1>2, <1>3
  <2>3. Len(def[stack[j].mod].tgt) \in Nat
    BY <1>1, <2>1, TypeFacts DEF StackInv
  <2>4. i >= stack[j].i
    BY <1>3, <2>1, <2>2, <2>3
  <2>5. def[stack[j].mod].tgt[i] = 0
    BY <2>1, <2>2, <2>4 DEF ResolvedInv
  <2>6. QED
    BY <1>2, <1>3, <2>5
<1>4. QED
  BY <1>3 DEF ResolvedInv, Has

LEMMA KeepsBySet ==
    ASSUME NEW m, NEW F, def' = def \/ SetFlags(m, F), loaded' \subseteq loaded,
           UNCHANGED <<text, nextDef, swift>>
    PROVE  KeepsDefs
BY DEF KeepsDefs, SetFlags

LEMMA KeepsByVisit ==
    ASSUME NEW m, NEW op, Visits(op, m), UNCHANGED <<text, loaded, nextDef, swift>>
    PROVE  KeepsDefs
BY KeepsBySet DEF Visits, VisitFaults, VisitPushes, VisitSkips

LEMMA ResolvedNext ==
    ASSUME ~Reentrant, StackInv, NameInv, ResolvedInv, Next
    PROVE  ResolvedInv'
<1>1. TypeOK /\ TypeOK' /\ SameNames
  BY NamesSame, TypeNext DEF StackInv
<1>2. \A a \in Defined' : "resolved" \in def'[a].flags \/ def'[a].name \in Natives
  <2>1. FlagsGrow /\ NewFlags
    BY <1>1, FlagsStep, NewFlagsStep
  <2>2. \A a \in Defined : "resolved" \in def[a].flags \/ def[a].name \in Natives
    BY DEF ResolvedInv, Has
  <2>3. QED
    BY <1>1, <2>1, <2>2 DEF FlagsGrow, NewFlags, SameNames
<1>3. /\ Height \in Nat
      /\ \A j \in 1..Height : stack[j].i \in Nat /\ stack[j].mod \in Defined
  BY <1>1, TypeFacts DEF FrameType
<1>4. \A j \in 2..Height : stack[j].i \in Nat /\ stack[j].mod \in Addr
  <2>1. \A j \in 2..Height : j \in 1..Height
    BY <1>3
  <2>2. QED
    BY <1>1, <1>3, <2>1, TypeFacts
<1>5. ASSUME KeepsDefs,
             \A j \in 2..Height' : Phase' = 1 =>
               /\ Phase = 1 /\ j \in 2..Height /\ stack'[j] = stack[j]
      PROVE  ResolvedInv'
  <2>1. \A j \in 2..Height' : Phase' = 1 =>
               /\ Phase = 1 /\ j \in 2..Height /\ stack'[j].mod = stack[j].mod
               /\ stack'[j].i \in Nat /\ stack[j].i \in Nat /\ stack'[j].i >= stack[j].i
    BY <1>4, <1>5
  <2>2. QED
    BY <1>2, <1>5, <2>1, ResolvedKept
<1>6. ASSUME KeepsDefs, Pops PROVE ResolvedInv'
  <2>1. stack # <<>> /\ IsBelow(stack')
    BY <1>6 DEF Pops
  <2>2. CASE Height = 1
    <3>1. Height' = 0
      BY <2>1, <2>2 DEF IsBelow, Height
    <3>2. QED
      BY <1>5, <1>6, <3>1
  <2>3. CASE Height >= 2
    BY <1>5, <1>6, <2>1, <2>3, PopView
  <2>4. QED
    BY <2>1, <2>2, <2>3, Shape
<1>7. ASSUME stack' = <<>> PROVE ResolvedInv'
  <2>1. Height' = 0
    BY <1>7 DEF Height
  <2>2. QED
    BY <1>2, <2>1 DEF ResolvedInv, Has
<1>8. ASSUME KeepsDefs, stack # <<>>, Height >= 2 => Phase # 1,
             stack' = stack \/ Phase' # 1
      PROVE  ResolvedInv'
  <2>1. Height = 1 \/ Phase # 1
    BY <1>8, Shape
  <2>2. CASE stack' = stack
    <3>1. Height' = Height /\ Phase' = Phase
      BY <2>2 DEF Height, Phase
    <3>2. \A j \in 2..Height' : Phase' # 1
      BY <2>1, <3>1
    <3>3. QED
      BY <1>5, <1>8, <3>2
  <2>3. CASE Phase' # 1
    BY <1>5, <1>8, <2>3
  <2>4. QED
    BY <1>8, <2>2, <2>3
<1>9. CASE ResolveRequest
  <2>1. /\ stack # <<>> /\ Top.op = "resolve" /\ Top.i \in 1..Len(def[Top.mod].req)
        /\ (\E m : ResolveFinds(m)) \/ ResolveLoads \/ ResolveFails
        /\ UNCHANGED <<text, swift>>
    BY <1>1, <1>9, ResolveEffect
  <2>2. Height >= 2 /\ Phase = 1
    BY <2>1, Shape, OpPhase
  <2>3. Top = stack[Height] /\ Height \in 2..Height /\ Top.i \in Nat /\ Top.mod \in Addr
    BY <1>1, <1>3, <2>1, <2>2, TopType
  <2>4. ASSUME NEW m, ResolveFinds(m) PROVE ResolvedInv'
    <3>1. Meets(Top.mod, Top.i, m)
      BY <2>4 DEF ResolveFinds
    <3>2. ASSUME NEW j \in 2..Height, NEW k \in Nat, k >= stack[j].i,
                 j = Height => k >= Top.i + 1,
                 NEW i \in 1..Len(def[stack[j].mod].tgt), i >= k
          PROVE  def'[stack[j].mod].tgt[i] = 0
      <4>1. def[stack[j].mod].tgt[i] = 0
        <5>1. stack[j].i \in Nat /\ Len(def[stack[j].mod].tgt) \in Nat
          BY <1>1, <1>4, TypeFacts
        <5>2. i >= stack[j].i
          BY <3>2, <5>1
        <5>3. QED
          BY <2>2, <5>2 DEF ResolvedInv
      <4>2. ~(stack[j].mod = Top.mod /\ i = Top.i)
        <5>1. stack[j].mod = Top.mod => j = Height
          BY <2>3 DEF StackInv, FrameInv
        <5>2. j = Height => i # Top.i
          BY <2>3, <3>2
        <5>3. QED
          BY <5>1, <5>2
      <4>3. def'[stack[j].mod].tgt[i] = def[stack[j].mod].tgt[i]
        BY <1>4, <3>1, <4>2 DEF Meets
      <4>4. QED
        BY <4>1, <4>3
    <3>3. \A j \in 2..Height : Len(def'[stack[j].mod].tgt) = Len(def[stack[j].mod].tgt)
      BY <1>4, <3>1 DEF Meets
    <3>4. ASSUME \A j \in 2..Height' : j \in 2..Height \/ (j = Height + 1 /\ stack'[j].mod = m
                                                           /\ ~Has(m, "resolved")),
                 \A j \in 2..Height : stack'[j].mod = stack[j].mod
                                      /\ (j # Height => stack'[j] = stack[j]),
                 stack'[Height].i = Top.i + 1
          PROVE  ResolvedInv'
      <4>1. ASSUME NEW j \in 2..Height, NEW i \in 1..Len(def'[stack'[j].mod].tgt),
                   i >= stack'[j].i
            PROVE  def'[stack'[j].mod].tgt[i] = 0
        <5>1. /\ stack'[j].mod = stack[j].mod /\ i \in 1..Len(def[stack[j].mod].tgt)
          BY <3>3, <3>4, <4>1
        <5>2. /\ stack'[j].i \in Nat /\ stack'[j].i >= stack[j].i
              /\ j = Height => stack'[j].i >= Top.i + 1
          BY <1>4, <2>3, <3>4
        <5>3. QED
          BY <3>2, <4>1, <5>1, <5>2
      <4>2. ASSUME NEW j \in 2..Height', j = Height + 1, stack'[j].mod = m, ~Has(m, "resolved"),
                   NEW i \in 1..Len(def'[stack'[j].mod].tgt)
            PROVE  FALSE
        <5>1. m \in Defined /\ m \in Addr
          BY <1>1, <2>4, TypeFacts DEF ResolveFinds
        <5>2. def[m].name \in Natives
          BY <4>2, <5>1 DEF ResolvedInv
        <5>3. Len(def[m].req) = 0
          BY <5>1, <5>2 DEF NameInv
        <5>4. Len(def'[m].tgt) = 0
          BY <1>1, <3>1, <5>1, <5>3, TypeFacts DEF Meets
        <5>5. QED
          BY <4>2, <5>4
      <4>3. QED
        BY <1>2, <3>4, <4>1, <4>2 DEF ResolvedInv, Has
    <3>5. CASE Has(m, "resolved")
      <4>1. IsAdvanced(stack')
        BY <2>4, <3>5 DEF ResolveFinds
      <4>2. QED
        BY <2>2, <3>4, <4>1, StayView
    <3>6. CASE ~Has(m, "resolved")
      <4>1. AdvancesAndPushes(Frame("resolve", m, FALSE))
        BY <2>4, <3>6 DEF ResolveFinds
      <4>2. Frame("resolve", m, FALSE).mod = m
        BY DEF Frame
      <4>3. QED
        BY <2>2, <3>4, <3>6, <4>1, <4>2, PushView
    <3>7. QED
      BY <3>5, <3>6
  <2>5. CASE ResolveLoads
    <3>1. /\ IsPushed(stack, stack', Frame("resolve", nextDef, TRUE))
          /\ Defines(Wanted, text[Wanted], {"resolved"})
      BY <2>5 DEF ResolveLoads
    <3>2. /\ \A a \in Addr \ {nextDef} : def'[a] = def[a]
          /\ \A i \in 1..Len(def'[nextDef].tgt) : def'[nextDef].tgt[i] = 0
      BY <3>1 DEF Defines
    <3>3. \A j \in 2..Height : stack[j].mod # nextDef
      <4>1. \A j \in 2..Height : stack[j].mod \in Defined
        BY <1>1, TypeFacts DEF StackInv, FrameInv
      <4>2. nextDef \notin Defined
        BY <1>1, TypeFacts DEF Defined
      <4>3. QED
        BY <4>1, <4>2
    <3>4. /\ \A j \in 2..Height' : j \in 2..Height \/ j = Height + 1
          /\ \A j \in 2..Height : stack'[j] = stack[j]
          /\ stack'[Height + 1].mod = nextDef
      BY <2>2, <3>1, LoadView DEF Frame
    <3>5. \A j \in 2..Height : def'[stack'[j].mod] = def[stack[j].mod]
      BY <1>4, <3>2, <3>3, <3>4
    <3>6. QED
      BY <1>2, <2>2, <3>2, <3>4, <3>5 DEF ResolvedInv, Has
  <2>6. CASE ResolveFails
    <3>1. KeepsDefs /\ stack' = stack
      BY <2>1, <2>6 DEF ResolveFails, KeepsDefs
    <3>2. QED
      BY <1>5, <3>1 DEF Height, Phase
  <2>7. QED
    BY <2>1, <2>4, <2>5, <2>6
<1>10. ASSUME NEW op \in {"create", "link", "evaluate"}, NextRequest(op)
       PROVE  ResolvedInv'
  <2> DEFINE m == def[Top.mod].tgt[Top.i]
  <2>1. /\ stack # <<>> /\ Top.op = op /\ Visits(op, m)
        /\ UNCHANGED <<text, loaded, nextDef, swift>>
    BY <1>1, <1>10, RequestEffect
  <2> HIDE DEF m
  <2>2. Height >= 2 /\ Phase # 1
    BY <2>1, Shape, OpPhase
  <2>3. KeepsDefs
    BY <2>1, KeepsByVisit
  <2>4. stack' = stack \/ Phase' # 1
    BY <2>1, <2>2, StayView, PushView DEF Visits, VisitFaults, VisitSkips, VisitPushes
  <2>5. QED
    BY <1>8, <2>1, <2>2, <2>3, <2>4
<1>11. CASE NextStage
  <2>1. /\ stack # <<>> /\ Height = 1 /\ Phase \in 1..3 /\ Phase' = Phase + 1
    BY <1>11, StageView
  <2>2. KeepsDefs
    BY <1>1, <1>11, StageEffect, KeepsByVisit
  <2>3. Phase' # 1 /\ ~(Height >= 2)
    BY <2>1
  <2>4. QED
    BY <1>8, <2>1, <2>2, <2>3
<1>12. CASE EnterBody
  <2>1. Phase = 4 /\ Phase' = Phase /\ stack # <<>>
    BY <1>12, EnterView
  <2>2. KeepsDefs
    BY <1>1, <1>12, EnterBodyEffect, KeepsBySet
  <2>3. Phase' # 1 /\ Phase # 1
    BY <2>1
  <2>4. QED
    BY <1>8, <2>1, <2>2, <2>3
<1>13. CASE TraversalDone \/ LinkDone \/ EvalReturns
  <2>1. Pops /\ def' = def /\ loaded' = loaded
    BY <1>1, <1>13, TraversalDoneEffect, LinkDoneEffect, EvalReturnsEffect
  <2>2. QED
    BY <1>6, <2>1, KeepsBySet DEF Pops
<1>14. CASE InitNative \/ LeaveBody \/ UnwindEvaluate
  <2>1. Pops /\ loaded' = loaded /\ \E F : SetFlags(Top.mod, F)
    BY <1>1, <1>14, InitNativeEffect, LeaveBodyEffect, UnwindEvaluateEffect
  <2>2. QED
    BY <1>6, <2>1, KeepsBySet DEF Pops
<1>15. CASE UnwindResolve \/ UnwindLink \/ EvalFails
  <2>1. Pops /\ def' = def /\ loaded' \subseteq loaded
    BY <1>1, <1>15, UnwindEffect DEF Unloads
  <2>2. QED
    BY <1>6, <2>1, KeepsBySet DEF Pops
<1>16. ASSUME NEW n \in Natives, Module(n) PROVE ResolvedInv'
  BY <1>1, <1>7, <1>16, ModuleEffect
<1>17. ASSUME NEW m \in swift, Function(m) PROVE ResolvedInv'
  BY <1>1, <1>7, <1>17, FunctionEffect
<1>18. ASSUME stack = <<>>, NEW name, NEW imports, Starts(name, imports) PROVE ResolvedInv'
  <2>1. /\ Height' = 2 /\ stack'[2] = Frame("resolve", nextDef, TRUE)
    BY <1>1, <1>18, StartView
  <2>2. \A j \in 2..Height' : stack'[j].mod = nextDef
    BY <2>1 DEF Frame
  <2>3. \A i \in 1..Len(def'[nextDef].tgt) : def'[nextDef].tgt[i] = 0
    BY <1>18 DEF Starts, Defines
  <2>4. QED
    BY <1>2, <2>2, <2>3 DEF ResolvedInv, Has
<1>19. ASSUME NEW imports \in RootTexts, Eval(imports) PROVE ResolvedInv'
  BY <1>1, <1>18, <1>19, EvalEffect
<1>20. ASSUME NEW n \in Names, Import(n) PROVE ResolvedInv'
  <2>1. stack = <<>> /\ (Starts(n, text[n]) \/ \E m : ImportFinds(n, m))
    BY <1>1, <1>20, ImportEffect
  <2>2. ASSUME NEW m, ImportFinds(n, m) PROVE ResolvedInv'
    <3>1. /\ Height' \in 1..2 /\ (Height' = 2 => stack'[2] = Frame("resolve", m, FALSE))
      BY <1>1, <2>1, <2>2, ImportView
    <3>2. m \in Defined /\ m \in Addr /\ SetFlags(m, def[m].flags \cup {"resolved"})
          /\ Len(stack') = IF Has(m, "resolved") THEN 1 ELSE 2
      BY <1>1, <2>2, TypeFacts DEF ImportFinds
    <3>3. CASE Has(m, "resolved")
      <4>1. Height' = 1
        BY <3>2, <3>3 DEF Height
      <4>2. QED
        BY <1>2, <4>1 DEF ResolvedInv, Has
    <3>4. CASE ~Has(m, "resolved")
      <4>1. def[m].name \in Natives
        BY <3>2, <3>4 DEF ResolvedInv
      <4>2. Len(def[m].req) = 0
        BY <3>2, <4>1 DEF NameInv
      <4>3. Len(def'[m].tgt) = 0
        BY <1>1, <3>2, <4>2, TypeFacts DEF SetFlags
      <4>4. \A j \in 2..Height' : stack'[j].mod = m
        BY <3>1 DEF Frame
      <4>5. QED
        BY <1>2, <4>3, <4>4 DEF ResolvedInv, Has
    <3>5. QED
      BY <3>3, <3>4
  <2>3. QED
    BY <1>18, <2>1, <2>2
<1>21. QED
  BY <1>9, <1>10, <1>11, <1>12, <1>13, <1>14, <1>15, <1>16, <1>17, <1>19, <1>20
  DEF Next, EngineNext, AppNext

Loading == \E j \in 2..Height : Phase = 1 /\ stack[j].owned

\* When no module is being loaded all requests are met.
LEMMA NoZero ==
    ASSUME RequestInv, ~Loading
    PROVE  \A m \in loaded : \A i \in 1..Len(def[m].tgt) :
               def[m].tgt[i] # 0 /\ def[m].tgt[i] \in loaded
BY DEF RequestInv, Loading

LEMMA RequestKept ==
    ASSUME TypeOK, RequestInv, ~Loading, ~Loading', KeepsDefs, loaded' = loaded
    PROVE  RequestInv'
<1>1. \A m \in loaded : def'[m].tgt = def[m].tgt
  BY TypeFacts DEF KeepsDefs
<1>2. \A m \in loaded' : \A i \in 1..Len(def'[m].tgt) :
          def'[m].tgt[i] # 0 /\ def'[m].tgt[i] \in loaded'
  BY <1>1, NoZero
<1>3. \A j \in 2..Height' : ~(Phase' = 1 /\ stack'[j].owned)
  BY DEF Loading
<1>4. QED
  BY <1>2, <1>3 DEF RequestInv

LEMMA RequestFinds ==
    ASSUME Acyclic, StackInv, NameInv, PathInv, RequestInv, Height >= 2, Phase = 1,
           Top.i \in 1..Len(def[Top.mod].req), NEW m, ResolveFinds(m)
    PROVE  RequestInv'
<1>1. TypeOK /\ Height \in Nat /\ Height \in 2..Height /\ Top = stack[Height] /\ Top.i \in Nat
      /\ Top.mod \in Addr
  <2>1. TypeOK /\ stack # <<>>
    BY TypeFacts DEF StackInv, Height
  <2>2. QED
    BY <2>1, TopType
<1>2. /\ Meets(Top.mod, Top.i, m) /\ m \in loaded /\ loaded' = loaded
      /\ def[m].name = def[Top.mod].req[Top.i] /\ m \in Defined
  BY <1>1, TypeFacts DEF ResolveFinds, Wanted
<1>3. \A a \in loaded :
        /\ Len(def'[a].tgt) = Len(def[a].tgt)
        /\ \A i \in 1..Len(def[a].tgt) :
             def'[a].tgt[i] = IF a = Top.mod /\ i = Top.i THEN m ELSE def[a].tgt[i]
  BY <1>1, <1>2, TypeFacts DEF Meets
<1>4. \A j \in 2..Height : stack[j].mod # m
  BY <1>2, PathTop
<1>5. m # 0
  BY <1>2 DEF Defined
<1>6. ASSUME /\ \A j \in 2..Height' : j \in 2..Height \/ (j = Height + 1 /\ ~stack'[j].owned)
             /\ Phase' = Phase
             /\ \A j \in 2..Height : j \in 2..Height'
             /\ \A j \in 2..Height : stack'[j].mod = stack[j].mod
                                      /\ (stack'[j].owned <=> stack[j].owned)
                                      /\ (j # Height => stack'[j] = stack[j])
             /\ stack'[Height].i = Top.i + 1
      PROVE  RequestInv'
  <2>1. ASSUME NEW a \in loaded', NEW i \in 1..Len(def'[a].tgt)
        PROVE  /\ def'[a].tgt[i] # 0 => def'[a].tgt[i] \in loaded'
               /\ def'[a].tgt[i] = 0 =>
                     \E j \in 2..Height' : /\ Phase' = 1 /\ stack'[j].owned
                                           /\ stack'[j].mod = a /\ i >= stack'[j].i
    <3>1. a \in loaded /\ i \in 1..Len(def[a].tgt)
      BY <1>2, <1>3
    <3>2. CASE a = Top.mod /\ i = Top.i
      BY <1>2, <1>3, <1>5, <3>1, <3>2
    <3>3. CASE ~(a = Top.mod /\ i = Top.i)
      <4>1. def'[a].tgt[i] = def[a].tgt[i]
        BY <1>3, <3>1, <3>3
      <4>2. CASE def[a].tgt[i] # 0
        BY <1>2, <3>1, <4>1, <4>2 DEF RequestInv
      <4>3. CASE def[a].tgt[i] = 0
        <5>1. PICK j \in 2..Height : /\ Phase = 1 /\ stack[j].owned
                                     /\ stack[j].mod = a /\ i >= stack[j].i
          BY <3>1, <4>3 DEF RequestInv
        <5>2. i \in Nat
          BY <1>1, <3>1, TypeFacts
        <5>3. i >= stack'[j].i
          <6>1. CASE j = Height
            <7>1. i >= Top.i /\ i # Top.i
              BY <1>1, <3>3, <5>1, <6>1
            <7>2. i >= Top.i + 1
              BY <1>1, <5>2, <7>1
            <7>3. QED
              BY <1>6, <6>1, <7>2
          <6>2. CASE j # Height
            BY <1>6, <5>1, <6>2
          <6>3. QED
            BY <6>1, <6>2
        <5>4. QED
          BY <1>6, <4>1, <4>3, <5>1, <5>3
      <4>4. QED
        BY <4>2, <4>3
    <3>4. QED
      BY <3>2, <3>3
  <2>2. ASSUME NEW j \in 2..Height', Phase' = 1, stack'[j].owned,
               NEW a \in loaded', NEW i \in 1..Len(def'[a].tgt)
        PROVE  def'[a].tgt[i] # stack'[j].mod
    <3>1. j \in 2..Height /\ stack[j].owned /\ stack'[j].mod = stack[j].mod
      BY <1>6, <2>2
    <3>2. a \in loaded /\ i \in 1..Len(def[a].tgt)
      BY <1>2, <1>3
    <3>3. def[a].tgt[i] # stack[j].mod
      BY <3>1, <3>2 DEF RequestInv
    <3>4. QED
      BY <1>3, <1>4, <3>1, <3>2, <3>3
  <2>3. QED
    BY <2>1, <2>2 DEF RequestInv
<1>7. CASE Has(m, "resolved")
  <2>1. IsAdvanced(stack')
    BY <1>7 DEF ResolveFinds
  <2>2. QED
    BY <1>6, <2>1, StayView
<1>8. CASE ~Has(m, "resolved")
  <2>1. AdvancesAndPushes(Frame("resolve", m, FALSE))
    BY <1>8 DEF ResolveFinds
  <2>2. ~Frame("resolve", m, FALSE).owned
    BY OwnedFrame
  <2>3. /\ Height' = Height + 1 /\ Phase' = Phase
        /\ stack'[Height].i = Top.i + 1 /\ stack'[Height + 1] = Frame("resolve", m, FALSE)
        /\ \A j \in 2..Height' : j \in 2..Height \/ j = Height + 1
        /\ \A j \in 2..Height : stack'[j].mod = stack[j].mod
                                /\ (stack'[j].owned <=> stack[j].owned)
                                /\ (j # Height => stack'[j] = stack[j])
    BY <2>1, PushView
  <2>4. \A j \in 2..Height : j \in 2..Height'
    BY <1>1, <2>3
  <2>5. QED
    BY <1>6, <2>2, <2>3, <2>4
<1>9. QED
  BY <1>7, <1>8

LEMMA RequestLoads ==
    ASSUME StackInv, RequestInv, Height >= 2, Phase = 1, ResolveLoads
    PROVE  RequestInv'
<1>1. TypeOK /\ Height \in Nat
  BY TypeFacts DEF StackInv
<1>2. /\ IsPushed(stack, stack', Frame("resolve", nextDef, TRUE))
      /\ Defines(Wanted, text[Wanted], {"resolved"})
  BY DEF ResolveLoads
<1>3. /\ Height' = Height + 1 /\ Phase' = 1
      /\ stack'[Height + 1] = Frame("resolve", nextDef, TRUE)
      /\ \A j \in 2..Height' : j \in 2..Height \/ j = Height + 1
      /\ \A j \in 2..Height : stack'[j] = stack[j]
  BY <1>2, LoadView
<1>4. stack'[Height + 1].owned /\ stack'[Height + 1].mod = nextDef /\ stack'[Height + 1].i = 1
  BY <1>3, OwnedFrame DEF Frame
<1>5. Height + 1 \in 2..Height' /\ \A j \in 2..Height : j \in 2..Height'
  BY <1>1, <1>3
<1>6. nextDef \notin Defined /\ nextDef # 0
  BY <1>1, TypeFacts DEF Defined
<1>7. \A a \in loaded : def'[a] = def[a] /\ a \in Defined /\ a \in Addr
  <2>1. \A a \in loaded : a \in Addr \ {nextDef} /\ a \in Defined
    BY <1>1, <1>6, TypeFacts
  <2>2. QED
    BY <1>2, <2>1 DEF Defines
<1>8. /\ loaded' = loaded \cup {nextDef}
      /\ \A i \in 1..Len(def'[nextDef].tgt) : def'[nextDef].tgt[i] = 0
  BY <1>2 DEF Defines
<1>9. ASSUME NEW a \in loaded', NEW i \in 1..Len(def'[a].tgt)
      PROVE  /\ def'[a].tgt[i] # 0 => def'[a].tgt[i] \in loaded'
             /\ def'[a].tgt[i] = 0 =>
                   \E j \in 2..Height' : /\ Phase' = 1 /\ stack'[j].owned
                                         /\ stack'[j].mod = a /\ i >= stack'[j].i
  <2>1. CASE a = nextDef
    <3>1. i >= 1
      OBVIOUS
    <3>2. def'[a].tgt[i] = 0
      BY <1>8, <2>1
    <3>3. /\ Height + 1 \in 2..Height' /\ Phase' = 1 /\ stack'[Height + 1].owned
          /\ stack'[Height + 1].mod = a /\ i >= stack'[Height + 1].i
      BY <1>3, <1>4, <1>5, <2>1, <3>1
    <3>4. QED
      BY <3>2, <3>3
  <2>2. CASE a # nextDef
    <3>1. a \in loaded /\ def'[a] = def[a]
      BY <1>7, <1>8, <2>2
    <3>2. def[a].tgt[i] # 0 => def[a].tgt[i] \in loaded
      BY <3>1 DEF RequestInv
    <3>3. def[a].tgt[i] = 0 =>
            \E j \in 2..Height : /\ Phase = 1 /\ stack[j].owned
                                 /\ stack[j].mod = a /\ i >= stack[j].i
      BY <3>1 DEF RequestInv
    <3>4. QED
      BY <1>3, <1>5, <1>8, <3>1, <3>2, <3>3
  <2>3. QED
    BY <2>1, <2>2
<1>10. ASSUME NEW j \in 2..Height', stack'[j].owned,
              NEW a \in loaded', NEW i \in 1..Len(def'[a].tgt)
       PROVE  def'[a].tgt[i] # stack'[j].mod
  <2>1. j \in 2..Height => stack[j].mod \in Defined
    BY <1>1, TypeFacts DEF StackInv, FrameInv
  <2>2. 0 \notin Defined
    BY DEF Defined
  <2>3. CASE a = nextDef
    BY <1>3, <1>4, <1>6, <1>8, <2>1, <2>2, <2>3
  <2>4. CASE a # nextDef
    <3>1. a \in loaded /\ def'[a] = def[a] /\ a \in Addr
      BY <1>7, <1>8, <2>4
    <3>2. j = Height + 1 => def[a].tgt[i] # nextDef
      BY <1>1, <1>6, <3>1, TypeFacts
    <3>3. j \in 2..Height => def[a].tgt[i] # stack[j].mod
      BY <1>3, <1>10, <3>1 DEF RequestInv
    <3>4. QED
      BY <1>3, <1>4, <3>1, <3>2, <3>3
  <2>5. QED
    BY <2>3, <2>4
<1>11. QED
  BY <1>9, <1>10 DEF RequestInv

\* A frame that resolves requests returns, or fails and frees its module.
LEMMA RequestPops ==
    ASSUME StackInv, RequestInv, Height >= 2, Phase = 1, IsBelow(stack'), def' = def,
           \/ loaded' = loaded /\ Top.i > Len(def[Top.mod].tgt)
           \/ loaded' = loaded /\ ~Top.owned
           \/ loaded' = loaded \ {Top.mod} /\ Top.owned
    PROVE  RequestInv'
<1>1. TypeOK /\ Height \in Nat /\ Height \in 2..Height /\ Top = stack[Height] /\ Top.i \in Nat
      /\ Top.mod \in Addr
  <2>1. TypeOK /\ stack # <<>>
    BY TypeFacts DEF StackInv, Height
  <2>2. QED
    BY <2>1, TopType
<1>2. /\ Height' = Height - 1 /\ Phase' = 1
      /\ \A j \in 2..Height' : j \in 2..Height /\ j # Height /\ stack'[j] = stack[j]
  BY PopView
<1>3. \A j \in 2..Height : j # Height => j \in 2..Height'
  BY <1>1, <1>2
<1>4. ASSUME NEW a \in loaded', NEW i \in 1..Len(def[a].tgt)
      PROVE  /\ def[a].tgt[i] # 0 => def[a].tgt[i] \in loaded'
             /\ def[a].tgt[i] = 0 =>
                   \E j \in 2..Height' : /\ Phase' = 1 /\ stack'[j].owned
                                         /\ stack'[j].mod = a /\ i >= stack'[j].i
  <2>1. a \in loaded
    OBVIOUS
  <2>2. ASSUME def[a].tgt[i] # 0 PROVE def[a].tgt[i] \in loaded'
    <3>1. def[a].tgt[i] \in loaded
      BY <2>1, <2>2 DEF RequestInv
    <3>2. Top.owned => def[a].tgt[i] # Top.mod
      BY <1>1, <2>1 DEF RequestInv
    <3>3. QED
      BY <3>1, <3>2
  <2>3. ASSUME def[a].tgt[i] = 0
        PROVE  \E j \in 2..Height' : /\ Phase' = 1 /\ stack'[j].owned
                                     /\ stack'[j].mod = a /\ i >= stack'[j].i
    <3>1. PICK j \in 2..Height : stack[j].owned /\ stack[j].mod = a /\ i >= stack[j].i
      BY <2>1, <2>3 DEF RequestInv
    <3>2. j # Height
      <4>1. Len(def[a].tgt) \in Nat
        BY <1>1, <2>1, TypeFacts
      <4>2. QED
        BY <1>1, <3>1, <4>1
    <3>3. QED
      BY <1>2, <1>3, <3>1, <3>2
  <2>4. QED
    BY <2>2, <2>3
<1>5. ASSUME NEW j \in 2..Height', stack'[j].owned,
             NEW a \in loaded', NEW i \in 1..Len(def[a].tgt)
      PROVE  def[a].tgt[i] # stack'[j].mod
  BY <1>2, <1>5 DEF RequestInv
<1>6. QED
  BY <1>4, <1>5 DEF RequestInv

\* An evaluation begins with a module that is loaded for it.
LEMMA RequestStarts ==
    ASSUME TypeOK, RequestInv, stack = <<>>, NEW name, NEW imports, NEW F,
           Defines(name, imports, F),
           \/ stack' = <<>> /\ Len(imports) = 0
           \/ /\ Height' = 2 /\ Phase' = 1
              /\ stack'[2] = Frame("resolve", nextDef, TRUE)
    PROVE  RequestInv'
<1>1. ~Loading
  BY DEF Loading, Height
<1>2. nextDef \notin Defined /\ nextDef # 0 /\ 0 \notin Defined
  BY TypeFacts DEF Defined
<1>3. \A a \in loaded : def'[a] = def[a] /\ a \in Defined /\ a \in Addr
  <2>1. \A a \in loaded : a \in Addr \ {nextDef} /\ a \in Defined
    BY <1>2, TypeFacts
  <2>2. QED
    BY <2>1 DEF Defines
<1>4. /\ loaded' = loaded \cup {nextDef} /\ Len(def'[nextDef].tgt) = Len(imports)
      /\ \A i \in 1..Len(def'[nextDef].tgt) : def'[nextDef].tgt[i] = 0
  BY DEF Defines
<1>5. \A a \in loaded : \A i \in 1..Len(def[a].tgt) :
          def[a].tgt[i] # 0 /\ def[a].tgt[i] \in loaded
  BY <1>1, NoZero
<1>6. CASE stack' = <<>> /\ Len(imports) = 0
  <2>1. Height' = 0
    BY <1>6 DEF Height
  <2>2. \A a \in loaded' : \A i \in 1..Len(def'[a].tgt) :
            def'[a].tgt[i] # 0 /\ def'[a].tgt[i] \in loaded'
    BY <1>3, <1>4, <1>5, <1>6
  <2>3. QED
    BY <2>1, <2>2 DEF RequestInv
<1>7. CASE Height' = 2 /\ Phase' = 1 /\ stack'[2] = Frame("resolve", nextDef, TRUE)
  <2>1. stack'[2].owned /\ stack'[2].mod = nextDef /\ stack'[2].i = 1
    BY <1>7, OwnedFrame DEF Frame
  <2>2. 2 \in 2..Height' /\ \A j \in 2..Height' : j = 2
    BY <1>7
  <2>3. ASSUME NEW a \in loaded', NEW i \in 1..Len(def'[a].tgt)
        PROVE  /\ def'[a].tgt[i] # 0 => def'[a].tgt[i] \in loaded'
               /\ def'[a].tgt[i] = 0 =>
                     \E j \in 2..Height' : /\ Phase' = 1 /\ stack'[j].owned
                                           /\ stack'[j].mod = a /\ i >= stack'[j].i
    <3>1. CASE a = nextDef
      <4>1. i >= 1 /\ def'[a].tgt[i] = 0
        BY <1>4, <3>1
      <4>2. QED
        BY <1>7, <2>1, <2>2, <3>1, <4>1
    <3>2. CASE a # nextDef
      BY <1>3, <1>4, <1>5, <3>2
    <3>3. QED
      BY <3>1, <3>2
  <2>4. ASSUME NEW a \in loaded', NEW i \in 1..Len(def'[a].tgt)
        PROVE  def'[a].tgt[i] # nextDef
    <3>1. CASE a = nextDef
      BY <1>2, <1>4, <3>1
    <3>2. CASE a # nextDef
      <4>1. a \in loaded /\ def'[a] = def[a]
        BY <1>3, <1>4, <3>2
      <4>2. def[a].tgt[i] \in Defined
        BY <1>3, <1>5, <4>1
      <4>3. QED
        BY <1>2, <4>1, <4>2
    <3>3. QED
      BY <3>1, <3>2
  <2>5. QED
    BY <2>1, <2>2, <2>3, <2>4 DEF RequestInv
<1>8. QED
  BY <1>6, <1>7

LEMMA RequestNext ==
    ASSUME ~Reentrant, Acyclic, StackInv, NameInv, PathInv, RequestInv, RanInv, Next
    PROVE  RequestInv'
<1>1. TypeOK
  BY DEF StackInv
<1>2. ASSUME KeepsDefs, loaded' = loaded, ~Loading, Phase' # 1 \/ Height' < 2 \/ stack' = stack
      PROVE  RequestInv'
  <2>1. CASE stack' = stack
    <3>1. ~Loading'
      BY <1>2, <2>1 DEF Loading, Height, Phase
    <3>2. QED
      BY <1>1, <1>2, <3>1, RequestKept
  <2>2. CASE Phase' # 1
    BY <1>1, <1>2, <2>2, RequestKept DEF Loading
  <2>3. CASE Height' < 2
    <3>1. Height' \in Nat
      BY <1>1, TypeNext, TypeFacts DEF TypeOK, Height
    <3>2. \A j \in 2..Height' : FALSE
      BY <2>3, <3>1
    <3>3. QED
      BY <1>1, <1>2, <3>2, RequestKept DEF Loading
  <2>4. QED
    BY <1>2, <2>1, <2>2, <2>3
<1>3. Phase # 1 \/ Height < 2 => ~Loading
  BY <1>1, TypeFacts DEF Loading
<1>4. ASSUME Pops, KeepsDefs, loaded' = loaded, Phase # 1 \/ Height < 2 PROVE RequestInv'
  <2>1. stack # <<>> /\ IsBelow(stack')
    BY <1>4 DEF Pops
  <2>2. Height = 1 => Height' < 2
    BY <2>1 DEF IsBelow, Height
  <2>3. Height >= 2 => Phase' = Phase
    BY <2>1, PopView
  <2>4. CASE Height = 1
    BY <1>2, <1>3, <1>4, <2>2, <2>4
  <2>5. CASE Height >= 2
    <3>1. Phase # 1
      BY <1>4, <2>5, <2>1, Shape
    <3>2. Phase' # 1
      BY <2>3, <2>5, <3>1
    <3>3. QED
      BY <1>2, <1>3, <1>4, <3>1, <3>2
  <2>6. QED
    BY <2>1, <2>4, <2>5, Shape
<1>5. CASE ResolveRequest
  <2>1. /\ stack # <<>> /\ Top.op = "resolve" /\ Top.i \in 1..Len(def[Top.mod].req)
        /\ (\E m : ResolveFinds(m)) \/ ResolveLoads \/ ResolveFails
    BY <1>1, <1>5, ResolveEffect
  <2>2. Height >= 2 /\ Phase = 1
    BY <2>1, Shape, OpPhase
  <2>3. ASSUME ResolveFails PROVE RequestInv'
    <3>1. UNCHANGED <<def, loaded, stack>>
      BY <2>3 DEF ResolveFails
    <3>2. QED
      BY <3>1 DEF RequestInv, Height, Phase
  <2>4. QED
    BY <2>1, <2>2, <2>3, RequestFinds, RequestLoads
<1>6. ASSUME NEW op \in {"create", "link", "evaluate"}, NextRequest(op)
      PROVE  RequestInv'
  <2> DEFINE m == def[Top.mod].tgt[Top.i]
  <2>1. /\ stack # <<>> /\ Top.op = op /\ Visits(op, m)
        /\ UNCHANGED <<text, loaded, nextDef, swift>>
    BY <1>1, <1>6, RequestEffect
  <2> HIDE DEF m
  <2>2. Height >= 2 /\ Phase # 1
    BY <2>1, Shape, OpPhase
  <2>3. KeepsDefs
    BY <2>1, KeepsByVisit
  <2>4. stack' = stack \/ Phase' # 1
    BY <2>1, <2>2, StayView, PushView DEF Visits, VisitFaults, VisitSkips, VisitPushes
  <2>5. QED
    BY <1>2, <1>3, <2>1, <2>2, <2>3, <2>4
<1>7. CASE NextStage
  <2>1. /\ stack # <<>> /\ Height = 1 /\ Phase \in 1..3 /\ Phase' = Phase + 1
    BY <1>7, StageView
  <2>2. KeepsDefs /\ loaded' = loaded
    BY <1>1, <1>7, StageEffect, KeepsByVisit
  <2>3. Phase' # 1 /\ Height < 2
    BY <2>1
  <2>4. QED
    BY <1>2, <1>3, <2>2, <2>3
<1>8. CASE EnterBody
  <2>1. Phase = 4 /\ Phase' = Phase
    BY <1>8, EnterView
  <2>2. KeepsDefs /\ loaded' = loaded
    BY <1>1, <1>8, EnterBodyEffect, KeepsBySet
  <2>3. Phase' # 1 /\ Phase # 1
    BY <2>1
  <2>4. QED
    BY <1>2, <1>3, <2>2, <2>3
<1>9. CASE TraversalDone
  <2>1. /\ Pops /\ (DoneWith("resolve") \/ DoneWith("create")) /\ def' = def /\ loaded' = loaded
    BY <1>1, <1>9, TraversalDoneEffect
  <2>2. Height >= 2 /\ Phase \in 1..4 /\ stack # <<>> /\ IsBelow(stack')
    BY <2>1, Shape DEF DoneWith, Pops
  <2>3. CASE Phase = 1
    BY <2>1, <2>2, <2>3, RequestPops DEF DoneWith
  <2>4. CASE Phase # 1
    BY <1>4, <2>1, <2>4, KeepsBySet DEF Pops
  <2>5. QED
    BY <2>3, <2>4
<1>10. CASE LinkDone
  <2>1. Pops /\ Top.op = "link" /\ def' = def /\ loaded' = loaded
    BY <1>1, <1>10, LinkDoneEffect DEF DoneWith
  <2>2. Phase # 1
    BY <2>1, Shape, OpPhase DEF Pops
  <2>3. QED
    BY <1>4, <2>1, <2>2, KeepsBySet DEF Pops
<1>11. CASE EvalReturns
  <2>1. Pops /\ Top.op = "base" /\ def' = def /\ loaded' = loaded
    BY <1>1, <1>11, EvalReturnsEffect
  <2>2. Height < 2
    BY <2>1, Shape DEF Pops
  <2>3. QED
    BY <1>4, <2>1, <2>2, KeepsBySet DEF Pops
<1>12. CASE InitNative \/ LeaveBody \/ UnwindEvaluate
  <2>1. Pops /\ loaded' = loaded /\ (Top.op = "evaluate" \/ Top.op = "body")
        /\ \E F : SetFlags(Top.mod, F)
    BY <1>1, <1>12, InitNativeEffect, LeaveBodyEffect, UnwindEvaluateEffect DEF DoneWith
  <2>2. Phase # 1
    BY <2>1, Shape, OpPhase DEF Pops
  <2>3. QED
    BY <1>4, <2>1, <2>2, KeepsBySet DEF Pops
<1>13. CASE UnwindResolve \/ UnwindLink \/ EvalFails
  <2>1. Pops /\ Unloads /\ def' = def
    BY <1>1, <1>13, UnwindEffect
  <2>2. /\ stack # <<>> /\ IsBelow(stack') /\ Phase \in 1..4
    BY <2>1, Shape DEF Pops
  <2>3. CASE Top.op = "resolve"
    <3>1. Height >= 2 /\ Phase = 1
      BY <2>2, <2>3, Shape, OpPhase
    <3>2. QED
      BY <2>1, <2>2, <2>3, <3>1, RequestPops DEF Unloads
  <2>4. CASE Top.op = "link"
    <3>1. loaded' = loaded /\ Phase # 1
      BY <2>1, <2>2, <2>4, Shape, OpPhase DEF Unloads
    <3>2. QED
      BY <1>4, <2>1, <3>1, KeepsBySet DEF Pops
  <2>5. CASE Top.op = "base"
    <3>1. Height = 1 /\ ~Loading
      BY <1>3, <2>2, <2>5, Shape
    <3>2. Height' = 0
      BY <2>2, <3>1 DEF IsBelow, Height
    <3>3. \A a \in loaded : \A i \in 1..Len(def[a].tgt) :
             def[a].tgt[i] # 0 /\ def[a].tgt[i] \in loaded
      BY <3>1, NoZero
    <3>4. \A a \in loaded' : \A i \in 1..Len(def[a].tgt) :
             def[a].tgt[i] # 0 /\ def[a].tgt[i] \in loaded'
      <4>1. CASE Top.i = 1
        BY <2>1, <2>5, <3>3, <4>1 DEF Unloads
      <4>2. CASE Top.i # 1
        <5>1. loaded' = {a \in loaded : Has(a, "evaluated")}
          BY <2>1, <2>5, <4>2 DEF Unloads
        <5>2. \A a \in loaded : Has(a, "evaluated") =>
                 \A i \in 1..Len(def[a].tgt) : Has(def[a].tgt[i], "evaluated")
          BY <1>1, TypeFacts DEF RanInv, Succeeded
        <5>3. QED
          BY <3>3, <5>1, <5>2
      <4>3. QED
        BY <4>1, <4>2
    <3>5. QED
      BY <2>1, <3>2, <3>4 DEF RequestInv
  <2>6. QED
    BY <2>1, <2>3, <2>4, <2>5 DEF Unloads
<1>14. ASSUME NEW n \in Natives, Module(n) PROVE RequestInv'
  <2>1. stack = <<>> /\ stack' = <<>> /\ Defines(n, <<>>, {}) /\ Len(<<>>) = 0
    BY <1>1, <1>14, ModuleEffect
  <2>2. QED
    BY <1>1, <2>1, RequestStarts
<1>15. ASSUME NEW m \in swift, Function(m) PROVE RequestInv'
  <2>1. /\ stack = <<>> /\ stack' = stack /\ loaded' = loaded /\ UNCHANGED <<text, nextDef, swift>>
        /\ \E F : def' = def \/ SetFlags(m, F)
    BY <1>1, <1>15, FunctionEffect
  <2>2. KeepsDefs
    BY <2>1, KeepsBySet
  <2>3. ~Loading
    BY <2>1 DEF Loading, Height
  <2>4. QED
    BY <1>2, <2>1, <2>2, <2>3
<1>16. ASSUME stack = <<>>, NEW name, NEW imports, Starts(name, imports) PROVE RequestInv'
  <2>1. Height' = 2 /\ Phase' = 1 /\ stack'[2] = Frame("resolve", nextDef, TRUE)
    BY <1>1, <1>16, StartView
  <2>2. Defines(name, imports, {"resolved"})
    BY <1>16 DEF Starts
  <2>3. QED
    BY <1>1, <1>16, <2>1, <2>2, RequestStarts
<1>17. ASSUME NEW imports \in RootTexts, Eval(imports) PROVE RequestInv'
  BY <1>1, <1>16, <1>17, EvalEffect
<1>18. ASSUME NEW n \in Names, Import(n) PROVE RequestInv'
  <2>1. stack = <<>> /\ (Starts(n, text[n]) \/ \E m : ImportFinds(n, m))
    BY <1>1, <1>18, ImportEffect
  <2>2. ASSUME NEW m, ImportFinds(n, m) PROVE RequestInv'
    <3>1. /\ Height' \in 1..2 /\ (Height' = 2 => stack'[2] = Frame("resolve", m, FALSE))
      BY <1>1, <2>1, <2>2, ImportView
    <3>2. \A j \in 2..Height' : ~stack'[j].owned
      <4>1. \A j \in 2..Height' : j = 2 /\ Height' = 2
        BY <3>1
      <4>2. Height' = 2 => ~stack'[2].owned
        BY <3>1, OwnedFrame
      <4>3. QED
        BY <4>1, <4>2
    <3>3. KeepsDefs /\ loaded' = loaded
      BY <2>2, KeepsBySet DEF ImportFinds
    <3>4. ~Loading
      BY <2>1 DEF Loading, Height
    <3>5. QED
      BY <1>1, <3>2, <3>3, <3>4, RequestKept DEF Loading
  <2>3. QED
    BY <1>16, <2>1, <2>2
<1>19. QED
  BY <1>5, <1>6, <1>7, <1>8, <1>9, <1>10, <1>11, <1>12, <1>13, <1>14, <1>15, <1>17, <1>18
  DEF Next, EngineNext, AppNext

\* Nothing is evaluated.
SameResults ==
    /\ ran' = ran
    /\ \A a \in Defined : \A f \in {"mark", "evaluated", "exc", "exported"} :
          f \in def'[a].flags <=> f \in def[a].flags

SameTargets ==
    \A a \in Defined : ran[a] = 1 =>
        /\ Len(def'[a].tgt) = Len(def[a].tgt)
        /\ \A i \in 1..Len(def[a].tgt) : def'[a].tgt[i] = def[a].tgt[i]

\* Succeeded(b) after the step, b being an address found before it.
NowSucceeded(b) ==
    /\ "evaluated" \in def'[b].flags /\ "exc" \notin def'[b].flags
    /\ def'[b].name \in Natives => "exported" \in def'[b].flags

LEMMA EvalQuiet ==
    ASSUME StackInv, StackInv', MarkInv, RanInv, SameNames, NewFlags, SameResults, SameTargets,
           nextDef' = nextDef \/ nextDef' = nextDef + 1,
           \A j \in 2..Height : Phase # 4,
           stack' = <<>> \/ Phase' # 4
    PROVE  MarkInv' /\ RanInv' /\ BodyInv' /\ BehindInv' /\ RootInv'
<1>1. TypeOK /\ TypeOK' /\ Defined \subseteq Addr /\ nextDef \in Nat
  BY TypeFacts DEF StackInv
<1>2. Defined \subseteq Defined'
  BY <1>1 DEF Defined
<1>3. \A j \in 2..Height' : Phase' # 4
  <2>1. stack' = <<>> => Height' = 0
    BY DEF Height
  <2>2. QED
    BY <2>1
<1>4. \A a \in Defined' \ Defined :
         /\ a \in Addr /\ ran[a] = 0
         /\ "mark" \notin def'[a].flags /\ "evaluated" \notin def'[a].flags
         /\ "exc" \notin def'[a].flags
  BY DEF NewFlags, RanInv
<1>5. \A a \in Defined : "mark" \notin def[a].flags
  BY DEF MarkInv, Has
<1>6. MarkInv'
  BY <1>4, <1>5 DEF SameResults, MarkInv, Has
<1>7. \A j \in 2..Height : stack[j].op # "body"
  <2>1. \A j \in 2..Height : Phase \in 1..4
    <3>1. \A j \in 2..Height : stack # <<>>
      BY <1>1, TypeFacts DEF Height
    <3>2. QED
      BY <3>1 DEF StackInv, BottomInv
  <2>2. QED
    BY <2>1, OpPhase DEF StackInv, FrameInv
<1>8. \A j \in 2..Height' : stack'[j].op # "body"
  <2>1. \A j \in 2..Height' : Phase' \in 1..4
    <3>1. \A j \in 2..Height' : stack' # <<>>
      BY DEF Height
    <3>2. QED
      BY <3>1 DEF StackInv, BottomInv
  <2>2. QED
    BY <1>3, <2>1, OpPhase DEF StackInv, FrameInv
<1>9. \A a \in Addr : ran'[a] \in {0, 1} /\ (a \notin Defined' => ran'[a] = 0)
  BY <1>2 DEF RanInv, SameResults
<1>10. ASSUME NEW b \in Defined, Succeeded(b)
       PROVE  NowSucceeded(b)
  BY <1>10 DEF NowSucceeded, Succeeded, SameResults, SameNames, IsNative, Has
<1>11. ASSUME NEW a \in Defined
       PROVE  /\ Has(a, "exc")' => Has(a, "evaluated")'
              /\ Has(a, "evaluated")' =>
                   ran'[a] = 1 /\ (IsNative(a)' => Has(a, "exported")' /\ ~Has(a, "exc")')
              /\ ran'[a] = 1 => Has(a, "evaluated")'
  BY <1>7 DEF RanInv, SameResults, SameNames, IsNative, Has
<1>12. ASSUME NEW a \in Defined, ran'[a] = 1
       PROVE  \A i \in 1..Len(def'[a].tgt) :
                  def'[a].tgt[i] # 0 /\ NowSucceeded(def'[a].tgt[i])
  <2>1. ran[a] = 1 /\ a \in Addr
    BY <1>1, <1>12 DEF SameResults
  <2> SUFFICES ASSUME NEW i \in 1..Len(def'[a].tgt)
               PROVE  def'[a].tgt[i] # 0 /\ NowSucceeded(def'[a].tgt[i])
    OBVIOUS
  <2>2. i \in 1..Len(def[a].tgt) /\ def'[a].tgt[i] = def[a].tgt[i]
    BY <2>1 DEF SameTargets
  <2>3. def[a].tgt[i] # 0 /\ Succeeded(def[a].tgt[i])
    BY <2>1, <2>2 DEF RanInv
  <2>4. def[a].tgt[i] \in Defined
    BY <1>1, <2>1, <2>2, <2>3, TypeFacts
  <2>5. NowSucceeded(def[a].tgt[i])
    BY <1>10, <2>3, <2>4
  <2>6. QED
    BY <2>2, <2>3, <2>5
<1>13. RanInv'
  <2>1. ASSUME NEW a \in Defined'
        PROVE  /\ Has(a, "exc")' => Has(a, "evaluated")'
               /\ Has(a, "evaluated")' =>
                   ran'[a] = 1 /\ (IsNative(a)' => Has(a, "exported")' /\ ~Has(a, "exc")')
               /\ ran'[a] = 1 => Has(a, "evaluated")'
               /\ ran'[a] = 1 => \A i \in 1..Len(def'[a].tgt) :
                      def'[a].tgt[i] # 0 /\ NowSucceeded(def'[a].tgt[i])
    <3>1. CASE a \in Defined
      BY <1>11, <1>12, <3>1
    <3>2. CASE a \notin Defined
      BY <1>4, <3>2 DEF SameResults, Has
    <3>3. QED
      BY <3>1, <3>2
  <2>2. QED
    BY <1>9, <2>1 DEF RanInv, Succeeded, NowSucceeded, Has, IsNative
<1>14. BodyInv' /\ BehindInv'
  BY <1>3, <1>8 DEF BodyInv, BehindInv
<1>15. RootInv'
  BY DEF RootInv
<1>16. QED
  BY <1>6, <1>13, <1>14, <1>15

ResultInv == MarkInv /\ RanInv /\ BodyInv /\ BehindInv /\ RootInv

SetupFlags == {"resolved", "created", "linked", "unbound"}

LEMMA QuietFlags ==
    ASSUME TypeOK, ran' = ran, NEW m, NEW f \in SetupFlags,
           def' = def \/ SetFlags(m, def[m].flags \cup {f})
    PROVE  SameResults /\ SameTargets
<1>1. Defined \subseteq Addr
  BY TypeFacts
<1>2. CASE def' = def
  BY <1>2 DEF SameResults, SameTargets
<1>3. CASE SetFlags(m, def[m].flags \cup {f})
  BY <1>1, <1>3 DEF SetFlags, SameResults, SameTargets, SetupFlags
<1>4. QED
  BY <1>2, <1>3

LEMMA QuietDefines ==
    ASSUME TypeOK, ran' = ran, NEW name, NEW imports, NEW F, Defines(name, imports, F)
    PROVE  SameResults /\ SameTargets
<1>1. Defined \subseteq Addr /\ nextDef \notin Defined
  BY TypeFacts DEF Defined
<1>2. \A a \in Defined : def'[a] = def[a]
  BY <1>1 DEF Defines
<1>3. QED
  BY <1>2 DEF SameResults, SameTargets

\* A request is met for the first time, so by no module that has run.
LEMMA QuietMeets ==
    ASSUME StackInv, ResolvedInv, RanInv, ran' = ran, Height >= 2, Phase = 1,
           Top.i \in 1..Len(def[Top.mod].req), NEW m, Meets(Top.mod, Top.i, m)
    PROVE  SameResults /\ SameTargets
<1>1. TypeOK /\ Height \in Nat /\ Height \in 2..Height /\ Top = stack[Height] /\ Top.i \in Nat
      /\ Top.mod \in Addr /\ Top.mod \in Defined
  <2>1. TypeOK /\ stack # <<>>
    BY TypeFacts DEF StackInv, Height
  <2>2. QED
    BY <2>1, TopType
<1>2. Defined \subseteq Addr /\ Len(def[Top.mod].req) = Len(def[Top.mod].tgt)
  BY <1>1, TypeFacts
<1>3. SameResults
  BY <1>2 DEF Meets, SameResults
<1>4. def[Top.mod].tgt[Top.i] = 0
  <2>1. Top.i \in 1..Len(def[Top.mod].tgt) /\ Top.i >= Top.i
    BY <1>1, <1>2
  <2>2. QED
    BY <1>1, <2>1 DEF ResolvedInv
<1>5. ran[Top.mod] # 1
  BY <1>1, <1>2, <1>4 DEF RanInv
<1>6. SameTargets
  BY <1>2, <1>5 DEF Meets, SameTargets
<1>7. QED
  BY <1>3, <1>6

LEMMA NextDefStep ==
    ASSUME TypeOK, Next
    PROVE  nextDef' = nextDef \/ nextDef' = nextDef + 1
BY DefsStep DEF KeepsDefs, MeetsRequest, AddsDef, ResolveFinds, Defines

\* A step that does not belong to the last traversal evaluates nothing.
LEMMA QuietNext ==
    ASSUME ~Reentrant, StackInv, ResolvedInv, MarkInv, RanInv, Next,
           \A j \in 2..Height : Phase # 4, stack' = <<>> \/ Phase' # 4
    PROVE  ResultInv'
<1>1. TypeOK /\ SameNames /\ NewFlags /\ StackInv'
  BY NamesSame, NewFlagsStep, TypeNext, FramesNext DEF StackInv
<1>2. nextDef' = nextDef \/ nextDef' = nextDef + 1
  BY <1>1, NextDefStep
<1>3. Height >= 2 => Phase # 4
  <2>1. Height \in Nat
    BY <1>1, TypeFacts
  <2>2. Height >= 2 => Height \in 2..Height
    BY <2>1
  <2>3. QED
    BY <2>2
<1>4. CASE ResolveRequest
  <2>1. /\ stack # <<>> /\ Top.op = "resolve" /\ Top.i \in 1..Len(def[Top.mod].req)
        /\ (\E m : ResolveFinds(m)) \/ ResolveLoads \/ ResolveFails
        /\ ran' = ran
    BY <1>1, <1>4, ResolveEffect
  <2>2. Height >= 2 /\ Phase = 1
    BY <2>1, Shape, OpPhase
  <2>3. ASSUME NEW m, ResolveFinds(m) PROVE SameResults /\ SameTargets
    BY <2>1, <2>2, <2>3, QuietMeets DEF ResolveFinds
  <2>4. ASSUME ResolveLoads PROVE SameResults /\ SameTargets
    BY <1>1, <2>1, <2>4, QuietDefines DEF ResolveLoads
  <2>5. ASSUME ResolveFails PROVE SameResults /\ SameTargets
    BY <2>1, <2>5 DEF ResolveFails, SameResults, SameTargets
  <2>6. SameResults /\ SameTargets
    BY <2>1, <2>3, <2>4, <2>5
  <2>7. QED
    BY <1>1, <1>2, <2>6, EvalQuiet DEF ResultInv
<1>5. ASSUME NEW op \in {"create", "link"}, NEW m, Visits(op, m), ran' = ran
      PROVE  SameResults /\ SameTargets
  <2>1. FlagOf(op) \in SetupFlags
    BY DEF FlagOf, SetupFlags
  <2>2. def' = def \/ SetFlags(m, def[m].flags \cup {FlagOf(op)})
    BY <1>5 DEF Visits, VisitFaults, VisitPushes, VisitSkips
  <2>3. QED
    BY <1>1, <1>5, <2>1, <2>2, QuietFlags
<1>6. ASSUME NEW op \in {"create", "link", "evaluate"}, NextRequest(op)
      PROVE  ResultInv'
  <2>1. /\ stack # <<>> /\ Top.op = op /\ Visits(op, def[Top.mod].tgt[Top.i]) /\ ran' = ran
    BY <1>1, <1>6, RequestEffect
  <2>2. op # "evaluate"
    BY <1>3, <2>1, Shape, OpPhase
  <2>3. SameResults /\ SameTargets
    BY <1>5, <2>1, <2>2
  <2>4. QED
    BY <1>1, <1>2, <2>3, EvalQuiet DEF ResultInv
<1>7. CASE NextStage
  <2>1. /\ Stages[Phase] \in {"create", "link", "evaluate"} /\ Phase \in 1..3
        /\ Phase' = Phase + 1 /\ stack' # <<>> /\ ran' = ran
        /\ Visits(Stages[Phase], stack[1].mod)
    BY <1>7, StageView DEF Visits
  <2>2. Stages[Phase] # "evaluate"
    <3>1. Phase \in 1..2
      BY <2>1
    <3>2. QED
      BY <3>1 DEF Stages
  <2>3. SameResults /\ SameTargets
    BY <1>5, <2>1, <2>2
  <2>4. QED
    BY <1>1, <1>2, <2>3, EvalQuiet DEF ResultInv
<1>8. CASE EnterBody
  BY <1>3, <1>8, EnterView
<1>9. CASE TraversalDone \/ LinkDone \/ EvalReturns \/ UnwindResolve \/ UnwindLink \/ EvalFails
  <2>1. def' = def /\ ran' = ran
    BY <1>1, <1>9, TraversalDoneEffect, LinkDoneEffect, EvalReturnsEffect, UnwindEffect
  <2>2. SameResults /\ SameTargets
    BY <2>1 DEF SameResults, SameTargets
  <2>3. QED
    BY <1>1, <1>2, <2>2, EvalQuiet DEF ResultInv
<1>10. CASE InitNative \/ LeaveBody \/ UnwindEvaluate
  <2>1. stack # <<>> /\ (Top.op = "evaluate" \/ Top.op = "body")
    BY <1>1, <1>10, InitNativeEffect, LeaveBodyEffect, UnwindEvaluateEffect DEF DoneWith, Pops
  <2>2. QED
    BY <1>3, <2>1, Shape, OpPhase
<1>11. ASSUME NEW n \in Natives, Module(n) PROVE ResultInv'
  <2>1. Defines(n, <<>>, {}) /\ ran' = ran
    BY <1>1, <1>11, ModuleEffect
  <2>2. SameResults /\ SameTargets
    BY <1>1, <2>1, QuietDefines
  <2>3. QED
    BY <1>1, <1>2, <2>2, EvalQuiet DEF ResultInv
<1>12. ASSUME NEW m \in swift, Function(m) PROVE ResultInv'
  <2>1. ran' = ran /\ (def' = def \/ SetFlags(m, def[m].flags \cup {"unbound"}))
    BY <1>1, <1>12, FunctionEffect
  <2>2. SameResults /\ SameTargets
    BY <1>1, <2>1, QuietFlags DEF SetupFlags
  <2>3. QED
    BY <1>1, <1>2, <2>2, EvalQuiet DEF ResultInv
<1>13. ASSUME NEW name, NEW imports, Starts(name, imports) PROVE ResultInv'
  <2>1. Defines(name, imports, {"resolved"}) /\ ran' = ran
    BY <1>13 DEF Starts
  <2>2. SameResults /\ SameTargets
    BY <1>1, <2>1, QuietDefines
  <2>3. QED
    BY <1>1, <1>2, <2>2, EvalQuiet DEF ResultInv
<1>14. ASSUME NEW imports \in RootTexts, Eval(imports) PROVE ResultInv'
  BY <1>1, <1>13, <1>14, EvalEffect
<1>15. ASSUME NEW n \in Names, Import(n) PROVE ResultInv'
  <2>1. Starts(n, text[n]) \/ \E m : ImportFinds(n, m)
    BY <1>1, <1>15, ImportEffect
  <2>2. ASSUME NEW m, ImportFinds(n, m) PROVE ResultInv'
    <3>1. ran' = ran /\ SetFlags(m, def[m].flags \cup {"resolved"})
      BY <2>2 DEF ImportFinds
    <3>2. SameResults /\ SameTargets
      BY <1>1, <3>1, QuietFlags DEF SetupFlags
    <3>3. QED
      BY <1>1, <1>2, <3>2, EvalQuiet DEF ResultInv
  <2>3. QED
    BY <1>13, <2>1, <2>2
<1>16. QED
  BY <1>4, <1>6, <1>7, <1>8, <1>9, <1>10, <1>11, <1>12, <1>14, <1>15
  DEF Next, EngineNext, AppNext

-----------------------------------------------------------------------------
(***************************************************************************)
(* The last traversal.                                                     *)
(***************************************************************************)
InEvaluation == Height >= 2 /\ Phase = 4

\* What has succeeded stays so.
SuccessKept == \A b \in Defined : Succeeded(b) => NowSucceeded(b)

InBody(a) == \E j \in 2..Height : stack[j].op = "body" /\ stack[j].mod = a
NowInBody(a) == \E j \in 2..Height' : stack'[j].op = "body" /\ stack'[j].mod = a

\* One module is marked, run or given up.
LEMMA RanKept ==
    ASSUME TypeOK, RanInv, SameNames, KeepsDefs, SuccessKept, NEW m \in Defined,
           \A a \in Addr : a # m => ran'[a] = ran[a],
           \A a \in Defined : a # m => def'[a].flags = def[a].flags /\ (InBody(a) => NowInBody(a)),
           ran'[m] \in {0, 1},
           "exc" \in def'[m].flags => "evaluated" \in def'[m].flags,
           "evaluated" \in def'[m].flags =>
               /\ ran'[m] = 1
               /\ IsNative(m) => "exported" \in def'[m].flags /\ "exc" \notin def'[m].flags,
           ran'[m] = 1 =>
               /\ "evaluated" \in def'[m].flags \/ NowInBody(m)
               /\ \A i \in 1..Len(def[m].tgt) : def[m].tgt[i] # 0 /\ Succeeded(def[m].tgt[i])
    PROVE  RanInv'
<1>1. Defined \subseteq Addr /\ Defined' = Defined
  BY TypeFacts DEF KeepsDefs, Defined
<1>2. \A a \in Addr : ran'[a] \in {0, 1} /\ (a \notin Defined' => ran'[a] = 0)
  BY <1>1 DEF RanInv
<1>3. ASSUME NEW a \in Defined
      PROVE  /\ Has(a, "exc")' => Has(a, "evaluated")'
             /\ Has(a, "evaluated")' =>
                   ran'[a] = 1 /\ (IsNative(a)' => Has(a, "exported")' /\ ~Has(a, "exc")')
             /\ ran'[a] = 1 => Has(a, "evaluated")' \/ NowInBody(a)
  <2>1. CASE a = m
    <3>1. (IsNative(m)' <=> IsNative(m))
      BY DEF IsNative, SameNames
    <3>2. QED
      BY <2>1, <3>1 DEF Has
  <2>2. CASE a # m
    <3>1. /\ ran'[a] = ran[a] /\ def'[a].flags = def[a].flags /\ (InBody(a) => NowInBody(a))
          /\ (IsNative(a)' <=> IsNative(a))
      BY <1>1, <2>2 DEF IsNative, SameNames
    <3>2. ran[a] = 1 => Has(a, "evaluated") \/ InBody(a)
      BY DEF RanInv, InBody
    <3>3. QED
      BY <3>1, <3>2 DEF RanInv, Has
  <2>3. QED
    BY <2>1, <2>2
<1>4. ASSUME NEW a \in Defined, ran'[a] = 1
      PROVE  \A i \in 1..Len(def'[a].tgt) :
                 def'[a].tgt[i] # 0 /\ NowSucceeded(def'[a].tgt[i])
  <2>1. \A i \in 1..Len(def[a].tgt) : def[a].tgt[i] # 0 /\ Succeeded(def[a].tgt[i])
    <3>1. CASE a = m
      BY <1>4, <3>1
    <3>2. CASE a # m
      BY <1>1, <1>4, <3>2 DEF RanInv
    <3>3. QED
      BY <3>1, <3>2
  <2>2. \A i \in 1..Len(def[a].tgt) : def[a].tgt[i] # 0 => def[a].tgt[i] \in Defined
    BY <1>1, TypeFacts
  <2>3. def'[a].tgt = def[a].tgt
    BY <1>1 DEF KeepsDefs
  <2>4. QED
    BY <2>1, <2>2, <2>3 DEF SuccessKept
<1>5. QED
  BY <1>1, <1>2, <1>3, <1>4 DEF RanInv, NowInBody, Succeeded, NowSucceeded, Has, IsNative

\* What the frame on top is about to do: it has all requests behind it.
LEMMA TopDone ==
    ASSUME StackInv, RequestInv, BehindInv, InEvaluation, ~failing, DoneWith("evaluate")
    PROVE  \A i \in 1..Len(def[Top.mod].tgt) :
               def[Top.mod].tgt[i] # 0 /\ Succeeded(def[Top.mod].tgt[i])
<1>1. TypeOK /\ Height \in Nat /\ Height \in 2..Height /\ Top = stack[Height] /\ Top.i \in Nat
      /\ Top.mod \in Addr
  <2>1. TypeOK /\ stack # <<>> /\ Height >= 2
    BY TypeFacts DEF StackInv, Height, InEvaluation
  <2>2. QED
    BY <2>1, TopType
<1>2. ~Loading /\ Top.mod \in loaded
  BY <1>1 DEF InEvaluation, Loading, StackInv, FrameInv
<1>3. Len(def[Top.mod].tgt) \in Nat
  BY <1>1, TypeFacts
<1>4. \A i \in 1..Len(def[Top.mod].tgt) : i < Top.i
  BY <1>1, <1>3 DEF DoneWith
<1>5. \A i \in 1..Len(def[Top.mod].tgt) : Succeeded(def[Top.mod].tgt[i])
  BY <1>1, <1>4 DEF BehindInv, InEvaluation, DoneWith
<1>6. QED
  BY <1>2, <1>5, NoZero

\* In an evaluation the module on top has not run, unless this is its body.
LEMMA TopNotRun ==
    ASSUME StackInv, RanInv, BehindInv, InEvaluation, Top.op = "evaluate"
    PROVE  ran[Top.mod] = 0 /\ ~Has(Top.mod, "evaluated") /\ ~Has(Top.mod, "exc")
<1>1. TypeOK /\ Height \in Nat /\ Height \in 2..Height /\ Top = stack[Height]
      /\ Top.mod \in Addr /\ Top.mod \in Defined
  <2>1. TypeOK /\ stack # <<>> /\ Height >= 2
    BY TypeFacts DEF StackInv, Height, InEvaluation
  <2>2. QED
    BY <2>1, TopType
<1>2. ~Has(Top.mod, "evaluated")
  BY <1>1 DEF BehindInv, InEvaluation
<1>3. \A j \in 2..Height : stack[j].op = "body" => stack[j].mod # Top.mod
  BY <1>1 DEF StackInv, FrameInv
<1>4. ran[Top.mod] # 1
  BY <1>1, <1>2, <1>3 DEF RanInv
<1>5. QED
  BY <1>1, <1>2, <1>4 DEF RanInv

LEMMA FrameTargets ==
    ASSUME StackInv, RequestInv, InEvaluation
    PROVE  \A j \in 2..Height : \A i \in 1..Len(def[stack[j].mod].tgt) :
               def[stack[j].mod].tgt[i] # 0 /\ def[stack[j].mod].tgt[i] \in loaded
BY NoZero DEF StackInv, FrameInv, InEvaluation, Loading

LEMMA BehindAgain ==
    ASSUME \A j \in 2..Height' :
               /\ "evaluated" \notin def'[stack'[j].mod].flags
               /\ stack'[j].op = "evaluate" =>
                     \A i \in 1..Len(def'[stack'[j].mod].tgt) : i < stack'[j].i =>
                         \/ NowSucceeded(def'[stack'[j].mod].tgt[i])
                         \/ /\ i = stack'[j].i - 1
                            /\ failing' \/ (/\ j < Height'
                                            /\ stack'[j + 1].mod = def'[stack'[j].mod].tgt[i])
    PROVE  BehindInv'
BY DEF BehindInv, Succeeded, NowSucceeded, Has, IsNative

\* The frames from n upwards are new or have moved; of each frame below, the
\* one above it is there still, or has returned and says so.
LEMMA BehindKept ==
    ASSUME StackInv, RequestInv, BehindInv, InEvaluation, SuccessKept, KeepsDefs, Phase' = 4,
           failing => failing', NEW n,
           \A j \in 2..Height' : j < n =>
               /\ j \in 2..Height /\ j < Height /\ stack'[j] = stack[j]
               /\ "evaluated" \notin def'[stack[j].mod].flags
               /\ \/ NowSucceeded(stack[j + 1].mod)
                  \/ failing'
                  \/ j < Height' /\ stack'[j + 1].mod = stack[j + 1].mod,
           \A j \in 2..Height' : ~(j < n) =>
               /\ "evaluated" \notin def'[stack'[j].mod].flags
               /\ stack'[j].op = "evaluate" =>
                     \A i \in 1..Len(def[stack'[j].mod].tgt) : i < stack'[j].i =>
                         \/ NowSucceeded(def[stack'[j].mod].tgt[i])
                         \/ /\ i = stack'[j].i - 1
                            /\ failing' \/ (/\ j < Height'
                                            /\ stack'[j + 1].mod = def[stack'[j].mod].tgt[i]),
           \A j \in 2..Height' : stack'[j].mod \in Addr
    PROVE  BehindInv'
<1>1. ASSUME NEW j \in 2..Height'
      PROVE  /\ "evaluated" \notin def'[stack'[j].mod].flags
             /\ stack'[j].op = "evaluate" =>
                   \A i \in 1..Len(def[stack'[j].mod].tgt) : i < stack'[j].i =>
                       \/ NowSucceeded(def[stack'[j].mod].tgt[i])
                       \/ /\ i = stack'[j].i - 1
                          /\ failing' \/ (/\ j < Height'
                                          /\ stack'[j + 1].mod = def[stack'[j].mod].tgt[i])
  <2>1. CASE ~(j < n)
    BY <2>1
  <2>2. CASE j < n
    <3>1. /\ j \in 2..Height /\ j < Height /\ stack'[j] = stack[j]
          /\ "evaluated" \notin def'[stack[j].mod].flags
          /\ \/ NowSucceeded(stack[j + 1].mod)
             \/ failing'
             \/ j < Height' /\ stack'[j + 1].mod = stack[j + 1].mod
      BY <2>2
    <3>2. ASSUME stack[j].op = "evaluate",
                 NEW i \in 1..Len(def[stack[j].mod].tgt), i < stack[j].i
          PROVE  \/ NowSucceeded(def[stack[j].mod].tgt[i])
                 \/ /\ i = stack[j].i - 1
                    /\ failing' \/ (/\ j < Height'
                                    /\ stack'[j + 1].mod = def[stack[j].mod].tgt[i])
      <4>1. \/ Succeeded(def[stack[j].mod].tgt[i])
            \/ /\ i = stack[j].i - 1
               /\ failing \/ stack[j + 1].mod = def[stack[j].mod].tgt[i]
        BY <3>1, <3>2 DEF BehindInv, InEvaluation
      <4>2. CASE Succeeded(def[stack[j].mod].tgt[i])
        <5>1. def[stack[j].mod].tgt[i] \in loaded
          BY <3>1, FrameTargets
        <5>2. loaded \subseteq Defined
          BY TypeFacts DEF StackInv
        <5>3. QED
          BY <4>2, <5>1, <5>2 DEF SuccessKept
      <4>3. CASE /\ i = stack[j].i - 1
                 /\ failing \/ stack[j + 1].mod = def[stack[j].mod].tgt[i]
        BY <3>1, <4>3
      <4>4. QED
        BY <4>1, <4>2, <4>3
    <3>3. QED
      BY <3>1, <3>2
  <2>3. QED
    BY <2>1, <2>2
<1>2. \A j \in 2..Height' : def'[stack'[j].mod].tgt = def[stack'[j].mod].tgt
  BY DEF KeepsDefs
<1>3. ASSUME NEW j \in 2..Height'
      PROVE  /\ "evaluated" \notin def'[stack'[j].mod].flags
             /\ stack'[j].op = "evaluate" =>
                   \A i \in 1..Len(def'[stack'[j].mod].tgt) : i < stack'[j].i =>
                       \/ NowSucceeded(def'[stack'[j].mod].tgt[i])
                       \/ /\ i = stack'[j].i - 1
                          /\ failing' \/ (/\ j < Height'
                                          /\ stack'[j + 1].mod = def'[stack'[j].mod].tgt[i])
  <2>1. def'[stack'[j].mod].tgt = def[stack'[j].mod].tgt
    BY <1>2
  <2>2. QED
    BY <1>1, <2>1
<1>4. QED
  BY <1>3, BehindAgain

LEMMA EnterResults ==
    ASSUME StackInv, RequestInv, ResultInv, EnterBody
    PROVE  ResultInv'
<1>1. TypeOK
  BY DEF StackInv
<1>2. /\ DoneWith("evaluate") /\ ~failing /\ ~IsNative(Top.mod) /\ CountsRun(Top.mod)
      /\ UNCHANGED <<text, def, loaded, nextDef, swift, failing>> /\ stack # <<>>
  BY <1>1, EnterBodyEffect
<1>3. /\ Height >= 2 /\ Height' = Height /\ Height \in Nat
      /\ Phase' = Phase /\ Phase = 4 /\ stack'[1] = stack[1] /\ Top = stack[Height]
      /\ stack'[Height].op = "body" /\ stack' # <<>>
      /\ \A j \in 2..Height : /\ stack'[j].mod = stack[j].mod
                              /\ stack'[j].i = stack[j].i
                              /\ j # Height => stack'[j] = stack[j]
  BY EnterView
<1>4. InEvaluation /\ Height \in 2..Height /\ Top.op = "evaluate"
  BY <1>2, <1>3 DEF InEvaluation, DoneWith
<1>5. Top.mod \in Defined /\ Top.mod \in Addr /\ Defined \subseteq Addr
  BY <1>1, <1>2, TopType, TypeFacts
<1>6. ran[Top.mod] = 0 /\ ~Has(Top.mod, "evaluated") /\ ~Has(Top.mod, "exc")
  BY <1>4, TopNotRun DEF ResultInv
<1>7. \A i \in 1..Len(def[Top.mod].tgt) :
          def[Top.mod].tgt[i] # 0 /\ Succeeded(def[Top.mod].tgt[i])
  BY <1>2, <1>4, TopDone DEF ResultInv
<1>8. ran'[Top.mod] = 1 /\ \A a \in Addr : a # Top.mod => ran'[a] = ran[a]
  <2>1. ran'[Top.mod] = ran[Top.mod] + 1
    BY <1>2, <1>5 DEF CountsRun
  <2>2. ran'[Top.mod] = 1
    BY <1>6, <2>1
  <2>3. \A a \in Addr : a # Top.mod => ran'[a] = ran[a]
    BY <1>2 DEF CountsRun
  <2>4. QED
    BY <2>2, <2>3
<1>9. NowInBody(Top.mod)
  BY <1>3, <1>4 DEF NowInBody
<1>10. \A j \in 2..Height : stack[j].op # "body"
  BY <1>3, <1>4 DEF StackInv, FrameInv
<1>11. \A a \in Defined : ~InBody(a)
  BY <1>10 DEF InBody
<1>12. SameNames /\ KeepsDefs /\ SuccessKept
  <2>1. SameNames /\ KeepsDefs
    BY <1>2 DEF SameNames, KeepsDefs
  <2>2. SuccessKept
    BY <1>2 DEF SuccessKept, Succeeded, NowSucceeded, Has, IsNative
  <2>3. QED
    BY <2>1, <2>2
<1>13. RanInv'
  <2>1. /\ "exc" \in def'[Top.mod].flags => "evaluated" \in def'[Top.mod].flags
        /\ "evaluated" \notin def'[Top.mod].flags
    BY <1>2, <1>6 DEF Has
  <2>2. \A a \in Defined : def'[a].flags = def[a].flags
    BY <1>2
  <2>3. ran'[Top.mod] \in {0, 1}
    BY <1>8
  <2>4. QED
    BY <1>1, <1>5, <1>7, <1>8, <1>9, <1>11, <1>12, <2>1, <2>2, <2>3, RanKept DEF ResultInv
<1>14. MarkInv'
  BY <1>2, <1>3 DEF ResultInv, MarkInv, Has, Defined
<1>15. BodyInv'
  <2>1. \A j \in 2..Height' : stack'[j].op = "body" => j = Height
    BY <1>3, <1>10
  <2>2. ~IsNative(Top.mod)
    BY <1>2
  <2>3. def'[stack'[Height].mod].name \notin Natives /\ ran'[stack'[Height].mod] = 1
    BY <1>2, <1>3, <1>4, <1>8 DEF IsNative
  <2>4. QED
    BY <2>1, <2>3 DEF BodyInv, IsNative
<1>16. BehindInv'
  <2>1. \A j \in 2..Height' : j < Height =>
            /\ j \in 2..Height /\ stack'[j] = stack[j]
            /\ "evaluated" \notin def'[stack[j].mod].flags
            /\ j < Height' /\ stack'[j + 1].mod = stack[j + 1].mod
    BY <1>2, <1>3, <1>4 DEF ResultInv, BehindInv, InEvaluation, Has
  <2>2. \A j \in 2..Height' : ~(j < Height) =>
            /\ "evaluated" \notin def'[stack'[j].mod].flags
            /\ stack'[j].op # "evaluate"
    BY <1>2, <1>3, <1>4, <1>6 DEF Has
  <2>3. \A j \in 2..Height' : stack'[j].mod \in Addr
    BY <1>1, <1>3, TypeFacts
  <2>4. BehindInv /\ Phase' = 4 /\ (failing => failing')
    BY <1>2, <1>3 DEF ResultInv
  <2>5. QED
    BY <1>1, <1>4, <1>12, <2>1, <2>2, <2>3, <2>4, BehindKept
<1>17. RootInv'
  BY <1>2, <1>3, <1>4 DEF ResultInv, RootInv, Has
<1>18. QED
  BY <1>13, <1>14, <1>15, <1>16, <1>17 DEF ResultInv

\* A frame of the last traversal returns: its module is not marked any more.
LEMMA MarkPop ==
    ASSUME StackInv, MarkInv, InEvaluation, IsBelow(stack'), nextDef' = nextDef,
           NEW F, SetFlags(Top.mod, F), "mark" \notin F
    PROVE  MarkInv'
<1>1. TypeOK /\ Height \in Nat /\ Height >= 2 /\ Defined \subseteq Addr /\ Defined' = Defined
  BY TypeFacts DEF StackInv, InEvaluation, Defined
<1>2. stack # <<>> /\ Top = stack[Height]
  BY <1>1, TopType DEF Height
<1>3. Height' = Height - 1 /\ Phase' = 4 /\ \A j \in 2..Height' : stack'[j] = stack[j]
  BY <1>1, PopView DEF InEvaluation
<1>4. ASSUME NEW a \in Defined, "mark" \in def'[a].flags
      PROVE  \E j \in 2..Height' : Phase' = 4 /\ stack'[j].mod = a
  <2>1. a # Top.mod /\ Has(a, "mark")
    BY <1>1, <1>4 DEF SetFlags, Has
  <2>2. PICK j \in 2..Height : stack[j].mod = a
    BY <2>1 DEF MarkInv
  <2>3. j # Height
    BY <1>2, <2>1, <2>2
  <2>4. j \in 2..Height'
    BY <1>1, <1>3, <2>3
  <2>5. QED
    BY <1>3, <2>2, <2>4
<1>5. QED
  BY <1>1, <1>4 DEF MarkInv, Has

\* The code of the module on top has run, and thrown or not.
LEMMA RunReturns ==
    ASSUME StackInv, RequestInv, ResultInv, InEvaluation, Pops, loaded' = loaded,
           NEW E \in SUBSET {"exported", "exc"},
           SetFlags(Top.mod, AfterRun(Top.mod) \cup E),
           ~failing, failing' \in BOOLEAN, "exc" \in E <=> failing',
           IsNative(Top.mod) => "exported" \in E /\ "exc" \notin E,
           ran'[Top.mod] = 1, \A a \in Addr : a # Top.mod => ran'[a] = ran[a],
           \A i \in 1..Len(def[Top.mod].tgt) :
               def[Top.mod].tgt[i] # 0 /\ Succeeded(def[Top.mod].tgt[i])
    PROVE  ResultInv'
<1>1. TypeOK /\ Height \in Nat /\ Height >= 2 /\ Height \in 2..Height /\ Defined \subseteq Addr
  BY TypeFacts DEF StackInv, InEvaluation
<1>2. /\ stack # <<>> /\ IsBelow(stack') /\ Top = stack[Height]
      /\ Top.mod \in Addr /\ Top.mod \in Defined
  BY <1>1, TopType DEF Pops
<1>3. /\ stack' # <<>> /\ Height' = Height - 1 /\ Phase' = 4 /\ stack'[1] = stack[1]
      /\ \A j \in 2..Height' : /\ j \in 2..Height /\ j # Height
                               /\ stack'[j] = stack[j] /\ stack[j].mod # Top.mod
  BY <1>1, <1>2, PopView DEF InEvaluation
<1>4. ~Has(Top.mod, "evaluated") /\ ~Has(Top.mod, "exc")
  BY <1>1, <1>2 DEF ResultInv, BehindInv, RanInv, InEvaluation
<1>5. /\ "evaluated" \in def'[Top.mod].flags /\ "mark" \notin AfterRun(Top.mod) \cup E
      /\ def'[Top.mod].name = def[Top.mod].name
      /\ \A a \in Addr : a # Top.mod => def'[a].flags = def[a].flags
  BY <1>2 DEF SetFlags, AfterRun
<1>6. /\ "exc" \in def'[Top.mod].flags <=> failing'
      /\ "exported" \in E => "exported" \in def'[Top.mod].flags
  BY <1>2, <1>4 DEF SetFlags, AfterRun, Has
<1>7. KeepsDefs /\ SameNames
  <2>1. KeepsDefs
    BY KeepsBySet DEF Pops
  <2>2. SameNames
    BY <1>1, <2>1 DEF KeepsDefs, SameNames
  <2>3. QED
    BY <2>1, <2>2
<1>8. SuccessKept
  <2>1. ASSUME NEW b \in Defined, Succeeded(b) PROVE NowSucceeded(b)
    <3>1. b # Top.mod
      BY <1>4, <2>1 DEF Succeeded
    <3>2. def'[b].flags = def[b].flags /\ def'[b].name = def[b].name
      BY <1>1, <1>5, <1>7, <3>1 DEF SameNames
    <3>3. QED
      BY <2>1, <3>2 DEF Succeeded, NowSucceeded, Has, IsNative
  <2>2. QED
    BY <2>1 DEF SuccessKept
<1>9. ~failing' => NowSucceeded(Top.mod)
  BY <1>5, <1>6 DEF NowSucceeded, IsNative
<1>10. RanInv'
  <2>1. ASSUME NEW a \in Defined, a # Top.mod
        PROVE  def'[a].flags = def[a].flags /\ (InBody(a) => NowInBody(a))
    <3>1. ASSUME InBody(a) PROVE NowInBody(a)
      <4>1. PICK j \in 2..Height : stack[j].op = "body" /\ stack[j].mod = a
        BY <3>1 DEF InBody
      <4>2. j # Height
        BY <1>2, <2>1, <4>1
      <4>3. j \in 2..Height'
        BY <1>1, <1>3, <4>2
      <4>4. QED
        BY <1>3, <4>1, <4>3 DEF NowInBody
    <3>2. QED
      BY <1>1, <1>5, <2>1, <3>1
  <2>2. ran'[Top.mod] \in {0, 1} /\ RanInv
    BY DEF ResultInv
  <2>3. IsNative(Top.mod) => "exported" \in def'[Top.mod].flags /\ "exc" \notin def'[Top.mod].flags
    BY <1>6
  <2>4. QED
    BY <1>1, <1>2, <1>5, <1>7, <1>8, <2>1, <2>2, <2>3, RanKept
<1>11. MarkInv'
  BY <1>2, <1>5, MarkPop DEF ResultInv, Pops
<1>12. \A j \in 2..Height' : stack'[j].op # "body"
  BY <1>3 DEF StackInv, FrameInv
<1>13. BodyInv'
  BY <1>12 DEF BodyInv
<1>14. BehindInv'
  <2>1. ASSUME NEW j \in 2..Height'
        PROVE  /\ j \in 2..Height /\ j < Height /\ stack'[j] = stack[j]
               /\ "evaluated" \notin def'[stack[j].mod].flags
               /\ \/ NowSucceeded(stack[j + 1].mod)
                  \/ failing'
                  \/ j < Height' /\ stack'[j + 1].mod = stack[j + 1].mod
    <3>1. /\ j \in 2..Height /\ j < Height /\ stack'[j] = stack[j] /\ stack[j].mod # Top.mod
          /\ stack[j].mod \in Addr
      BY <1>1, <1>3, TypeFacts
    <3>2. "evaluated" \notin def'[stack[j].mod].flags
      BY <1>5, <3>1 DEF ResultInv, BehindInv, InEvaluation, Has
    <3>3. CASE j + 1 = Height
      BY <1>2, <1>9, <3>1, <3>2, <3>3
    <3>4. CASE j + 1 # Height
      <4>1. j < Height' /\ j + 1 \in 2..Height'
        BY <1>1, <1>3, <3>1, <3>4
      <4>2. QED
        BY <1>3, <3>1, <3>2, <4>1
    <3>5. QED
      BY <3>3, <3>4
  <2>2. \A j \in 2..Height' : j < Height
    BY <2>1
  <2>3. \A j \in 2..Height' : stack'[j].mod \in Addr
    BY <1>1, <2>1, TypeFacts
  <2>4. BehindInv
    BY DEF ResultInv
  <2>5. QED
    BY <1>3, <1>7, <1>8, <2>1, <2>2, <2>3, <2>4, BehindKept
<1>15. RootInv'
  <2>1. \/ Has(stack[1].mod, "evaluated")
        \/ stack[2].mod = stack[1].mod
    BY <1>2 DEF ResultInv, RootInv, InEvaluation
  <2>2. stack[1].mod \in Defined /\ 1 \in 1..Height
    BY <1>1, TypeFacts
  <2>3. ASSUME Has(stack[1].mod, "evaluated") PROVE "evaluated" \in def'[stack[1].mod].flags
    BY <1>1, <1>5, <2>2, <2>3 DEF Has
  <2>4. ASSUME stack[2].mod = stack[1].mod, Height = 2
        PROVE  "evaluated" \in def'[stack[1].mod].flags
    BY <1>2, <1>5, <2>4
  <2>5. Height # 2 => Height' >= 2 /\ 2 \in 2..Height'
    BY <1>1, <1>3
  <2>6. QED
    BY <1>3, <2>1, <2>3, <2>4, <2>5 DEF RootInv, Has
<1>16. QED
  BY <1>10, <1>11, <1>13, <1>14, <1>15 DEF ResultInv

LEMMA InitResults ==
    ASSUME StackInv, NameInv, RequestInv, ResultInv, InitNative
    PROVE  ResultInv'
<1>1. TypeOK
  BY DEF StackInv
<1>2. /\ Pops /\ ~failing /\ DoneWith("evaluate") /\ IsNative(Top.mod)
      /\ SetFlags(Top.mod, AfterRun(Top.mod)
                              \cup IF Top.mod \in swift THEN {"exported"} ELSE {})
      /\ CountsRun(Top.mod) /\ UNCHANGED <<loaded, failing>>
  BY <1>1, InitNativeEffect
<1>3. InEvaluation /\ stack # <<>> /\ Top.op = "evaluate"
  BY <1>2, Shape, OpPhase DEF InEvaluation, DoneWith, Pops
<1>4. Top.mod \in Addr /\ Top.mod \in Defined
  BY <1>1, <1>3, TopType
<1>5. Top.mod \in swift
  BY <1>2, <1>4 DEF NameInv, IsNative
<1>6. SetFlags(Top.mod, AfterRun(Top.mod) \cup {"exported"})
  BY <1>2, <1>5
<1>7. ran[Top.mod] = 0
  BY <1>3, TopNotRun DEF ResultInv
<1>8. ran'[Top.mod] = ran[Top.mod] + 1 /\ \A a \in Addr : a # Top.mod => ran'[a] = ran[a]
  BY <1>2, <1>4 DEF CountsRun
<1>9. ran'[Top.mod] = 1
  BY <1>7, <1>8
<1>10. \A i \in 1..Len(def[Top.mod].tgt) :
           def[Top.mod].tgt[i] # 0 /\ Succeeded(def[Top.mod].tgt[i])
  BY <1>2, <1>3, TopDone DEF ResultInv
<1>11. /\ {"exported"} \in SUBSET {"exported", "exc"}
       /\ "exc" \notin {"exported"} /\ "exported" \in {"exported"}
  OBVIOUS
<1>12. failing' \in BOOLEAN /\ ("exc" \in {"exported"} <=> failing')
  <2>1. failing' \in BOOLEAN
    BY <1>1, <1>2 DEF TypeOK
  <2>2. ~failing'
    BY <1>2
  <2>3. QED
    BY <1>11, <2>1, <2>2
<1>13. QED
  BY <1>2, <1>3, <1>6, <1>8, <1>9, <1>10, <1>11, <1>12, RunReturns

LEMMA LeaveResults ==
    ASSUME StackInv, RequestInv, ResultInv, LeaveBody
    PROVE  ResultInv'
<1>1. TypeOK
  BY DEF StackInv
<1>2. /\ Pops /\ ~failing /\ Top.op = "body"
      /\ \/ ~failing' /\ SetFlags(Top.mod, AfterRun(Top.mod))
         \/ failing' /\ SetFlags(Top.mod, AfterRun(Top.mod) \cup {"exc"})
      /\ UNCHANGED <<loaded, ran>> /\ TypeOK'
  BY <1>1, LeaveBodyEffect
<1>3. InEvaluation /\ stack # <<>>
  BY <1>2, Shape, OpPhase DEF InEvaluation, Pops
<1>4. Top.mod \in Addr /\ Top.mod \in Defined /\ Top = stack[Height] /\ Height \in 2..Height
  BY <1>1, <1>3, TopType DEF InEvaluation
<1>5. ran[Top.mod] = 1 /\ ~IsNative(Top.mod)
  BY <1>2, <1>4 DEF ResultInv, BodyInv
<1>6. \A i \in 1..Len(def[Top.mod].tgt) :
           def[Top.mod].tgt[i] # 0 /\ Succeeded(def[Top.mod].tgt[i])
  BY <1>4, <1>5 DEF ResultInv, RanInv
<1>7. failing' \in BOOLEAN /\ ran'[Top.mod] = 1 /\ \A a \in Addr : ran'[a] = ran[a]
  BY <1>2, <1>5 DEF TypeOK
<1>8. ASSUME NEW E \in SUBSET {"exported", "exc"}, SetFlags(Top.mod, AfterRun(Top.mod) \cup E),
             "exc" \in E <=> failing'
      PROVE  ResultInv'
  BY <1>2, <1>3, <1>5, <1>6, <1>7, <1>8, RunReturns
<1>9. AfterRun(Top.mod) \cup {} = AfterRun(Top.mod)
  OBVIOUS
<1>10. /\ {} \in SUBSET {"exported", "exc"} /\ {"exc"} \in SUBSET {"exported", "exc"}
       /\ "exc" \notin {} /\ "exc" \in {"exc"}
  OBVIOUS
<1>11. CASE ~failing' /\ SetFlags(Top.mod, AfterRun(Top.mod))
  BY <1>8, <1>9, <1>10, <1>11
<1>12. CASE failing' /\ SetFlags(Top.mod, AfterRun(Top.mod) \cup {"exc"})
  BY <1>8, <1>10, <1>12
<1>13. QED
  BY <1>2, <1>11, <1>12

\* An exception passes through: the module on top can be tried again.
LEMMA UnwindResults ==
    ASSUME StackInv, RequestInv, ResultInv, UnwindEvaluate
    PROVE  ResultInv'
<1>1. TypeOK
  BY DEF StackInv
<1>2. /\ Pops /\ failing /\ failing' = failing /\ Top.op = "evaluate"
      /\ SetFlags(Top.mod, def[Top.mod].flags \ {"mark"})
      /\ UNCHANGED <<loaded, ran>>
  BY <1>1, UnwindEvaluateEffect
<1>3. InEvaluation /\ stack # <<>> /\ IsBelow(stack') /\ failing'
  BY <1>2, Shape, OpPhase DEF InEvaluation, Pops
<1>4. /\ Height \in Nat /\ Height >= 2 /\ Height \in 2..Height /\ Defined \subseteq Addr
      /\ Top = stack[Height] /\ Top.mod \in Addr /\ Top.mod \in Defined
  BY <1>1, <1>3, TopType, TypeFacts DEF InEvaluation
<1>5. /\ stack' # <<>> /\ Height' = Height - 1 /\ Phase' = 4 /\ stack'[1] = stack[1]
      /\ \A j \in 2..Height' : /\ j \in 2..Height /\ j # Height
                               /\ stack'[j] = stack[j] /\ stack[j].mod # Top.mod
  BY <1>3, <1>4, PopView DEF InEvaluation
<1>6. /\ def'[Top.mod].flags = def[Top.mod].flags \ {"mark"}
      /\ \A a \in Addr : a # Top.mod => def'[a].flags = def[a].flags
  BY <1>2, <1>4 DEF SetFlags
<1>7. KeepsDefs /\ SameNames
  <2>1. KeepsDefs
    BY <1>2, KeepsBySet DEF Pops
  <2>2. SameNames
    BY <1>4, <2>1 DEF KeepsDefs, SameNames
  <2>3. QED
    BY <2>1, <2>2
<1>8. \A a \in Defined : \A f \in {"evaluated", "exc", "exported"} :
          f \in def'[a].flags <=> f \in def[a].flags
  BY <1>4, <1>6
<1>9. SuccessKept
  BY <1>7, <1>8 DEF SuccessKept, Succeeded, NowSucceeded, Has, IsNative, SameNames
<1>10. \A j \in 2..Height : stack[j].op # "body"
  BY <1>2, <1>4 DEF StackInv, FrameInv
<1>11. RanInv'
  <2>1. \A a \in Defined : ~InBody(a)
    BY <1>10 DEF InBody
  <2>2. RanInv /\ ran'[Top.mod] = 0
    BY <1>2, <1>3, TopNotRun DEF ResultInv
  <2>3. ~Has(Top.mod, "evaluated") /\ ~Has(Top.mod, "exc")
    BY <1>2, <1>3, TopNotRun DEF ResultInv
  <2>4. "exc" \notin def'[Top.mod].flags /\ "evaluated" \notin def'[Top.mod].flags
    BY <1>4, <1>8, <2>3 DEF Has
  <2>5. \A a \in Defined : a # Top.mod => def'[a].flags = def[a].flags
    BY <1>4, <1>6
  <2>6. \A a \in Addr : ran'[a] = ran[a]
    BY <1>2
  <2>7. ran'[Top.mod] \in {0, 1} /\ ran'[Top.mod] # 1
    BY <2>2
  <2>8. QED
    BY <1>1, <1>4, <1>7, <1>9, <2>1, <2>2, <2>4, <2>5, <2>6, <2>7, RanKept
<1>12. MarkInv'
  BY <1>2, <1>3, MarkPop DEF ResultInv, Pops
<1>13. BodyInv'
  <2>1. \A j \in 2..Height' : stack'[j].op # "body"
    BY <1>5, <1>10
  <2>2. QED
    BY <2>1 DEF BodyInv
<1>14. BehindInv'
  <2>1. ASSUME NEW j \in 2..Height'
        PROVE  /\ j \in 2..Height /\ j < Height /\ stack'[j] = stack[j]
               /\ "evaluated" \notin def'[stack[j].mod].flags
    <3>1. /\ j \in 2..Height /\ j < Height /\ stack'[j] = stack[j] /\ stack[j].mod # Top.mod
          /\ stack[j].mod \in Addr
      BY <1>1, <1>4, <1>5, TypeFacts
    <3>2. QED
      BY <1>3, <1>6, <3>1 DEF ResultInv, BehindInv, InEvaluation, Has
  <2>2. \A j \in 2..Height' : stack'[j].mod \in Addr
    BY <1>1, <2>1, TypeFacts
  <2>3. BehindInv
    BY DEF ResultInv
  <2>4. QED
    BY <1>3, <1>5, <1>7, <1>9, <2>1, <2>2, <2>3, BehindKept
<1>15. RootInv'
  BY <1>3 DEF RootInv
<1>16. QED
  BY <1>11, <1>12, <1>13, <1>14, <1>15 DEF ResultInv

\* The module that the next request names, when one is evaluated.
LEMMA NextTarget ==
    ASSUME Acyclic, StackInv, NameInv, PathInv, RequestInv, MarkInv, InEvaluation,
           Top.i \in 1..Len(def[Top.mod].tgt)
    PROVE  /\ def[Top.mod].tgt[Top.i] \in loaded
           /\ ~Has(def[Top.mod].tgt[Top.i], "mark")
           /\ \A j \in 2..Height : stack[j].mod # def[Top.mod].tgt[Top.i]
<1> DEFINE m == def[Top.mod].tgt[Top.i]
<1>1. /\ TypeOK /\ stack # <<>> /\ Height >= 2 /\ Height \in Nat
  BY TypeFacts DEF StackInv, Height, InEvaluation
<1>2. Top = stack[Height] /\ Top.mod \in Addr /\ Top.mod \in Defined /\ Height \in 2..Height
  BY <1>1, TopType
<1>3. m # 0 /\ m \in loaded
  BY <1>2, FrameTargets
<1>4. m \in Defined /\ Top.i \in 1..Len(def[Top.mod].req)
  BY <1>1, <1>2, <1>3, TypeFacts
<1>5. def[m].name = def[Top.mod].req[Top.i]
  BY <1>2, <1>3 DEF NameInv
<1>6. \A j \in 2..Height : stack[j].mod # m
  <2> HIDE DEF m
  <2>1. QED
    BY <1>1, <1>4, <1>5, PathTop
<1>7. QED
  BY <1>3, <1>4, <1>6 DEF MarkInv

LEMMA TopBehind ==
    ASSUME StackInv, BehindInv, InEvaluation, ~failing, Top.op = "evaluate",
           NEW i \in 1..Len(def[Top.mod].tgt), i < Top.i
    PROVE  Succeeded(def[Top.mod].tgt[i])
<1>1. Height \in Nat /\ Height \in 2..Height /\ Top = stack[Height] /\ ~(Height < Height)
  <2>1. TypeOK /\ stack # <<>> /\ Height >= 2
    BY TypeFacts DEF StackInv, Height, InEvaluation
  <2>2. QED
    BY <2>1, TopType
<1>2. QED
  BY <1>1 DEF BehindInv, InEvaluation

LEMMA SkipResults ==
    ASSUME Acyclic, StackInv, NameInv, PathInv, RequestInv, ResultInv, InEvaluation,
           ~failing, Top.op = "evaluate", Top.i \in 1..Len(def[Top.mod].tgt),
           VisitSkips("evaluate", def[Top.mod].tgt[Top.i]),
           UNCHANGED <<text, loaded, nextDef, swift, ran>>
    PROVE  ResultInv'
<1> DEFINE m == def[Top.mod].tgt[Top.i]
<1>1. TypeOK /\ Height >= 2 /\ stack # <<>>
  BY TypeFacts DEF StackInv, InEvaluation, Height
<1>2. m \in loaded /\ ~Has(m, "mark") /\ m \in Defined
  BY <1>1, NextTarget, TypeFacts DEF ResultInv
<1>3. /\ def' = def /\ IsAdvanced(stack') /\ Visited("evaluate", m)
      /\ (failing' <=> Has(m, "exc"))
  BY <1>2 DEF VisitSkips
<1>4. Has(m, "evaluated")
  BY <1>2, <1>3 DEF Visited, FlagOf
<1>5. ~failing' => Succeeded(m)
  BY <1>2, <1>3, <1>4 DEF Succeeded, ResultInv, RanInv
<1> HIDE DEF m
<1>6. /\ stack' # <<>> /\ Height' = Height /\ Height \in Nat
      /\ Phase' = Phase /\ stack'[1] = stack[1]
      /\ stack'[Height].i = Top.i + 1 /\ Top = stack[Height]
      /\ \A j \in 2..Height : /\ stack'[j].mod = stack[j].mod
                              /\ stack'[j].op = stack[j].op
                              /\ j # Height => stack'[j] = stack[j]
  BY <1>1, <1>3, StayView
<1>7. Height \in 2..Height /\ Phase = 4 /\ Top.mod \in Addr /\ Top.i \in Nat
  BY <1>1, <1>6, TopType DEF InEvaluation
<1>8. SuccessKept /\ KeepsDefs
  BY <1>3 DEF SuccessKept, Succeeded, NowSucceeded, Has, IsNative, KeepsDefs
<1>9. MarkInv'
  BY <1>3, <1>6 DEF ResultInv, MarkInv, Has, Defined
<1>10. RanInv'
  BY <1>3, <1>6 DEF ResultInv, RanInv, Has, Defined, Succeeded, IsNative
<1>11. BodyInv'
  BY <1>3, <1>6 DEF ResultInv, BodyInv, IsNative
<1>12. BehindInv'
  <2>1. \A j \in 2..Height : ~Has(stack[j].mod, "evaluated")
    BY <1>7 DEF ResultInv, BehindInv
  <2>2. \A j \in 2..Height' : j < Height =>
            /\ j \in 2..Height /\ stack'[j] = stack[j]
            /\ "evaluated" \notin def'[stack[j].mod].flags
            /\ j < Height' /\ stack'[j + 1].mod = stack[j + 1].mod
    BY <1>3, <1>6, <2>1 DEF Has
  <2>3. ASSUME NEW i \in 1..Len(def[Top.mod].tgt), i < Top.i + 1
        PROVE  \/ NowSucceeded(def[Top.mod].tgt[i])
               \/ i = (Top.i + 1) - 1 /\ failing'
    <3>1. Succeeded(def[Top.mod].tgt[i]) => NowSucceeded(def[Top.mod].tgt[i])
      BY <1>3 DEF Succeeded, NowSucceeded, Has, IsNative
    <3>2. i < Top.i => Succeeded(def[Top.mod].tgt[i])
      BY TopBehind DEF ResultInv
    <3>3. i = Top.i \/ i < Top.i
      BY <1>7, <2>3
    <3>4. i = Top.i => i = (Top.i + 1) - 1 /\ def[Top.mod].tgt[i] = m
      BY <1>7 DEF m
    <3>5. QED
      BY <1>5, <3>1, <3>2, <3>3, <3>4
  <2>4. ASSUME NEW j \in 2..Height', ~(j < Height)
        PROVE  /\ "evaluated" \notin def'[stack'[j].mod].flags
               /\ \A i \in 1..Len(def[stack'[j].mod].tgt) : i < stack'[j].i =>
                       \/ NowSucceeded(def[stack'[j].mod].tgt[i])
                       \/ i = stack'[j].i - 1 /\ failing'
    <3>1. j = Height /\ stack'[j].mod = Top.mod /\ stack'[j].i = Top.i + 1
      BY <1>6, <1>7, <2>4
    <3>2. "evaluated" \notin def'[Top.mod].flags
      BY <1>3, <1>6, <1>7, <2>1 DEF Has
    <3>3. QED
      BY <2>3, <3>1, <3>2
  <2>5. \A j \in 2..Height' : stack'[j].mod \in Addr
    BY <1>1, <1>6, TypeFacts
  <2>6. BehindInv /\ Phase' = 4
    BY <1>6, <1>7 DEF ResultInv
  <2>7. QED
    BY <1>8, <2>2, <2>4, <2>5, <2>6, BehindKept
<1>13. RootInv'
  BY <1>1, <1>3, <1>6, <1>7 DEF ResultInv, RootInv, Has
<1>14. QED
  BY <1>9, <1>10, <1>11, <1>12, <1>13 DEF ResultInv

LEMMA PushResults ==
    ASSUME Acyclic, StackInv, NameInv, PathInv, RequestInv, ResultInv, InEvaluation,
           ~failing, Top.op = "evaluate", Top.i \in 1..Len(def[Top.mod].tgt),
           VisitPushes("evaluate", def[Top.mod].tgt[Top.i]),
           UNCHANGED <<text, loaded, nextDef, swift, ran>>
    PROVE  ResultInv'
<1> DEFINE m == def[Top.mod].tgt[Top.i]
<1>1. TypeOK /\ Height >= 2 /\ stack # <<>> /\ Defined \subseteq Addr
  BY TypeFacts DEF StackInv, InEvaluation, Height
<1>2. m \in Defined /\ m \in Addr
  BY <1>1, NextTarget, TypeFacts DEF ResultInv
<1>3. /\ SetFlags(m, def[m].flags \cup {"mark"}) /\ ~Has(m, "evaluated") /\ failing' = failing
      /\ AdvancesAndPushes(Frame("evaluate", m, FALSE))
  BY DEF VisitPushes, Visited, FlagOf
<1>4. \A j \in 2..Height : stack[j].mod # m
  BY NextTarget DEF ResultInv
<1>5. def[Top.mod].tgt[Top.i] = m
  OBVIOUS
<1> HIDE DEF m
<1>6. /\ stack' # <<>> /\ Height' = Height + 1 /\ Height \in Nat
      /\ Phase' = Phase /\ stack'[1] = stack[1] /\ Top = stack[Height]
      /\ stack'[Height].i = Top.i + 1 /\ stack'[Height + 1] = Frame("evaluate", m, FALSE)
      /\ \A j \in 2..Height' : j \in 2..Height \/ j = Height + 1
      /\ \A j \in 2..Height : /\ stack'[j].mod = stack[j].mod
                              /\ stack'[j].op = stack[j].op
                              /\ j # Height => stack'[j] = stack[j]
  BY <1>1, <1>3, PushView
<1>7. /\ stack'[Height + 1].op = "evaluate" /\ stack'[Height + 1].mod = m
      /\ stack'[Height + 1].i = 1
  BY <1>6 DEF Frame
<1>8. /\ Height \in 2..Height /\ Height + 1 \in 2..Height' /\ \A j \in 2..Height : j \in 2..Height'
      /\ Phase = 4 /\ Top.mod \in Addr /\ Top.i \in Nat
  BY <1>1, <1>6, TopType DEF InEvaluation
<1>9. /\ \A a \in Defined : \A f \in {"evaluated", "exc", "exported"} :
            f \in def'[a].flags <=> f \in def[a].flags
      /\ \A a \in Defined : a # m => def'[a].flags = def[a].flags
  BY <1>1, <1>3 DEF SetFlags
<1>10. KeepsDefs /\ SameNames
  <2>1. KeepsDefs
    BY <1>3, KeepsBySet
  <2>2. SameNames
    BY <1>1, <2>1 DEF KeepsDefs, SameNames
  <2>3. QED
    BY <2>1, <2>2
<1>11. SuccessKept
  BY <1>9, <1>10 DEF SuccessKept, Succeeded, NowSucceeded, Has, IsNative, SameNames
<1>12. \A j \in 2..Height : stack[j].op # "body"
  BY <1>6, <1>8 DEF StackInv, FrameInv
<1>13. MarkInv'
  <2>1. ASSUME NEW a \in Defined, "mark" \in def'[a].flags
        PROVE  \E j \in 2..Height' : Phase' = 4 /\ stack'[j].mod = a
    <3>1. CASE a = m
      BY <1>6, <1>7, <1>8, <3>1
    <3>2. CASE a # m
      <4>1. PICK j \in 2..Height : stack[j].mod = a
        BY <1>9, <2>1, <3>2 DEF ResultInv, MarkInv, Has
      <4>2. QED
        BY <1>6, <1>8, <4>1
    <3>3. QED
      BY <3>1, <3>2
  <2>2. Defined' = Defined
    BY DEF Defined
  <2>3. QED
    BY <2>1, <2>2 DEF MarkInv, Has
<1>14. RanInv'
  <2>1. \A a \in Defined : ~InBody(a)
    BY <1>12 DEF InBody
  <2>2. RanInv /\ ran[m] \in {0, 1}
    BY <1>2 DEF ResultInv, RanInv
  <2>3. ran[m] # 1
    BY <1>2, <1>3, <2>1, <2>2 DEF RanInv, InBody
  <2>4. ~Has(m, "exc")
    BY <1>2, <1>3, <2>2 DEF RanInv
  <2>5. "exc" \notin def'[m].flags /\ "evaluated" \notin def'[m].flags
    BY <1>2, <1>3, <1>9, <2>4 DEF Has
  <2>6. ran'[m] \in {0, 1} /\ ran'[m] # 1 /\ \A a \in Addr : ran'[a] = ran[a]
    BY <2>2, <2>3
  <2>7. QED
    BY <1>1, <1>2, <1>9, <1>10, <1>11, <2>1, <2>2, <2>5, <2>6, RanKept
<1>15. BodyInv'
  <2>1. \A j \in 2..Height' : stack'[j].op # "body"
    BY <1>6, <1>7, <1>12
  <2>2. QED
    BY <2>1 DEF BodyInv
<1>16. BehindInv'
  <2>1. \A j \in 2..Height : /\ "evaluated" \notin def'[stack[j].mod].flags
                              /\ stack[j].mod \in Addr
    <3>1. \A j \in 2..Height : ~Has(stack[j].mod, "evaluated")
      BY <1>8 DEF ResultInv, BehindInv
    <3>2. \A j \in 2..Height : stack[j].mod \in Defined
      BY <1>1, TypeFacts
    <3>3. QED
      BY <1>1, <1>9, <3>1, <3>2 DEF Has
  <2>2. \A j \in 2..Height' : j < Height =>
            /\ j \in 2..Height /\ stack'[j] = stack[j]
            /\ "evaluated" \notin def'[stack[j].mod].flags
            /\ j < Height' /\ stack'[j + 1].mod = stack[j + 1].mod
    BY <1>6, <2>1
  <2>3. ASSUME NEW i \in 1..Len(def[Top.mod].tgt), i < Top.i + 1
        PROVE  \/ NowSucceeded(def[Top.mod].tgt[i])
               \/ i = (Top.i + 1) - 1 /\ def[Top.mod].tgt[i] = m
    <3>1. i < Top.i => Succeeded(def[Top.mod].tgt[i])
      BY TopBehind DEF ResultInv
    <3>2. def[Top.mod].tgt[i] \in Defined
      <4>1. def[Top.mod].tgt[i] \in loaded
        BY <1>6, <1>8, FrameTargets
      <4>2. QED
        BY <1>1, <4>1, TypeFacts
    <3>3. i = Top.i \/ i < Top.i
      BY <1>8, <2>3
    <3>4. i = Top.i => i = (Top.i + 1) - 1 /\ def[Top.mod].tgt[i] = m
      BY <1>5, <1>8
    <3>5. QED
      BY <1>11, <3>1, <3>2, <3>3, <3>4 DEF SuccessKept
  <2>4. ASSUME NEW j \in 2..Height', ~(j < Height)
        PROVE  /\ "evaluated" \notin def'[stack'[j].mod].flags
               /\ \A i \in 1..Len(def[stack'[j].mod].tgt) : i < stack'[j].i =>
                       \/ NowSucceeded(def[stack'[j].mod].tgt[i])
                       \/ /\ i = stack'[j].i - 1
                          /\ j < Height' /\ stack'[j + 1].mod = def[stack'[j].mod].tgt[i]
    <3>1. CASE j = Height
      <4>1. stack'[j].mod = Top.mod /\ stack'[j].i = Top.i + 1 /\ j < Height'
        BY <1>6, <1>8, <3>1
      <4>2. "evaluated" \notin def'[Top.mod].flags
        BY <1>6, <1>8, <2>1
      <4>3. stack'[j + 1].mod = m
        BY <1>7, <3>1
      <4>4. QED
        BY <2>3, <4>1, <4>2, <4>3
    <3>2. CASE j = Height + 1
      <4>1. "evaluated" \notin def'[m].flags
        BY <1>2, <1>3, <1>9 DEF Has
      <4>2. \A i \in 1..Len(def[m].tgt) : ~(i < 1)
        OBVIOUS
      <4>3. QED
        BY <1>7, <3>2, <4>1, <4>2
    <3>3. j = Height \/ j = Height + 1
      BY <1>6, <2>4
    <3>4. QED
      BY <3>1, <3>2, <3>3
  <2>5. \A j \in 2..Height' : stack'[j].mod \in Addr
    BY <1>2, <1>6, <1>7, <2>1
  <2>6. BehindInv /\ Phase' = 4
    BY <1>6, <1>8 DEF ResultInv
  <2>7. QED
    BY <1>10, <1>11, <2>2, <2>4, <2>5, <2>6, BehindKept
<1>17. RootInv'
  <2>1. Has(stack[1].mod, "evaluated") \/ stack[2].mod = stack[1].mod
    BY <1>1, <1>8 DEF ResultInv, RootInv
  <2>2. stack[1].mod \in Defined /\ 2 \in 2..Height /\ Height' >= 2
    BY <1>1, <1>6, TypeFacts
  <2>3. Has(stack[1].mod, "evaluated") => "evaluated" \in def'[stack[1].mod].flags
    BY <1>9, <2>2 DEF Has
  <2>4. stack'[2].mod = stack[2].mod
    BY <1>6, <2>2
  <2>5. QED
    BY <1>6, <2>1, <2>2, <2>3, <2>4 DEF RootInv, Has
<1>18. QED
  BY <1>13, <1>14, <1>15, <1>16, <1>17 DEF ResultInv

\* The last traversal begins.
LEMMA StageResults ==
    ASSUME StackInv, ResultInv, NextStage, Phase = 3
    PROVE  ResultInv'
<1> DEFINE m == stack[1].mod
<1>1. /\ TypeOK /\ Defined \subseteq Addr /\ loaded \subseteq Defined /\ m \in loaded
  BY StageView, TypeFacts DEF StackInv
<1>2. /\ stack' # <<>> /\ Height = 1 /\ Phase' = 4 /\ ~failing /\ stack'[1].mod = m
      /\ \/ VisitPushes("evaluate", m) /\ Height' = 2 /\ stack'[2] = Frame("evaluate", m, FALSE)
         \/ VisitSkips("evaluate", m) /\ Height' = 1
      /\ UNCHANGED <<text, loaded, nextDef, swift, ran>>
  <2>1. Stages[Phase] = "evaluate" /\ Phase + 1 = 4
    BY DEF Stages
  <2>2. QED
    BY <2>1, StageView
<1> HIDE DEF m
<1>3. \A j \in 2..Height : FALSE
  BY <1>2
<1>4. \A a \in Defined : /\ ~Has(a, "mark")
                         /\ ran[a] = 1 => Has(a, "evaluated")
  BY <1>3 DEF ResultInv, MarkInv, RanInv
<1>5. Defined' = Defined
  BY <1>2 DEF Defined
<1>6. CASE VisitPushes("evaluate", m) /\ Height' = 2 /\ stack'[2] = Frame("evaluate", m, FALSE)
  <2>1. SetFlags(m, def[m].flags \cup {"mark"}) /\ ~Has(m, "evaluated")
    BY <1>6 DEF VisitPushes, Visited, FlagOf
  <2>2. /\ stack'[2].op = "evaluate" /\ stack'[2].mod = m /\ stack'[2].i = 1
        /\ 2 \in 2..Height' /\ \A j \in 2..Height' : j = 2
    BY <1>6 DEF Frame
  <2>3. /\ \A a \in Defined : \A f \in {"evaluated", "exc", "exported"} :
              f \in def'[a].flags <=> f \in def[a].flags
        /\ \A a \in Defined : a # m => def'[a].flags = def[a].flags
    BY <1>1, <2>1 DEF SetFlags
  <2>4. KeepsDefs /\ SameNames
    <3>1. KeepsDefs
      BY <1>2, <2>1, KeepsBySet
    <3>2. SameNames
      BY <1>1, <3>1 DEF KeepsDefs, SameNames
    <3>3. QED
      BY <3>1, <3>2
  <2>5. SuccessKept
    BY <2>3, <2>4 DEF SuccessKept, Succeeded, NowSucceeded, Has, IsNative, SameNames
  <2>6. MarkInv'
    <3>1. \A a \in Defined : "mark" \in def'[a].flags => a = m
      BY <1>4, <2>3 DEF Has
    <3>2. QED
      BY <1>2, <1>5, <2>2, <3>1 DEF MarkInv, Has
  <2>7. RanInv'
    <3>1. \A a \in Defined : ~InBody(a)
      BY <1>3 DEF InBody
    <3>2. RanInv /\ ran[m] \in {0, 1} /\ m \in Defined
      BY <1>1 DEF ResultInv, RanInv
    <3>3. ran[m] # 1
      BY <1>4, <2>1, <3>2
    <3>4. ~Has(m, "exc")
      BY <2>1, <3>2 DEF RanInv
    <3>5. "exc" \notin def'[m].flags /\ "evaluated" \notin def'[m].flags
      BY <2>1, <2>3, <3>2, <3>4 DEF Has
    <3>6. ran'[m] \in {0, 1} /\ ran'[m] # 1 /\ \A a \in Addr : ran'[a] = ran[a]
      BY <1>2, <3>2, <3>3
    <3>7. QED
      BY <1>1, <2>3, <2>4, <2>5, <3>1, <3>2, <3>5, <3>6, RanKept
  <2>8. BodyInv'
    <3>1. \A j \in 2..Height' : stack'[j].op # "body"
      BY <2>2
    <3>2. QED
      BY <3>1 DEF BodyInv
  <2>9. BehindInv'
    <3>1. "evaluated" \notin def'[m].flags
      BY <1>1, <2>1, <2>3 DEF Has
    <3>2. \A j \in 2..Height' :
             /\ "evaluated" \notin def'[stack'[j].mod].flags
             /\ \A i \in 1..Len(def'[stack'[j].mod].tgt) : ~(i < stack'[j].i)
      BY <2>2, <3>1
    <3>3. QED
      BY <3>2 DEF BehindInv, Has
  <2>10. RootInv'
    <3>1. Height' >= 2
      BY <1>6
    <3>2. stack'[2].mod = stack'[1].mod
      BY <1>2, <2>2
    <3>3. QED
      BY <3>1, <3>2 DEF RootInv
  <2>11. QED
    BY <2>6, <2>7, <2>8, <2>9, <2>10 DEF ResultInv
<1>7. CASE VisitSkips("evaluate", m) /\ Height' = 1
  <2>1. def' = def /\ Has(m, "evaluated") /\ ran' = ran
    BY <1>1, <1>2, <1>4, <1>7 DEF VisitSkips, Visited, FlagOf
  <2>2. \A j \in 2..Height' : FALSE
    BY <1>7
  <2>3. MarkInv'
    BY <1>4, <1>5, <2>1 DEF MarkInv, Has
  <2>4. RanInv'
    BY <1>3, <1>5, <2>1 DEF ResultInv, RanInv, Has, Succeeded, IsNative
  <2>5. BodyInv' /\ BehindInv'
    BY <2>2 DEF BodyInv, BehindInv
  <2>6. RootInv'
    BY <1>2, <2>1 DEF RootInv, Has
  <2>7. QED
    BY <2>3, <2>4, <2>5, <2>6 DEF ResultInv
<1>8. QED
  BY <1>2, <1>6, <1>7

\* Whatever step is taken, what is known about evaluation holds afterwards.
LEMMA ResultNext ==
    ASSUME ~Reentrant, Acyclic, StackInv, NameInv, PathInv, ResolvedInv, RequestInv,
           ResultInv, Next
    PROVE  ResultInv'
<1>1. TypeOK /\ Height \in Nat
  BY TypeFacts DEF StackInv
<1>2. ASSUME \A j \in 2..Height : Phase # 4, stack' = <<>> \/ Phase' # 4
      PROVE  ResultInv'
  BY <1>2, QuietNext DEF ResultInv
<1>3. ASSUME stack # <<>>, Phase # 4, stack' = stack \/ Phase' = Phase PROVE ResultInv'
  BY <1>2, <1>3 DEF Phase
<1>4. ASSUME Pops, Phase # 4 \/ Height = 1 PROVE ResultInv'
  <2>1. stack # <<>> /\ IsBelow(stack') /\ Height \in Nat \ {0}
    BY <1>4, Shape DEF Pops
  <2>2. CASE Height = 1
    <3>1. stack' = <<>>
      <4>1. stack' \in Seq(FrameType) /\ Len(stack') = 0
        BY <2>1, <2>2 DEF IsBelow
      <4>2. QED
        BY <4>1
    <3>2. \A j \in 2..Height : FALSE
      BY <2>2
    <3>3. QED
      BY <1>2, <3>1, <3>2
  <2>3. CASE Height # 1
    <3>1. Phase' = Phase /\ Phase # 4
      BY <1>4, <2>1, <2>3, PopView
    <3>2. QED
      BY <1>3, <2>1, <3>1
  <2>4. QED
    BY <2>2, <2>3
<1>5. CASE ResolveRequest
  <2>1. /\ stack # <<>> /\ Top.op = "resolve"
        /\ (\E m : ResolveFinds(m)) \/ ResolveLoads \/ ResolveFails
    BY <1>1, <1>5, ResolveEffect
  <2>2. Height >= 2 /\ Phase = 1
    BY <2>1, Shape, OpPhase
  <2>3. stack' = stack \/ Phase' = Phase
    BY <2>1, <2>2, StayView, PushView, LoadView DEF ResolveFinds, ResolveLoads, ResolveFails
  <2>4. QED
    BY <1>3, <2>1, <2>2, <2>3
<1>6. ASSUME NEW op \in {"create", "link"}, NextRequest(op) PROVE ResultInv'
  <2>1. stack # <<>> /\ Top.op = op /\ Visits(op, def[Top.mod].tgt[Top.i])
    BY <1>1, <1>6, RequestEffect
  <2>2. Height >= 2 /\ Phase # 4
    BY <2>1, Shape, OpPhase
  <2>3. stack' = stack \/ Phase' = Phase
    BY <2>1, <2>2, StayView, PushView DEF Visits, VisitFaults, VisitSkips, VisitPushes
  <2>4. QED
    BY <1>3, <2>1, <2>2, <2>3
<1>7. CASE NextRequest("evaluate")
  <2>1. /\ stack # <<>> /\ Top.op = "evaluate" /\ ~failing
        /\ Top.i \in 1..Len(def[Top.mod].tgt)
        /\ Visits("evaluate", def[Top.mod].tgt[Top.i])
        /\ UNCHANGED <<text, loaded, nextDef, swift, ran>>
    BY <1>1, <1>7, RequestEffect
  <2>2. InEvaluation
    BY <2>1, Shape, OpPhase DEF InEvaluation
  <2>3. def[Top.mod].tgt[Top.i] \in loaded
    BY <2>1, <2>2, NextTarget DEF ResultInv
  <2>4. \/ VisitPushes("evaluate", def[Top.mod].tgt[Top.i])
        \/ VisitSkips("evaluate", def[Top.mod].tgt[Top.i])
    BY <2>1, <2>3 DEF Visits, VisitFaults
  <2>5. QED
    BY <2>1, <2>2, <2>4, PushResults, SkipResults
<1>8. CASE NextStage
  <2>1. /\ Height = 1 /\ Phase \in 1..3 /\ Phase' = Phase + 1
    BY <1>8, StageView
  <2>2. CASE Phase = 3
    BY <1>8, <2>2, StageResults
  <2>3. CASE Phase # 3
    <3>1. Phase' # 4 /\ \A j \in 2..Height : FALSE
      BY <2>1, <2>3
    <3>2. QED
      BY <1>2, <3>1
  <2>4. QED
    BY <2>2, <2>3
<1>9. CASE TraversalDone \/ LinkDone \/ UnwindResolve \/ UnwindLink \/ EvalFails \/ EvalReturns
  <2>1. /\ Pops
        /\ Top.op = "resolve" \/ Top.op = "create" \/ Top.op = "link" \/ Top.op = "base"
    BY <1>1, <1>9, TraversalDoneEffect, LinkDoneEffect, EvalReturnsEffect, UnwindEffect
    DEF DoneWith, Unloads
  <2>2. Phase # 4 \/ Height = 1
    <3>1. stack # <<>>
      BY <2>1 DEF Pops
    <3>2. CASE Height # 1
      BY <2>1, <3>1, <3>2, Shape, OpPhase
    <3>3. QED
      BY <3>2
  <2>3. QED
    BY <1>4, <2>1, <2>2
<1>10. ASSUME stack = <<>>, stack' = <<>> \/ Phase' = 1 PROVE ResultInv'
  <2>1. \A j \in 2..Height : FALSE
    BY <1>10 DEF Height
  <2>2. QED
    BY <1>2, <1>10, <2>1
<1>11. ASSUME NEW n \in Natives, Module(n) PROVE ResultInv'
  <2>1. stack = <<>> /\ stack' = stack
    BY <1>1, <1>11, ModuleEffect
  <2>2. QED
    BY <1>10, <2>1
<1>12. ASSUME NEW m \in swift, Function(m) PROVE ResultInv'
  <2>1. stack = <<>> /\ stack' = stack
    BY <1>1, <1>12, FunctionEffect
  <2>2. QED
    BY <1>10, <2>1
<1>13. ASSUME NEW imports \in RootTexts, Eval(imports) PROVE ResultInv'
  <2>1. stack = <<>> /\ Starts(Root, imports)
    BY <1>1, <1>13, EvalEffect
  <2>2. QED
    BY <1>1, <1>10, <2>1, StartView
<1>14. ASSUME NEW n \in Names, Import(n) PROVE ResultInv'
  <2>1. stack = <<>> /\ (Starts(n, text[n]) \/ \E m : ImportFinds(n, m))
    BY <1>1, <1>14, ImportEffect
  <2>2. Phase' = 1
    BY <1>1, <2>1, StartView, ImportView
  <2>3. QED
    BY <1>10, <2>1, <2>2
<1>15. CASE InitNative \/ EnterBody \/ LeaveBody \/ UnwindEvaluate
  BY <1>15, InitResults, EnterResults, LeaveResults, UnwindResults
<1>16. QED
  BY <1>5, <1>6, <1>7, <1>8, <1>9, <1>11, <1>12, <1>13, <1>14, <1>15
  DEF Next, EngineNext, AppNext

-----------------------------------------------------------------------------
(***************************************************************************)
(* Nothing is left half-way.                                               *)
(***************************************************************************)
\* After the first traversal every request leads to a loaded module.
LEMMA FoundTargets ==
    ASSUME StackInv, RequestInv, Height >= 2, Phase # 1
    PROVE  \A i \in 1..Len(def[Top.mod].tgt) :
               def[Top.mod].tgt[i] # 0 /\ def[Top.mod].tgt[i] \in loaded
<1>1. stack # <<>>
  BY TypeFacts DEF StackInv, Height
<1>2. Top.mod \in loaded /\ ~Loading
  BY <1>1, Shape DEF Loading
<1>3. QED
  BY <1>2, NoZero

NowBegun(a) == "created" \in def'[a].flags \/ "linked" \in def'[a].flags

NoneBegins == \A a \in Defined : NowBegun(a) => Begun(a)

Unfinished(a) == Begun(a) /\ ~Has(a, "evaluated")

\* Outside the second and the later traversals no module is half-way.
LEMMA BegunNone ==
    ASSUME TypeOK, BegunInv, stack = <<>> \/ Phase = 1, FlagsGrow, NewFlags, NoneBegins,
           loaded' \subseteq loaded \cup (Defined' \ Defined)
    PROVE  BegunInv'
<1>1. \A m \in loaded : ~Unfinished(m) /\ m \in Defined
  BY TypeFacts DEF BegunInv, Unfinished
<1>2. \A m \in loaded : NowBegun(m) => "evaluated" \in def'[m].flags
  BY <1>1 DEF Unfinished, NoneBegins, FlagsGrow, Has
<1>3. \A m \in Defined' \ Defined : ~NowBegun(m)
  BY DEF NewFlags, NowBegun
<1>4. QED
  BY <1>2, <1>3 DEF BegunInv, Begun, NowBegun, Has

\* What begins is the module that is evaluated, or is imported by a module
\* that has begun.
LEMMA BegunKept ==
    ASSUME TypeOK, BegunInv, FlagsGrow, KeepsDefs, loaded' = loaded,
           stack # <<>>, stack' # <<>>, Phase \in Nat, Phase' \in Nat, Phase' >= Phase,
           stack'[1].mod = stack[1].mod,
           \A m \in loaded : NowBegun(m) =>
               \/ Begun(m)
               \/ Phase' >= 2 /\ m = stack[1].mod
               \/ /\ Phase >= 2
                  /\ \E k \in loaded : Begun(k) /\ \E i \in 1..Len(def[k].tgt) : def[k].tgt[i] = m
    PROVE  BegunInv'
<1>1. \A m \in loaded : m \in Defined /\ m \in Addr /\ def'[m].tgt = def[m].tgt
  BY TypeFacts DEF KeepsDefs
<1>2. \A m \in loaded : /\ "evaluated" \notin def'[m].flags => ~Has(m, "evaluated")
                        /\ Begun(m) => NowBegun(m)
  BY <1>1 DEF FlagsGrow, Has, Begun, NowBegun
<1>3. ASSUME NEW m \in loaded, NowBegun(m), "evaluated" \notin def'[m].flags
      PROVE  /\ Phase' >= 2
             /\ \/ m = stack[1].mod
                \/ \E k \in loaded : Begun(k) /\ \E i \in 1..Len(def[k].tgt) : def[k].tgt[i] = m
  <2>1. CASE Begun(m)
    BY <1>2, <1>3, <2>1 DEF BegunInv
  <2>2. CASE ~Begun(m)
    BY <1>3, <2>2
  <2>3. QED
    BY <2>1, <2>2
<1>4. ASSUME NEW m \in loaded, NowBegun(m), "evaluated" \notin def'[m].flags
      PROVE  /\ Phase' >= 2
             /\ \/ m = stack'[1].mod
                \/ \E k \in loaded' :
                      NowBegun(k) /\ \E i \in 1..Len(def'[k].tgt) : def'[k].tgt[i] = m
  BY <1>1, <1>2, <1>3, <1>4
<1>5. QED
  BY <1>4 DEF BegunInv, Begun, NowBegun, Has

\* When the evaluation is over: of the modules that are half-way the one
\* with the greatest grade would be imported by none.
LEMMA BegunReturns ==
    ASSUME Acyclic, StackInv, NameInv, RequestInv, ResultInv, BegunInv,
           ~failing, Height = 1, Phase = 4
    PROVE  \A m \in loaded : ~Unfinished(m)
<1>1. TypeOK /\ loaded \subseteq Defined /\ Defined \subseteq Addr /\ stack # <<>>
  <2>1. TypeOK /\ stack # <<>>
    BY DEF StackInv, Height
  <2>2. QED
    BY <2>1, TypeFacts
<1>2. Has(stack[1].mod, "evaluated")
  BY <1>1 DEF ResultInv, RootInv
<1>3. ASSUME NEW m \in loaded, Unfinished(m)
      PROVE  \E k \in loaded : Unfinished(k) /\ GradeOf(m) < GradeOf(k)
  <2>1. m # stack[1].mod
    BY <1>2, <1>3 DEF Unfinished
  <2>2. PICK k \in loaded : Begun(k) /\ \E i \in 1..Len(def[k].tgt) : def[k].tgt[i] = m
    BY <1>3, <2>1 DEF BegunInv, Unfinished
  <2>3. PICK i \in 1..Len(def[k].tgt) : def[k].tgt[i] = m
    BY <2>2
  <2>4. m # 0 /\ m \in Defined /\ k \in Defined
    BY <1>1 DEF Defined
  <2>5. ~Has(k, "evaluated")
    BY <1>3, <2>3, <2>4 DEF ResultInv, RanInv, Succeeded, Unfinished
  <2>6. GradeOf(m) < GradeOf(k)
    BY <1>1, <2>3, <2>4, GradeTarget
  <2>7. QED
    BY <2>2, <2>5, <2>6 DEF Unfinished
<1>4. \A m \in loaded : GradeOf(m) \in Nat /\ GradeOf(m) <= Grade[Root] /\ Grade[Root] \in Nat
  BY <1>1, GradeNat
<1> DEFINE T == {Grade[Root] - GradeOf(m) : m \in {u \in loaded : Unfinished(u)}}
<1>5. ASSUME NEW m \in loaded, Unfinished(m) PROVE FALSE
  <2>1. T \in SUBSET Nat
    BY <1>4
  <2>2. T # {}
    BY <1>5
  <2> HIDE DEF T
  <2>3. PICK x \in T : \A y \in T : x <= y
    BY <2>1, <2>2, NatMin
  <2>4. PICK u \in loaded : Unfinished(u) /\ x = Grade[Root] - GradeOf(u)
    BY <2>3 DEF T
  <2>5. PICK k \in loaded : Unfinished(k) /\ GradeOf(u) < GradeOf(k)
    BY <1>3, <2>4
  <2>6. Grade[Root] - GradeOf(k) \in T
    BY <2>5 DEF T
  <2>7. Grade[Root] - GradeOf(u) <= Grade[Root] - GradeOf(k)
    BY <2>3, <2>4, <2>6
  <2>8. QED
    BY <1>4, <2>4, <2>5, <2>7
<1>6. QED
  BY <1>5

LEMMA NoneBeginsSet ==
    ASSUME TypeOK, NEW m, NEW F, def' = def \/ SetFlags(m, F),
           "created" \in F \/ "linked" \in F => Begun(m)
    PROVE  NoneBegins
<1>1. Defined \subseteq Addr
  BY TypeFacts
<1>2. CASE def' = def
  BY <1>2 DEF NoneBegins, NowBegun, Begun, Has
<1>3. CASE SetFlags(m, F)
  BY <1>1, <1>3 DEF NoneBegins, NowBegun, Begun, SetFlags, Has
<1>4. QED
  BY <1>2, <1>3

LEMMA NoneBeginsDefines ==
    ASSUME TypeOK, NEW name, NEW imports, NEW F, Defines(name, imports, F)
    PROVE  NoneBegins /\ loaded' \subseteq loaded \cup (Defined' \ Defined)
<1>1. Defined \subseteq Addr /\ nextDef \notin Defined /\ nextDef \in Defined'
  BY TypeFacts DEF Defined, Defines
<1>2. \A a \in Defined : def'[a] = def[a]
  BY <1>1 DEF Defines
<1>3. QED
  BY <1>1, <1>2 DEF NoneBegins, NowBegun, Begun, Has, Defines

LEMMA NoneBeginsMeets ==
    ASSUME TypeOK, NEW t, NEW i, NEW m, Meets(t, i, m)
    PROVE  NoneBegins
<1>1. \A a \in Defined : def'[a].flags = IF a = m THEN def[a].flags \cup {"resolved"}
                                                  ELSE def[a].flags
  BY TypeFacts DEF Meets
<1>2. ASSUME NEW a \in Defined, NowBegun(a) PROVE Begun(a)
  <2>1. CASE a = m
    <3>1. def'[a].flags = def[a].flags \cup {"resolved"}
      BY <1>1, <2>1
    <3>2. QED
      BY <1>2, <3>1 DEF NowBegun, Begun, Has
  <2>2. CASE a # m
    BY <1>1, <1>2, <2>2 DEF NowBegun, Begun, Has
  <2>3. QED
    BY <2>1, <2>2
<1>3. QED
  BY <1>2 DEF NoneBegins

LEMMA BegunNext ==
    ASSUME ~Reentrant, Acyclic, StackInv, NameInv, RequestInv, ResultInv, BegunInv, Next
    PROVE  BegunInv'
<1>1. TypeOK /\ FlagsGrow /\ NewFlags
  BY FlagsStep, NewFlagsStep DEF StackInv
<1>2. loaded \subseteq Defined /\ Defined \subseteq Addr
  BY <1>1, TypeFacts
<1>3. ASSUME stack = <<>> \/ Phase = 1, NoneBegins,
             loaded' \subseteq loaded \cup (Defined' \ Defined)
      PROVE  BegunInv'
  BY <1>1, <1>3, BegunNone
<1>4. ASSUME Height >= 2, Pops, NoneBegins, loaded' = loaded,
             NEW F, def' = def \/ SetFlags(Top.mod, F)
      PROVE  BegunInv'
  <2>1. stack # <<>> /\ IsBelow(stack') /\ KeepsDefs
    BY <1>4, KeepsBySet DEF Pops
  <2>2. stack' # <<>> /\ Phase' = Phase /\ stack'[1] = stack[1]
    BY <1>4, <2>1, PopView
  <2>3. Phase \in Nat /\ Phase' \in Nat /\ Phase' >= Phase
    BY <2>1, <2>2, Shape
  <2>4. \A m \in loaded : NowBegun(m) => Begun(m)
    BY <1>2, <1>4 DEF NoneBegins
  <2>5. QED
    BY <1>1, <1>4, <2>1, <2>2, <2>3, <2>4, BegunKept
<1>5. CASE ResolveRequest
  <2>1. /\ stack # <<>> /\ Top.op = "resolve"
        /\ (\E m : ResolveFinds(m)) \/ ResolveLoads \/ ResolveFails
    BY <1>1, <1>5, ResolveEffect
  <2>2. Phase = 1
    BY <2>1, Shape, OpPhase
  <2>3. ASSUME NEW m, ResolveFinds(m) PROVE BegunInv'
    <3>1. NoneBegins /\ loaded' = loaded
      BY <1>1, <2>3, NoneBeginsMeets DEF ResolveFinds
    <3>2. QED
      BY <1>3, <2>2, <3>1
  <2>4. CASE ResolveLoads
    BY <1>1, <1>3, <2>2, <2>4, NoneBeginsDefines DEF ResolveLoads
  <2>5. CASE ResolveFails
    <3>1. NoneBegins /\ loaded' = loaded
      BY <2>5 DEF ResolveFails, NoneBegins, NowBegun, Begun, Has
    <3>2. QED
      BY <1>3, <2>2, <3>1
  <2>6. QED
    BY <2>1, <2>3, <2>4, <2>5
<1>6. ASSUME NEW op \in {"create", "link", "evaluate"}, NextRequest(op) PROVE BegunInv'
  <2> DEFINE m == def[Top.mod].tgt[Top.i]
  <2>1. /\ stack # <<>> /\ Top.op = op /\ Top.i \in 1..Len(def[Top.mod].tgt)
        /\ Visits(op, m) /\ UNCHANGED <<text, loaded, nextDef, swift>>
    BY <1>1, <1>6, RequestEffect
  <2>2. /\ Height >= 2 /\ Phase # 1 /\ Phase \in 1..4 /\ Top.mod \in loaded
        /\ Has(Top.mod, FlagOf(op))
    BY <2>1, Shape, OpPhase
  <2>3. m \in loaded
    BY <2>1, <2>2, FoundTargets
  <2>4. /\ stack' # <<>> /\ Phase' = Phase /\ stack'[1] = stack[1]
        /\ def' = def \/ SetFlags(m, def[m].flags \cup {FlagOf(op)})
    <3> HIDE DEF m
    <3>1. CASE VisitPushes(op, m)
      BY <2>2, <3>1, PushView DEF VisitPushes
    <3>2. CASE VisitSkips(op, m)
      BY <2>2, <3>2, StayView DEF VisitSkips
    <3>3. QED
      BY <2>1, <2>3, <3>1, <3>2 DEF Visits, VisitFaults
  <2>5. ASSUME NEW a \in loaded, NowBegun(a), ~Begun(a)
        PROVE  /\ Phase >= 2
               /\ \E k \in loaded : Begun(k) /\ \E i \in 1..Len(def[k].tgt) : def[k].tgt[i] = a
    <3> HIDE DEF m
    <3>1. /\ SetFlags(m, def[m].flags \cup {FlagOf(op)}) /\ a = m
          /\ FlagOf(op) = "created" \/ FlagOf(op) = "linked"
      BY <1>2, <2>4, <2>5 DEF NowBegun, Begun, SetFlags, Has
    <3>2. Begun(Top.mod)
      BY <2>2, <3>1 DEF Begun
    <3>3. \E i \in 1..Len(def[Top.mod].tgt) : def[Top.mod].tgt[i] = a
      BY <2>1, <3>1 DEF m
    <3>4. QED
      BY <2>2, <3>2, <3>3
  <2>6. KeepsDefs
    BY <2>1, KeepsByVisit
  <2>7. Phase \in Nat /\ Phase' \in Nat /\ Phase' >= Phase
    BY <2>2, <2>4
  <2>8. QED
    BY <1>1, <2>1, <2>4, <2>5, <2>6, <2>7, BegunKept
<1>7. CASE NextStage
  <2>1. /\ stack # <<>> /\ stack' # <<>> /\ Phase \in 1..3 /\ Phase' = Phase + 1
        /\ stack'[1].mod = stack[1].mod /\ loaded' = loaded
        /\ Visits(Stages[Phase], stack[1].mod)
        /\ UNCHANGED <<text, loaded, nextDef, swift>>
    BY <1>7, StageView DEF Visits
  <2>2. Phase \in Nat /\ Phase' \in Nat /\ Phase' >= Phase /\ Phase' >= 2
    BY <2>1
  <2>3. KeepsDefs
    BY <2>1, KeepsByVisit
  <2>4. \A a \in loaded : a # stack[1].mod => def'[a].flags = def[a].flags
    BY <1>2, <2>1 DEF Visits, VisitFaults, VisitPushes, VisitSkips, SetFlags
  <2>5. \A a \in loaded : NowBegun(a) => Begun(a) \/ a = stack[1].mod
    BY <2>4 DEF NowBegun, Begun, Has
  <2>6. QED
    BY <1>1, <2>1, <2>2, <2>3, <2>5, BegunKept
<1>8. CASE EnterBody
  <2>1. /\ stack # <<>> /\ stack' # <<>> /\ Phase = 4 /\ Phase' = Phase /\ stack'[1] = stack[1]
    BY <1>8, EnterView
  <2>2. def' = def /\ loaded' = loaded /\ KeepsDefs
    BY <1>1, <1>8, EnterBodyEffect, KeepsBySet
  <2>3. \A m \in loaded : NowBegun(m) => Begun(m)
    BY <2>2 DEF NowBegun, Begun, Has
  <2>4. Phase \in Nat /\ Phase' \in Nat /\ Phase' >= Phase
    BY <2>1
  <2>5. QED
    BY <1>1, <2>1, <2>2, <2>3, <2>4, BegunKept
<1>9. CASE TraversalDone \/ LinkDone
  <2>1. /\ Pops /\ (Top.op = "resolve" \/ Top.op = "create" \/ Top.op = "link")
        /\ def' = def /\ loaded' = loaded
    BY <1>1, <1>9, TraversalDoneEffect, LinkDoneEffect DEF DoneWith
  <2>2. NoneBegins
    BY <2>1 DEF NoneBegins, NowBegun, Begun, Has
  <2>3. Height >= 2
    BY <2>1, Shape DEF Pops
  <2>4. QED
    BY <1>4, <2>1, <2>2, <2>3
<1>10. CASE InitNative \/ LeaveBody \/ UnwindEvaluate
  <2>1. /\ Pops /\ Top.op # "base" /\ loaded' = loaded
    BY <1>1, <1>10, InitNativeEffect, LeaveBodyEffect, UnwindEvaluateEffect DEF DoneWith
  <2>2. \E F : SetFlags(Top.mod, F) /\ ("created" \in F \/ "linked" \in F => Begun(Top.mod))
    <3>1. CASE InitNative
      <4>1. "created" \in AfterRun(Top.mod) \cup (IF Top.mod \in swift THEN {"exported"} ELSE {})
            \/ "linked" \in AfterRun(Top.mod) \cup (IF Top.mod \in swift THEN {"exported"} ELSE {})
              => Begun(Top.mod)
        BY DEF AfterRun, Begun, Has
      <4>2. QED
        BY <1>1, <3>1, <4>1, InitNativeEffect
    <3>2. CASE LeaveBody
      <4>1. /\ "created" \in AfterRun(Top.mod) \/ "linked" \in AfterRun(Top.mod) => Begun(Top.mod)
            /\ "created" \in AfterRun(Top.mod) \cup {"exc"}
                 \/ "linked" \in AfterRun(Top.mod) \cup {"exc"} => Begun(Top.mod)
        BY DEF AfterRun, Begun, Has
      <4>2. QED
        BY <1>1, <3>2, <4>1, LeaveBodyEffect
    <3>3. CASE UnwindEvaluate
      BY <1>1, <3>3, UnwindEvaluateEffect DEF Begun, Has
    <3>4. QED
      BY <1>10, <3>1, <3>2, <3>3
  <2>3. PICK F : SetFlags(Top.mod, F) /\ ("created" \in F \/ "linked" \in F => Begun(Top.mod))
    BY <2>2
  <2>4. NoneBegins
    BY <1>1, <2>3, NoneBeginsSet
  <2>5. Height >= 2
    BY <2>1, Shape DEF Pops
  <2>6. QED
    BY <1>4, <2>1, <2>3, <2>4, <2>5
<1>11. CASE EvalReturns
  <2>1. /\ Pops /\ ~failing /\ Top.op = "base" /\ Top.i > 3 /\ def' = def /\ loaded' = loaded
    BY <1>1, <1>11, EvalReturnsEffect
  <2>2. Height = 1 /\ Phase = 4
    <3>1. Height = 1 /\ Phase \in 1..4 /\ Top = stack[Height]
      BY <2>1, Shape DEF Pops
    <3>2. Top.i = Phase
      BY <3>1 DEF Phase
    <3>3. QED
      BY <2>1, <3>1, <3>2
  <2>3. \A m \in loaded : ~Unfinished(m)
    BY <2>1, <2>2, BegunReturns
  <2>4. QED
    BY <2>1, <2>3 DEF BegunInv, Unfinished, Begun, Has
<1>12. CASE UnwindResolve \/ UnwindLink \/ EvalFails
  <2>1. Pops /\ Unloads /\ def' = def
    BY <1>1, <1>12, UnwindEffect
  <2>2. NoneBegins /\ loaded' \subseteq loaded /\ stack # <<>>
    BY <2>1 DEF NoneBegins, NowBegun, Begun, Has, Unloads, Pops
  <2>3. CASE Phase = 1
    BY <1>3, <2>2, <2>3
  <2>4. CASE Top.op = "link"
    BY <1>4, <2>1, <2>2, <2>4, Shape DEF Unloads
  <2>5. CASE Top.op = "base" /\ Phase # 1
    <3>1. Top.i # 1
      BY <2>2, <2>5, Shape DEF Phase
    <3>2. loaded' = {a \in loaded : Has(a, "evaluated")}
      BY <2>1, <2>5, <3>1 DEF Unloads
    <3>3. QED
      BY <2>1, <3>2 DEF BegunInv, Has
  <2>6. Top.op = "resolve" => Phase = 1
    BY <2>2, Shape, OpPhase
  <2>7. QED
    BY <2>1, <2>3, <2>4, <2>5, <2>6 DEF Unloads
<1>13. ASSUME NEW n \in Natives, Module(n) PROVE BegunInv'
  <2>1. stack = <<>> /\ Defines(n, <<>>, {})
    BY <1>1, <1>13, ModuleEffect
  <2>2. QED
    BY <1>1, <1>3, <2>1, NoneBeginsDefines
<1>14. ASSUME NEW m \in swift, Function(m) PROVE BegunInv'
  <2>1. /\ stack = <<>> /\ loaded' = loaded
        /\ def' = def \/ SetFlags(m, def[m].flags \cup {"unbound"})
    BY <1>1, <1>14, FunctionEffect
  <2>2. NoneBegins
    BY <1>1, <2>1, NoneBeginsSet DEF Begun, Has
  <2>3. QED
    BY <1>3, <2>1, <2>2
<1>15. ASSUME stack = <<>>, NEW name, NEW imports, Starts(name, imports) PROVE BegunInv'
  BY <1>1, <1>3, <1>15, NoneBeginsDefines DEF Starts
<1>16. ASSUME NEW imports \in RootTexts, Eval(imports) PROVE BegunInv'
  BY <1>1, <1>15, <1>16, EvalEffect
<1>17. ASSUME NEW n \in Names, Import(n) PROVE BegunInv'
  <2>1. stack = <<>> /\ (Starts(n, text[n]) \/ \E m : ImportFinds(n, m))
    BY <1>1, <1>17, ImportEffect
  <2>2. ASSUME NEW m, ImportFinds(n, m) PROVE BegunInv'
    <3>1. SetFlags(m, def[m].flags \cup {"resolved"}) /\ loaded' = loaded
      BY <2>2 DEF ImportFinds
    <3>2. NoneBegins
      BY <1>1, <3>1, NoneBeginsSet DEF Begun, Has
    <3>3. QED
      BY <1>3, <2>1, <3>1, <3>2
  <2>3. QED
    BY <1>15, <2>1, <2>2
<1>18. QED
  BY <1>5, <1>6, <1>7, <1>8, <1>9, <1>10, <1>11, <1>12, <1>13, <1>14, <1>16, <1>17
  DEF Next, EngineNext, AppNext

EvalInv ==
    /\ StackInv /\ NameInv /\ PathInv /\ ResolvedInv /\ RequestInv
    /\ ResultInv /\ BegunInv

LEMMA EvalInit ==
    Init => EvalInv
<1> SUFFICES ASSUME Init PROVE EvalInv
  OBVIOUS
<1>1. /\ stack = <<>> /\ ~failing /\ loaded = {} /\ nextDef = 1 /\ ran = [a \in Addr |-> 0]
  BY DEF Init
<1>2. TypeOK /\ Height = 0 /\ \A j \in 2..Height : FALSE
  BY <1>1, TypeInit DEF Height
<1>3. \A a \in Defined : FALSE
  BY <1>1 DEF Defined
<1>4. StackInv
  BY <1>1, <1>2 DEF StackInv, BottomInv, FrameInv
<1>5. NameInv /\ PathInv /\ ResolvedInv /\ RequestInv
  BY <1>1, <1>2, <1>3 DEF NameInv, PathInv, ResolvedInv, RequestInv
<1>6. MarkInv /\ BodyInv /\ BehindInv /\ RootInv /\ BegunInv
  BY <1>1, <1>2, <1>3 DEF MarkInv, BodyInv, BehindInv, RootInv, BegunInv
<1>7. RanInv
  BY <1>1, <1>3 DEF RanInv
<1>8. QED
  BY <1>4, <1>5, <1>6, <1>7 DEF EvalInv, ResultInv

\* Without circular imports, and while native functions do not evaluate
\* modules: the stack is a path down the import graph, requests lead to
\* loaded modules, and the flags of a module agree with what has run.
THEOREM EvaluationInvariant ==
    ASSUME ~Reentrant, Acyclic
    PROVE  Spec => []EvalInv
<1>1. EvalInv /\ [Next]_vars => EvalInv'
  <2> SUFFICES ASSUME EvalInv, [Next]_vars PROVE EvalInv'
    OBVIOUS
  <2>1. /\ StackInv /\ NameInv /\ PathInv /\ ResolvedInv /\ RequestInv
        /\ ResultInv /\ BegunInv /\ TypeOK /\ RanInv
    BY DEF EvalInv, StackInv, ResultInv
  <2>2. CASE Next
    <3>1. StackInv'
      BY <2>1, <2>2, TypeNext, FramesNext DEF StackInv
    <3>2. NameInv' /\ PathInv'
      BY <2>1, <2>2, NamesNext, PathNext
    <3>3. ResolvedInv' /\ RequestInv'
      BY <2>1, <2>2, ResolvedNext, RequestNext
    <3>4. ResultInv'
      BY <2>1, <2>2, ResultNext
    <3>5. BegunInv'
      BY <2>1, <2>2, BegunNext
    <3>6. QED
      BY <3>1, <3>2, <3>3, <3>4, <3>5 DEF EvalInv
  <2>3. CASE UNCHANGED vars
    <3>1. StackInv' /\ NameInv' /\ PathInv'
      <4>1. StackInv'
        BY <2>1, <2>3 DEF vars, StackInv, TypeOK, BottomInv, FrameInv, Height, Phase, Has
      <4>2. NameInv'
        BY <2>1, <2>3 DEF vars, NameInv, Defined
      <4>3. text' = text /\ def' = def /\ stack' = stack
        BY <2>3 DEF vars
      <4>4. PathInv'
        BY <2>1, <4>3 DEF PathInv, GradeOf, Grade, Height
      <4>5. QED
        BY <4>1, <4>2, <4>4
    <3>2. ResolvedInv' /\ RequestInv' /\ BegunInv'
      BY <2>1, <2>3 DEF vars, ResolvedInv, RequestInv, BegunInv, Begun, Height, Phase, Has, Defined
    <3>3. ResultInv'
      BY <2>1, <2>3 DEF vars, ResultInv, MarkInv, RanInv, BodyInv, BehindInv, RootInv, Succeeded,
         IsNative, Height, Phase, Has, Defined
    <3>4. QED
      BY <3>1, <3>2, <3>3 DEF EvalInv
  <2>4. QED
    BY <2>2, <2>3
<1>2. QED
  BY <1>1, EvalInit, PTL DEF Spec

\* Without circular imports no evaluation, successful or not, leaves a module
\* half-way: js_free_modules has freed it, or it has been evaluated.
THEOREM NothingLeft ==
    ASSUME ~Reentrant, Acyclic
    PROVE  Spec => []NothingHalfDone
<1>1. EvalInv => NothingHalfDone
  <2> SUFFICES ASSUME EvalInv, AtRest, NEW m \in loaded
               PROVE  /\ Has(m, "created") \/ Has(m, "linked") => Has(m, "evaluated")
                      /\ ~Has(m, "mark")
    BY DEF NothingHalfDone
  <2>1. TypeOK /\ MarkInv /\ BegunInv
    BY DEF EvalInv, StackInv, ResultInv
  <2>2. stack = <<>> /\ \A j \in 2..Height : FALSE
    BY DEF AtRest, Height
  <2>3. m \in Defined
    BY <2>1, TypeFacts
  <2>4. ~Has(m, "mark")
    BY <2>1, <2>2, <2>3 DEF MarkInv
  <2>5. Begun(m) => Has(m, "evaluated")
    BY <2>1, <2>2 DEF BegunInv
  <2>6. QED
    BY <2>4, <2>5 DEF Begun
<1>2. QED
  BY <1>1, EvaluationInvariant, PTL

-----------------------------------------------------------------------------
(***************************************************************************)
(* Circular imports, in contexts whose native functions do not evaluate    *)
(* modules: where pointers to freed definitions can be, and what has been  *)
(* evaluated before a module runs.                                         *)
(***************************************************************************)

\* Reaches, the texts being a parameter.
Way(t, a, b) ==
    \A S \in SUBSET Names :
        (a \in S /\ \A f \in S \cap Files : \A i \in DOMAIN t[f] : t[f][i] \in S)
            => b \in S

LEMMA WaySelf ==
    ASSUME NEW t, NEW a
    PROVE  Way(t, a, a)
BY DEF Way

\* What is reached imports its requests.  (The script given to eval, which
\* no file imports, is reached from no name.)
LEMMA WayOn ==
    ASSUME TypeOK, NameInv, NEW m \in Defined, NEW i \in 1..Len(def[m].req),
           NEW a, Way(text, a, def[m].name)
    PROVE  Way(text, a, def[m].req[i])
<1>1. /\ m \in Addr /\ def[m].name \in Natives \cup Files \cup {Root}
      /\ def[m].name \in Natives => def[m].req = <<>>
      /\ def[m].name \in Files => def[m].req = text[def[m].name]
  BY TypeFacts DEF NameInv
<1>2. CASE def[m].name \in Natives
  BY <1>1, <1>2
<1>3. CASE def[m].name \in Files
  <2>1. i \in DOMAIN text[def[m].name] /\ def[m].req[i] = text[def[m].name][i]
    BY <1>1, <1>3, TextType
  <2>2. QED
    BY <1>3, <2>1 DEF Way
<1>4. CASE def[m].name = Root
  <2>1. \A f \in Names \cap Files : \A k \in DOMAIN text[f] : text[f][k] \in Names
    BY TextType
  <2>2. a \notin Names
    BY <1>4, <2>1, NamesAssumption DEF Way
  <2>3. QED
    BY <2>2 DEF Way
<1>5. QED
  BY <1>1, <1>2, <1>3, <1>4

\* The stack goes along imports.
WayInv ==
    \A j, k \in 2..Height : j <= k =>
        Way(text, def[stack[j].mod].name, def[stack[k].mod].name)

LEMMA WayKept ==
    ASSUME StackInv, SameNames, WayInv,
           \A j \in 2..Height' : j \in 2..Height /\ stack'[j].mod = stack[j].mod
    PROVE  WayInv'
<1>1. \A j \in 2..Height : stack[j].mod \in Defined
  BY TypeFacts DEF StackInv, FrameInv
<1>2. \A j \in 2..Height' : def'[stack'[j].mod].name = def[stack[j].mod].name
  BY <1>1 DEF SameNames
<1>3. QED
  BY <1>2 DEF WayInv, SameNames

LEMMA WayPushed ==
    ASSUME StackInv, SameNames, WayInv, NameInv, Height >= 2,
           \A j \in 2..Height' : j \in 2..Height \/ j = Height + 1,
           \A j \in 2..Height : stack'[j].mod = stack[j].mod,
           NEW i \in 1..Len(def[Top.mod].req),
           def'[stack'[Height + 1].mod].name = def[Top.mod].req[i]
    PROVE  WayInv'
<1>1. TypeOK /\ \A j \in 2..Height : stack[j].mod \in Defined
  BY TypeFacts DEF StackInv, FrameInv
<1>2. \A j \in 2..Height : def'[stack'[j].mod].name = def[stack[j].mod].name
  BY <1>1 DEF SameNames
<1>3. Height \in Nat /\ Top = stack[Height] /\ Top.mod \in Defined
  <2>1. Height \in Nat /\ stack # <<>>
    BY <1>1, TypeFacts DEF Height
  <2>2. QED
    BY <1>1, <2>1, TopType
<1>4. ASSUME NEW j \in 2..Height
      PROVE  Way(text', def'[stack'[j].mod].name, def'[stack'[Height + 1].mod].name)
  <2>1. Height \in 2..Height /\ j <= Height
    BY <1>3
  <2>2. Way(text, def[stack[j].mod].name, def[Top.mod].name)
    BY <1>3, <2>1 DEF WayInv
  <2>3. Way(text, def[stack[j].mod].name, def[Top.mod].req[i])
    BY <1>1, <1>3, <2>2, WayOn
  <2>4. QED
    BY <1>2, <2>3 DEF SameNames
<1>5. ASSUME NEW j \in 2..Height', NEW k \in 2..Height', j <= k
      PROVE  Way(text', def'[stack'[j].mod].name, def'[stack'[k].mod].name)
  <2>1. CASE k = Height + 1 /\ j = Height + 1
    BY <2>1, WaySelf
  <2>2. CASE k = Height + 1 /\ j # Height + 1
    BY <1>4, <2>2
  <2>3. CASE k \in 2..Height
    <3>1. j \in 2..Height
      BY <1>3, <1>5, <2>3
    <3>2. Way(text, def[stack[j].mod].name, def[stack[k].mod].name)
      BY <1>5, <2>3, <3>1 DEF WayInv
    <3>3. QED
      BY <1>2, <2>3, <3>1, <3>2 DEF SameNames
  <2>4. QED
    BY <2>1, <2>2, <2>3
<1>6. QED
  BY <1>5 DEF WayInv

LEMMA WayNext ==
    ASSUME ~Reentrant, StackInv, NameInv, WayInv, Next
    PROVE  WayInv'
<1>1. TypeOK /\ SameNames
  BY NamesSame DEF StackInv
<1>2. ASSUME Height' \in 0..2 PROVE WayInv'
  <2>1. \A j, k \in 2..Height' : j = k
    BY <1>2
  <2>2. QED
    BY <2>1, WaySelf DEF WayInv
<1>3. ASSUME stack' = <<>> PROVE WayInv'
  BY <1>2, <1>3 DEF Height
<1>4. ASSUME stack' = stack PROVE WayInv'
  <2>1. \A j \in 2..Height' : j \in 2..Height /\ stack'[j].mod = stack[j].mod
    BY <1>4 DEF Height
  <2>2. QED
    BY <1>1, <2>1, WayKept
<1>5. CASE ResolveRequest
  <2>1. /\ stack # <<>> /\ Top.op = "resolve" /\ Top.i \in 1..Len(def[Top.mod].req)
        /\ (\E m : ResolveFinds(m)) \/ ResolveLoads \/ ResolveFails
    BY <1>1, <1>5, ResolveEffect
  <2>2. Height >= 2
    BY <2>1, Shape
  <2>3. ASSUME NEW m, ResolveFinds(m) PROVE WayInv'
    <3>1. CASE Has(m, "resolved")
      <4>1. IsAdvanced(stack')
        BY <2>3, <3>1 DEF ResolveFinds
      <4>2. QED
        BY <1>1, <2>2, <4>1, StayView, WayKept
    <3>2. CASE ~Has(m, "resolved")
      <4>1. AdvancesAndPushes(Frame("resolve", m, FALSE)) /\ def[m].name = Wanted
            /\ m \in loaded
        BY <2>3, <3>2 DEF ResolveFinds
      <4>2. /\ \A j \in 2..Height' : j \in 2..Height \/ j = Height + 1
            /\ \A j \in 2..Height : stack'[j].mod = stack[j].mod
            /\ stack'[Height + 1] = Frame("resolve", m, FALSE)
        BY <2>2, <4>1, PushView
      <4>3. stack'[Height + 1].mod = m /\ m \in Defined
        BY <1>1, <4>1, <4>2, TypeFacts DEF Frame
      <4>4. def'[stack'[Height + 1].mod].name = def[Top.mod].req[Top.i]
        BY <1>1, <4>1, <4>3 DEF SameNames, Wanted
      <4>5. QED
        BY <1>1, <2>1, <2>2, <4>2, <4>4, WayPushed
    <3>3. QED
      BY <3>1, <3>2
  <2>4. CASE ResolveLoads
    <3>1. /\ IsPushed(stack, stack', Frame("resolve", nextDef, TRUE))
          /\ def'[nextDef].name = Wanted
      BY <2>4 DEF ResolveLoads, Defines
    <3>2. /\ \A j \in 2..Height' : j \in 2..Height \/ j = Height + 1
          /\ \A j \in 2..Height : stack'[j].mod = stack[j].mod
          /\ stack'[Height + 1] = Frame("resolve", nextDef, TRUE)
      BY <2>2, <3>1, LoadView
    <3>3. def'[stack'[Height + 1].mod].name = def[Top.mod].req[Top.i]
      BY <3>1, <3>2 DEF Frame, Wanted
    <3>4. QED
      BY <1>1, <2>1, <2>2, <3>2, <3>3, WayPushed
  <2>5. CASE ResolveFails
    BY <1>4, <2>5 DEF ResolveFails
  <2>6. QED
    BY <2>1, <2>3, <2>4, <2>5
<1>6. ASSUME NEW op \in {"create", "link", "evaluate"}, NextRequest(op)
      PROVE  WayInv'
  <2> DEFINE m == def[Top.mod].tgt[Top.i]
  <2>1. /\ stack # <<>> /\ Top.op = op /\ Top.i \in 1..Len(def[Top.mod].tgt) /\ Visits(op, m)
    BY <1>1, <1>6, RequestEffect
  <2>2. Height >= 2 /\ Top.mod \in Defined /\ Top.mod \in Addr
    BY <1>1, <2>1, Shape, TopType
  <2>3. Top.i \in 1..Len(def[Top.mod].req)
    BY <1>1, <2>1, <2>2, TypeFacts
  <2>4. CASE VisitFaults(m)
    BY <1>4, <2>4 DEF VisitFaults
  <2>5. CASE VisitSkips(op, m)
    <3>1. IsAdvanced(stack')
      BY <2>5 DEF VisitSkips
    <3>2. QED
      BY <1>1, <2>2, <3>1, StayView, WayKept
  <2>6. CASE VisitPushes(op, m)
    <3>1. AdvancesAndPushes(Frame(op, m, FALSE)) /\ m \in loaded
      BY <2>6 DEF VisitPushes
    <3>2. m \in Defined /\ m # 0
      BY <1>1, <3>1, TypeFacts DEF Defined
    <3>3. def[m].name = def[Top.mod].req[Top.i]
      BY <2>1, <2>2, <3>2 DEF NameInv
    <3> HIDE DEF m
    <3>4. /\ \A j \in 2..Height' : j \in 2..Height \/ j = Height + 1
          /\ \A j \in 2..Height : stack'[j].mod = stack[j].mod
          /\ stack'[Height + 1] = Frame(op, m, FALSE)
      BY <2>2, <3>1, PushView
    <3>5. stack'[Height + 1].mod = m
      BY <3>4 DEF Frame
    <3>6. def'[stack'[Height + 1].mod].name = def[Top.mod].req[Top.i]
      BY <1>1, <3>2, <3>3, <3>5 DEF SameNames
    <3>7. QED
      BY <1>1, <2>2, <2>3, <3>4, <3>6, WayPushed
  <2>7. QED
    BY <2>1, <2>4, <2>5, <2>6 DEF Visits
<1>7. CASE NextStage
  <2>1. Height' = 1 \/ Height' = 2
    BY <1>7, StageView
  <2>2. Height' \in 0..2
    BY <2>1
  <2>3. QED
    BY <1>2, <2>2
<1>8. CASE EnterBody
  BY <1>1, <1>8, EnterView, WayKept
<1>9. ASSUME Pops PROVE WayInv'
  <2>1. stack # <<>> /\ IsBelow(stack')
    BY <1>9 DEF Pops
  <2>2. Height \in Nat \ {0}
    BY <2>1, Shape
  <2>3. CASE Height = 1
    BY <1>3, <2>1, <2>3 DEF IsBelow
  <2>4. CASE Height >= 2
    BY <1>1, <2>1, <2>4, PopView, WayKept
  <2>5. QED
    BY <2>2, <2>3, <2>4
<1>10. CASE TraversalDone \/ LinkDone \/ InitNative \/ LeaveBody \/ EvalReturns
  BY <1>1, <1>9, <1>10, TraversalDoneEffect, LinkDoneEffect, InitNativeEffect,
     LeaveBodyEffect, EvalReturnsEffect
<1>11. CASE UnwindResolve \/ UnwindLink \/ EvalFails \/ UnwindEvaluate
  BY <1>1, <1>9, <1>11, UnwindEffect, UnwindEvaluateEffect
<1>12. ASSUME NEW n \in Natives, Module(n) PROVE WayInv'
  BY <1>1, <1>3, <1>12, ModuleEffect
<1>13. ASSUME NEW m \in swift, Function(m) PROVE WayInv'
  BY <1>1, <1>3, <1>13, FunctionEffect
<1>14. ASSUME NEW imports \in RootTexts, Eval(imports) PROVE WayInv'
  <2>1. stack = <<>> /\ Starts(Root, imports)
    BY <1>1, <1>14, EvalEffect
  <2>2. Height' = 2
    BY <1>1, <2>1, StartView
  <2>3. QED
    BY <1>2, <2>2
<1>15. ASSUME NEW n \in Names, Import(n) PROVE WayInv'
  <2>1. stack = <<>> /\ (Starts(n, text[n]) \/ \E m : ImportFinds(n, m))
    BY <1>1, <1>15, ImportEffect
  <2>2. Starts(n, text[n]) => Height' = 2
    BY <1>1, <2>1, StartView
  <2>3. (\E m : ImportFinds(n, m)) => Height' \in 1..2
    BY <1>1, <2>1, ImportView
  <2>4. QED
    BY <1>2, <2>1, <2>2, <2>3
<1>16. QED
  BY <1>5, <1>6, <1>7, <1>8, <1>10, <1>11, <1>12, <1>13, <1>14, <1>15
  DEF Next, EngineNext, AppNext

\* Where a frame comes from: it was there, it loads a new module, or it
\* visits a module, to resolve it only if it is not resolved.
Origin(j) ==
    \/ /\ j \in 2..Height /\ stack'[j].mod = stack[j].mod /\ Phase' = Phase
       /\ stack'[j].owned => stack[j].owned
    \/ stack'[j].mod = nextDef /\ nextDef \notin Defined /\ Phase' = 1
    \/ /\ ~stack'[j].owned /\ stack'[j].i = 1 /\ stack'[j].op # "body"
       /\ Phase' = 1 => stack'[j].mod \in loaded /\ ~Has(stack'[j].mod, "resolved")

LEMMA FrameOrigin ==
    ASSUME ~Reentrant, StackInv, Next
    PROVE  \A j \in 2..Height' : Origin(j)
<1> USE DEF Origin
<1>1. TypeOK /\ nextDef \notin Defined
  BY TypeFacts DEF StackInv, Defined
<1>2. ASSUME stack' = <<>> PROVE \A j \in 2..Height' : Origin(j)
  BY <1>2 DEF Height
<1>3. ASSUME stack' = stack PROVE \A j \in 2..Height' : Origin(j)
  BY <1>3 DEF Height, Phase
<1>4. ASSUME Height >= 2, IsAdvanced(stack') PROVE \A j \in 2..Height' : Origin(j)
  BY <1>4, StayView
<1>5. ASSUME Height >= 2, NEW op, op # "body", NEW m \in loaded,
             Phase = 1 => ~Has(m, "resolved"),
             AdvancesAndPushes(Frame(op, m, FALSE))
      PROVE  \A j \in 2..Height' : Origin(j)
  <2>1. /\ Frame(op, m, FALSE).mod = m /\ Frame(op, m, FALSE).i = 1
        /\ Frame(op, m, FALSE).op = op /\ ~Frame(op, m, FALSE).owned
    BY DEF Frame
  <2> DEFINE f == Frame(op, m, FALSE)
  <2> HIDE DEF f
  <2>2. f.mod = m /\ f.i = 1 /\ f.op = op /\ ~f.owned /\ AdvancesAndPushes(f)
    BY <1>5, <2>1 DEF f
  <2>3. /\ Phase' = Phase /\ stack'[Height + 1] = f
        /\ \A j \in 2..Height' : j \in 2..Height \/ j = Height + 1
        /\ \A j \in 2..Height : /\ stack'[j].mod = stack[j].mod
                                /\ stack'[j].owned <=> stack[j].owned
    BY <1>5, <2>2, PushView
  <2>4. QED
    BY <1>5, <2>2, <2>3
<1>6. CASE ResolveRequest
  <2>1. /\ stack # <<>> /\ Top.op = "resolve"
        /\ (\E m : ResolveFinds(m)) \/ ResolveLoads \/ ResolveFails
    BY <1>1, <1>6, ResolveEffect
  <2>2. Height >= 2 /\ Phase = 1
    BY <2>1, Shape, OpPhase
  <2>3. ASSUME NEW m, ResolveFinds(m) PROVE \A j \in 2..Height' : Origin(j)
    BY <1>4, <1>5, <2>2, <2>3 DEF ResolveFinds
  <2>4. CASE ResolveLoads
    <3>1. Frame("resolve", nextDef, TRUE).mod = nextDef
      BY DEF Frame
    <3>2. IsPushed(stack, stack', Frame("resolve", nextDef, TRUE))
      BY <2>4 DEF ResolveLoads
    <3>3. /\ Phase' = Phase /\ stack'[Height + 1] = Frame("resolve", nextDef, TRUE)
          /\ \A j \in 2..Height' : j \in 2..Height \/ j = Height + 1
          /\ \A j \in 2..Height : stack'[j] = stack[j]
      BY <2>2, <3>2, LoadView
    <3>4. QED
      BY <1>1, <2>2, <3>1, <3>3
  <2>5. CASE ResolveFails
    BY <1>3, <2>5 DEF ResolveFails
  <2>6. QED
    BY <2>1, <2>3, <2>4, <2>5
<1>7. ASSUME NEW op \in {"create", "link", "evaluate"}, NextRequest(op)
      PROVE  \A j \in 2..Height' : Origin(j)
  <2> DEFINE m == def[Top.mod].tgt[Top.i]
  <2>1. stack # <<>> /\ Top.op = op /\ Visits(op, m)
    BY <1>1, <1>7, RequestEffect
  <2>2. Height >= 2 /\ Phase # 1 /\ op # "body"
    BY <2>1, Shape, OpPhase
  <2> HIDE DEF m
  <2>3. QED
    BY <1>3, <1>4, <1>5, <2>1, <2>2 DEF Visits, VisitFaults, VisitPushes, VisitSkips
<1>8. CASE NextStage
  <2>1. /\ Phase \in 1..3 /\ Phase' = Phase + 1
        /\ Stages[Phase] \in {"create", "link", "evaluate"}
        /\ \/ Height' = 2 /\ stack'[2] = Frame(Stages[Phase], stack[1].mod, FALSE)
           \/ Height' = 1
    BY <1>8, StageView
  <2>2. Phase' # 1
    BY <2>1
  <2>3. CASE Height' = 1
    BY <2>3
  <2>4. CASE Height' # 1
    <3>1. Height' = 2 /\ stack'[2] = Frame(Stages[Phase], stack[1].mod, FALSE)
      BY <2>1, <2>4
    <3>2. \A j \in 2..Height' : j = 2
      BY <3>1
    <3>3. QED
      BY <2>1, <2>2, <3>1, <3>2 DEF Frame
  <2>5. QED
    BY <2>1, <2>3, <2>4
<1>9. CASE EnterBody
  BY <1>9, EnterView
<1>10. ASSUME Pops PROVE \A j \in 2..Height' : Origin(j)
  <2>1. stack # <<>> /\ IsBelow(stack')
    BY <1>10 DEF Pops
  <2>2. Height \in Nat \ {0}
    BY <2>1, Shape
  <2>3. CASE Height = 1
    BY <1>2, <2>1, <2>3 DEF IsBelow
  <2>4. CASE Height >= 2
    BY <2>1, <2>4, PopView
  <2>5. QED
    BY <2>2, <2>3, <2>4
<1>11. CASE TraversalDone \/ LinkDone \/ InitNative \/ LeaveBody \/ EvalReturns
  BY <1>1, <1>10, <1>11, TraversalDoneEffect, LinkDoneEffect, InitNativeEffect,
     LeaveBodyEffect, EvalReturnsEffect
<1>12. CASE UnwindResolve \/ UnwindLink \/ EvalFails \/ UnwindEvaluate
  BY <1>1, <1>10, <1>12, UnwindEffect, UnwindEvaluateEffect
<1>13. ASSUME NEW n \in Natives, Module(n) PROVE \A j \in 2..Height' : Origin(j)
  BY <1>1, <1>3, <1>13, ModuleEffect
<1>14. ASSUME NEW m \in swift, Function(m) PROVE \A j \in 2..Height' : Origin(j)
  BY <1>1, <1>3, <1>14, FunctionEffect
<1>15. ASSUME stack = <<>>, NEW name, NEW imports, Starts(name, imports)
       PROVE  \A j \in 2..Height' : Origin(j)
  <2>1. Height' = 2 /\ Phase' = 1 /\ stack'[2] = Frame("resolve", nextDef, TRUE)
    BY <1>1, <1>15, StartView
  <2>2. \A j \in 2..Height' : j = 2
    BY <2>1
  <2>3. QED
    BY <1>1, <2>1, <2>2 DEF Frame
<1>16. ASSUME NEW imports \in RootTexts, Eval(imports) PROVE \A j \in 2..Height' : Origin(j)
  BY <1>1, <1>15, <1>16, EvalEffect
<1>17. ASSUME NEW n \in Names, Import(n) PROVE \A j \in 2..Height' : Origin(j)
  <2>1. stack = <<>> /\ (Starts(n, text[n]) \/ \E m : ImportFinds(n, m))
    BY <1>1, <1>17, ImportEffect
  <2>2. ASSUME NEW m, ImportFinds(n, m) PROVE \A j \in 2..Height' : Origin(j)
    <3>1. /\ Height' \in 1..2
          /\ Height' = 2 => stack'[2] = Frame("resolve", m, FALSE)
      BY <1>1, <2>1, <2>2, ImportView
    <3>2. m \in loaded /\ (Height' = 2 => ~Has(m, "resolved"))
      BY <2>2 DEF ImportFinds, Height
    <3>3. \A j \in 2..Height' : j = 2 /\ Height' = 2
      BY <3>1
    <3>4. QED
      BY <3>1, <3>2, <3>3 DEF Frame
  <2>3. QED
    BY <1>15, <2>1, <2>2
<1>18. QED
  BY <1>6, <1>7, <1>8, <1>9, <1>11, <1>12, <1>13, <1>14, <1>16, <1>17
  DEF Next, EngineNext, AppNext

\* The steps that set evaluated, eval_has_exception and eval_mark.
SetsResults ==
    \A a \in Defined' \cup Defined :
        /\ "evaluated" \in def'[a].flags =>
              \/ a \in Defined /\ Has(a, "evaluated")
              \/ (InitNative \/ LeaveBody) /\ a = Top.mod
        /\ "exc" \in def'[a].flags => (a \in Defined /\ Has(a, "exc")) \/ (LeaveBody /\ a = Top.mod)
        /\ "mark" \in def'[a].flags =>
              \/ a \in Defined /\ Has(a, "mark")
              \/ (NextStage \/ NextRequest("evaluate")) /\ VisitPushes("evaluate", a)

LEMMA ResultStep ==
    ASSUME TypeOK, Next
    PROVE  SetsResults
<1>1. Defined \subseteq Addr /\ loaded \subseteq Addr /\ nextDef \notin Defined /\ NewFlags
  BY TypeFacts, NewFlagsStep DEF Defined
<1>2. \A a \in Defined' \ Defined :
          \A f \in {"evaluated", "mark", "exc"} : f \notin def'[a].flags
  BY <1>1 DEF NewFlags
<1>3. SUFFICES ASSUME NEW a \in Defined
               PROVE  /\ "evaluated" \in def'[a].flags =>
                            \/ Has(a, "evaluated")
                            \/ (InitNative \/ LeaveBody) /\ a = Top.mod
                      /\ "exc" \in def'[a].flags => Has(a, "exc") \/ (LeaveBody /\ a = Top.mod)
                      /\ "mark" \in def'[a].flags =>
                            \/ Has(a, "mark")
                            \/ (NextStage \/ NextRequest("evaluate")) /\ VisitPushes("evaluate", a)
  BY <1>2 DEF SetsResults
<1> DEFINE Same == \A f \in {"evaluated", "mark", "exc"} : f \in def'[a].flags => Has(a, f)
<1>4. ASSUME def' = def PROVE Same
  BY <1>4 DEF Has
<1>5. ASSUME NEW m, NEW F, SetFlags(m, F),
             \A f \in {"evaluated", "mark", "exc"} : f \in F => Has(m, f)
      PROVE  Same
  BY <1>1, <1>5 DEF SetFlags, Has
<1>6. ASSUME NEW name, NEW imports, NEW F, Defines(name, imports, F) PROVE Same
  BY <1>1, <1>6 DEF Defines, Has
<1>7. ASSUME NEW op \in {"create", "link"}, NEW m, Visits(op, m) PROVE Same
  <2>1. \A f \in {"evaluated", "mark", "exc"} : f \in def[m].flags \cup {FlagOf(op)} => Has(m, f)
    BY <1>7 DEF FlagOf, Has
  <2>2. QED
    BY <1>4, <1>5, <1>7, <2>1 DEF Visits, VisitFaults, VisitPushes, VisitSkips
<1>8. ASSUME NEW m, Visits("evaluate", m)
      PROVE  \/ Same
             \/ /\ VisitPushes("evaluate", a)
                /\ \A f \in {"evaluated", "exc"} : f \in def'[a].flags => Has(a, f)
  <2>1. CASE VisitPushes("evaluate", m) /\ a = m
    <3>1. def'[a].flags = def[a].flags \cup {"mark"}
      BY <1>1, <2>1 DEF VisitPushes, SetFlags, FlagOf
    <3>2. QED
      BY <2>1, <3>1 DEF Has
  <2>2. CASE VisitPushes("evaluate", m) /\ a # m
    BY <1>1, <2>2 DEF VisitPushes, SetFlags, Has
  <2>3. CASE VisitFaults(m) \/ VisitSkips("evaluate", m)
    BY <1>4, <2>3 DEF VisitFaults, VisitSkips
  <2>4. QED
    BY <1>8, <2>1, <2>2, <2>3 DEF Visits
<1>9. CASE ResolveRequest
  <2>1. (\E m : ResolveFinds(m)) \/ ResolveLoads \/ ResolveFails
    BY <1>9, ResolveEffect
  <2>2. ASSUME NEW m, ResolveFinds(m) PROVE Same
    BY <1>1, <2>2 DEF ResolveFinds, Meets, Has
  <2>3. QED
    BY <1>4, <1>6, <2>1, <2>2 DEF ResolveLoads, ResolveFails
<1>10. CASE NextRequest("create") \/ NextRequest("link")
  BY <1>7, <1>10, RequestEffect
<1>11. CASE NextRequest("evaluate")
  BY <1>8, <1>11, RequestEffect
<1>12. CASE NextStage
  <2>1. \E m : Visits("create", m) \/ Visits("link", m) \/ Visits("evaluate", m)
    BY <1>12, StageEffect
  <2>2. QED
    BY <1>7, <1>8, <1>12, <2>1
<1>13. CASE TraversalDone \/ LinkDone \/ EvalReturns \/ EnterBody
  BY <1>4, <1>13, TraversalDoneEffect, LinkDoneEffect, EvalReturnsEffect, EnterBodyEffect
<1>14. CASE UnwindResolve \/ UnwindLink \/ EvalFails
  BY <1>4, <1>14, UnwindEffect
<1>15. CASE UnwindEvaluate
  BY <1>5, <1>15, UnwindEvaluateEffect DEF Has
<1>16. CASE InitNative
  <2>1. SetFlags(Top.mod, AfterRun(Top.mod) \cup IF Top.mod \in swift THEN {"exported"} ELSE {})
    BY <1>16, InitNativeEffect
  <2>2. QED
    BY <1>1, <1>16, <2>1 DEF SetFlags, AfterRun, Has
<1>17. CASE LeaveBody
  <2>1. \/ SetFlags(Top.mod, AfterRun(Top.mod))
        \/ SetFlags(Top.mod, AfterRun(Top.mod) \cup {"exc"})
    BY <1>17, LeaveBodyEffect
  <2>2. QED
    BY <1>1, <1>17, <2>1 DEF SetFlags, AfterRun, Has
<1>18. ASSUME NEW n \in Natives, Module(n) PROVE Same
  BY <1>6, <1>18, ModuleEffect
<1>19. ASSUME NEW m \in swift, Function(m) PROVE Same
  BY <1>4, <1>5, <1>19, FunctionEffect DEF Has
<1>20. ASSUME NEW imports \in RootTexts, Eval(imports) PROVE Same
  BY <1>6, <1>20, EvalEffect DEF Starts
<1>21. ASSUME NEW n \in Names, Import(n) PROVE Same
  <2>1. Starts(n, text[n]) \/ \E m : ImportFinds(n, m)
    BY <1>21, ImportEffect
  <2>2. ASSUME NEW m, ImportFinds(n, m) PROVE Same
    BY <1>5, <2>2 DEF ImportFinds, Has
  <2>3. QED
    BY <1>6, <2>1, <2>2 DEF Starts
<1>22. QED
  BY <1>9, <1>10, <1>11, <1>12, <1>13, <1>14, <1>15, <1>16, <1>17, <1>18, <1>19, <1>20, <1>21
  DEF Next, EngineNext, AppNext

\* A module that is being resolved has not been evaluated, unless it has
\* nothing to resolve.
FreshInv ==
    \A j \in 2..Height : Phase = 1 /\ Has(stack[j].mod, "evaluated") => IsNative(stack[j].mod)

LEMMA RunsLast ==
    ASSUME StackInv, InitNative \/ LeaveBody
    PROVE  /\ stack # <<>> /\ InEvaluation /\ Height \in Nat /\ Top = stack[Height]
           /\ IsBelow(stack') /\ Phase' = 4 /\ Top.mod \in Defined /\ Top.mod \in Addr
<1>1. /\ Pops /\ stack # <<>> /\ (Top.op = "evaluate" \/ Top.op = "body")
  BY InitNativeEffect, LeaveBodyEffect DEF DoneWith, Pops, StackInv
<1>2. Height >= 2 /\ Phase = 4 /\ Height \in Nat /\ Top = stack[Height]
  BY <1>1, Shape, OpPhase
<1>3. IsBelow(stack') /\ Phase' = 4
  BY <1>1, <1>2, PopView DEF Pops
<1>4. QED
  BY <1>1, <1>2, <1>3, TopType DEF InEvaluation, StackInv

LEMMA FreshNext ==
    ASSUME ~Reentrant, StackInv, ResolvedInv, FreshInv, Next
    PROVE  FreshInv'
<1>1. /\ TypeOK /\ TypeOK' /\ SameNames /\ SetsResults
  BY TypeNext, NamesSame, ResultStep DEF StackInv
<1> SUFFICES ASSUME NEW j \in 2..Height', Phase' = 1, "evaluated" \in def'[stack'[j].mod].flags
             PROVE  def'[stack'[j].mod].name \in Natives
  BY DEF FreshInv, Has, IsNative
<1> DEFINE b == stack'[j].mod
<1>2. b \in Defined'
  <2>1. stack' \in Seq(FrameType) /\ nextDef' \in Nat
    BY <1>1, BoundsAssumption DEF TypeOK, FrameType
  <2>2. j \in DOMAIN stack' /\ stack'[j] \in FrameType
    BY <2>1 DEF Height
  <2>3. b < nextDef' /\ b \in Addr
    BY <1>1, <2>2 DEF TypeOK, FrameType
  <2>4. QED
    BY <2>1, <2>3, BoundsAssumption DEF Defined, Addr
<1>3. b \in Defined /\ Has(b, "evaluated")
  <2>1. ~(InitNative \/ LeaveBody)
    BY RunsLast
  <2>2. QED
    BY <1>1, <1>2, <2>1 DEF SetsResults
<1>4. Origin(j)
  BY FrameOrigin
<1>5. IsNative(b)
  BY <1>3, <1>4 DEF Origin, FreshInv, ResolvedInv, IsNative
<1>6. QED
  BY <1>1, <1>3, <1>5 DEF SameNames, IsNative

\* A module has run once if it is evaluated or in its body, and else never.
OnceInv ==
    /\ \A a \in Addr : ran[a] \in {0, 1}
    /\ \A a \in Addr : ran[a] = 1 =>
          a \in Defined /\ (Has(a, "evaluated") \/ InBody(a))
    /\ \A j \in 2..Height : stack[j].op = "body" => ~IsNative(stack[j].mod)

\* Evaluation clears the mark, and sets the exception or the exports.
FlagInv ==
    \A a \in Defined :
        /\ Has(a, "mark") => ~Has(a, "evaluated")
        /\ Has(a, "exc") => Has(a, "evaluated")
        /\ Has(a, "evaluated") /\ IsNative(a) => Has(a, "exported")

LEMMA FlagNext ==
    ASSUME StackInv, NameInv, OnceInv, FlagInv, Next
    PROVE  FlagInv'
<1>1. TypeOK /\ SetsResults /\ SameNames /\ FlagsGrow
  BY ResultStep, NamesSame, FlagsStep DEF StackInv
<1>2. ASSUME InitNative \/ LeaveBody
      PROVE  /\ "mark" \notin def'[Top.mod].flags /\ "evaluated" \in def'[Top.mod].flags
             /\ Top.mod \in Defined /\ (IsNative(Top.mod) => "exported" \in def'[Top.mod].flags)
  <2>1. /\ Top.mod \in Defined /\ Top.mod \in Addr /\ Height \in 2..Height /\ Top = stack[Height]
    BY <1>2, RunsLast DEF InEvaluation
  <2>2. CASE InitNative
    <3>1. Top.mod \in swift
      BY <1>1, <2>1, <2>2, InitNativeEffect DEF IsNative, NameInv
    <3>2. SetFlags(Top.mod, AfterRun(Top.mod) \cup {"exported"})
      BY <1>1, <2>2, <3>1, InitNativeEffect
    <3>3. QED
      BY <2>1, <3>2 DEF SetFlags, AfterRun
  <2>3. CASE LeaveBody
    <3>1. /\ Top.op = "body"
          /\ \/ SetFlags(Top.mod, AfterRun(Top.mod))
             \/ SetFlags(Top.mod, AfterRun(Top.mod) \cup {"exc"})
      BY <1>1, <2>3, LeaveBodyEffect
    <3>2. ~IsNative(Top.mod)
      BY <2>1, <3>1 DEF OnceInv
    <3>3. QED
      BY <2>1, <3>1, <3>2 DEF SetFlags, AfterRun
  <2>4. QED
    BY <1>2, <2>2, <2>3
<1> SUFFICES ASSUME NEW a \in Defined'
             PROVE  /\ ~("mark" \in def'[a].flags /\ "evaluated" \in def'[a].flags)
                    /\ "exc" \in def'[a].flags => "evaluated" \in def'[a].flags
                    /\ "evaluated" \in def'[a].flags /\ def'[a].name \in Natives =>
                          "exported" \in def'[a].flags
  BY DEF FlagInv, Has, IsNative
<1>3. ASSUME "mark" \in def'[a].flags, "evaluated" \in def'[a].flags PROVE FALSE
  <2>1. a \in Defined /\ Has(a, "evaluated")
    BY <1>1, <1>2, <1>3 DEF SetsResults
  <2>2. Has(a, "mark") \/ ~Visited("evaluate", a)
    BY <1>1, <1>3 DEF SetsResults, VisitPushes
  <2>3. QED
    BY <2>1, <2>2 DEF FlagInv, Visited
<1>4. ASSUME "exc" \in def'[a].flags PROVE "evaluated" \in def'[a].flags
  <2>1. (a \in Defined /\ Has(a, "exc")) \/ (LeaveBody /\ a = Top.mod)
    BY <1>1, <1>4 DEF SetsResults
  <2>2. ASSUME a \in Defined, Has(a, "exc") PROVE "evaluated" \in def'[a].flags
    BY <1>1, <2>2 DEF FlagInv, FlagsGrow, Has
  <2>3. QED
    BY <1>2, <2>1, <2>2
<1>5. ASSUME "evaluated" \in def'[a].flags, def'[a].name \in Natives
      PROVE  "exported" \in def'[a].flags
  <2>1. a \in Defined
    BY <1>1, <1>2, <1>5 DEF SetsResults
  <2>2. IsNative(a)
    BY <1>1, <1>5, <2>1 DEF SameNames, IsNative
  <2>3. ASSUME Has(a, "evaluated") PROVE "exported" \in def'[a].flags
    BY <1>1, <2>1, <2>2, <2>3 DEF FlagInv, FlagsGrow, Has
  <2>4. QED
    BY <1>1, <1>2, <1>5, <2>2, <2>3 DEF SetsResults
<1>6. QED
  BY <1>3, <1>4, <1>5

LEMMA SuccessStep ==
    ASSUME StackInv, FlagInv, Next, NEW t \in Defined, Succeeded(t)
    PROVE  NowSucceeded(t)
<1>1. TypeOK /\ SetsResults /\ SameNames /\ FlagsGrow
  BY ResultStep, NamesSame, FlagsStep DEF StackInv
<1>2. Has(t, "evaluated") /\ ~Has(t, "exc") /\ (IsNative(t) => Has(t, "exported"))
  BY DEF Succeeded
<1>3. "exc" \notin def'[t].flags
  <2>1. SUFFICES ASSUME LeaveBody, t = Top.mod PROVE FALSE
    BY <1>1, <1>2 DEF SetsResults
  <2>2. stack # <<>> /\ InEvaluation
    BY <2>1, RunsLast
  <2>3. Has(t, "mark")
    BY <2>1, <2>2, Shape, OpPhase DEF InEvaluation
  <2>4. QED
    BY <1>2, <2>3 DEF FlagInv
<1>4. "evaluated" \in def'[t].flags
  BY <1>1, <1>2 DEF FlagsGrow, Has
<1>5. def'[t].name \in Natives => "exported" \in def'[t].flags
  BY <1>1, <1>2 DEF FlagsGrow, SameNames, Has, IsNative
<1>6. QED
  BY <1>3, <1>4, <1>5 DEF NowSucceeded

\* Request i of module a is met by a module that is evaluated, without
\* exception, or that imports a in turn.
Settled(a, i) ==
    /\ def[a].tgt[i] # 0
    /\ \/ Succeeded(def[a].tgt[i])
       \/ Way(text, def[def[a].tgt[i]].name, def[a].name)

NowSettled(a, i) ==
    /\ def'[a].tgt[i] # 0
    /\ \/ NowSucceeded(def'[a].tgt[i])
       \/ Way(text', def'[def'[a].tgt[i]].name, def'[a].name)

LEMMA SettledStep ==
    ASSUME StackInv, FlagInv, Next, NEW a \in Defined, NEW i \in 1..Len(def[a].tgt),
           def'[a].tgt[i] = def[a].tgt[i], Settled(a, i)
    PROVE  NowSettled(a, i)
<1>1. TypeOK /\ SameNames
  BY NamesSame DEF StackInv
<1>2. def[a].tgt[i] # 0 /\ def[a].tgt[i] \in Defined
  BY <1>1, TypeFacts DEF Settled
<1>3. Succeeded(def[a].tgt[i]) => NowSucceeded(def[a].tgt[i])
  BY <1>2, SuccessStep
<1>4. Way(text, def[def[a].tgt[i]].name, def[a].name) =>
          Way(text', def'[def[a].tgt[i]].name, def'[a].name)
  BY <1>1, <1>2 DEF SameNames
<1>5. QED
  BY <1>2, <1>3, <1>4 DEF Settled, NowSettled

DoneInv ==
    \A a \in Defined : Has(a, "evaluated") => \A i \in 1..Len(def[a].tgt) : Settled(a, i)

\* The requests that a frame has behind it are met so; about the last of
\* them the frame above will say, or the exception says.
HereInv ==
    \A j \in 2..Height : Phase = 4 =>
        \A i \in 1..Len(def[stack[j].mod].tgt) :
            i < stack[j].i \/ stack[j].op = "body" =>
                \/ Settled(stack[j].mod, i)
                \/ /\ stack[j].op = "evaluate" /\ i = stack[j].i - 1
                   /\ failing \/ (/\ j < Height
                                  /\ stack[j + 1].mod = def[stack[j].mod].tgt[i])

\* What the frame on top has behind it while nothing fails.
LEMMA TopSettled ==
    ASSUME StackInv, HereInv, InEvaluation, ~failing,
           NEW i \in 1..Len(def[Top.mod].tgt), i < Top.i \/ Top.op = "body"
    PROVE  Settled(Top.mod, i)
<1>1. Height \in Nat /\ Height \in 2..Height /\ Top = stack[Height] /\ ~(Height < Height)
  <2>1. TypeOK /\ stack # <<>> /\ Height >= 2
    BY TypeFacts DEF StackInv, Height, InEvaluation
  <2>2. QED
    BY <2>1, TopType
<1>2. QED
  BY <1>1 DEF HereInv, InEvaluation

LEMMA DoneNext ==
    ASSUME ~Reentrant, StackInv, NameInv, FreshInv, FlagInv, DoneInv, HereInv, Next
    PROVE  DoneInv'
<1>1. TypeOK /\ TypeOK' /\ SetsResults
  BY TypeNext, ResultStep DEF StackInv
<1> SUFFICES ASSUME NEW a \in Defined', "evaluated" \in def'[a].flags,
                    NEW i \in 1..Len(def'[a].tgt)
             PROVE  NowSettled(a, i)
  BY DEF DoneInv, Settled, NowSettled, Succeeded, NowSucceeded, Has, IsNative
<1>2. ASSUME InitNative \/ LeaveBody, a = Top.mod PROVE NowSettled(a, i)
  <2>1. InEvaluation /\ a \in Defined /\ a \in Addr
    BY <1>2, RunsLast
  <2>2. def'[a].tgt = def[a].tgt
    BY <1>1, <1>2, <2>1, InitNativeEffect, LeaveBodyEffect DEF SetFlags
  <2>3. CASE InitNative
    <3>1. def[a].req = <<>>
      BY <1>1, <1>2, <2>1, <2>3, InitNativeEffect DEF IsNative, NameInv
    <3>2. Len(def[a].tgt) = 0
      BY <1>1, <2>1, <3>1, TypeFacts
    <3>3. QED
      BY <2>2, <3>2
  <2>4. CASE LeaveBody
    <3>1. Top.op = "body" /\ ~failing
      BY <1>1, <2>4, LeaveBodyEffect
    <3>2. Settled(a, i)
      BY <1>2, <2>1, <2>2, <3>1, TopSettled
    <3>3. QED
      BY <1>1, <2>1, <2>2, <3>2, SettledStep
  <2>5. QED
    BY <1>2, <2>3, <2>4
<1>3. ASSUME a \in Defined, Has(a, "evaluated") PROVE NowSettled(a, i)
  <2>1. a \in Addr
    BY <1>1, <1>3, TypeFacts
  <2>2. CASE KeepsDefs
    BY <1>1, <1>3, <2>1, <2>2, SettledStep DEF KeepsDefs, DoneInv
  <2>3. CASE AddsDef
    <3>1. def'[a] = def[a]
      <4>1. a # nextDef
        BY <1>1, <1>3, TypeFacts DEF Defined
      <4>2. QED
        BY <2>1, <2>3, <4>1 DEF AddsDef, Defines
    <3>2. QED
      BY <1>1, <1>3, <3>1, SettledStep DEF DoneInv
  <2>4. CASE MeetsRequest
    <3>1. /\ stack # <<>> /\ Top.op = "resolve" /\ Top.i \in 1..Len(def[Top.mod].req)
          /\ \E m : Meets(Top.mod, Top.i, m)
      BY <2>4 DEF MeetsRequest, ResolveFinds
    <3>2. /\ Height \in 2..Height /\ Phase = 1 /\ Top = stack[Height] /\ Top.mod \in Defined
      BY <1>1, <3>1, Shape, OpPhase, TopType
    <3>3. a # Top.mod
      <4>1. SUFFICES ASSUME a = Top.mod PROVE FALSE
        OBVIOUS
      <4>2. def[Top.mod].req = <<>>
        BY <1>3, <3>2, <4>1 DEF FreshInv, IsNative, NameInv
      <4>3. QED
        BY <3>1, <4>2
    <3>4. i \in 1..Len(def[a].tgt) /\ def'[a].tgt[i] = def[a].tgt[i]
      <4>1. PICK m : Meets(Top.mod, Top.i, m)
        BY <3>1
      <4>2. Len(def'[a].tgt) = Len(def[a].tgt)
        BY <2>1, <4>1 DEF Meets
      <4>3. i \in 1..Len(def[a].tgt)
        BY <4>2
      <4>4. QED
        BY <2>1, <3>3, <4>1, <4>3 DEF Meets
    <3>5. QED
      BY <1>1, <1>3, <3>4, SettledStep DEF DoneInv
  <2>5. QED
    BY <1>1, <2>2, <2>3, <2>4, DefsStep
<1>4. QED
  BY <1>1, <1>2, <1>3 DEF SetsResults

\* A request is not met yet, or is met by a module that imports the module
\* in turn, or by a loaded one that no frame may free.
SafeInv ==
    \A m \in loaded : \A i \in 1..Len(def[m].tgt) :
        \/ def[m].tgt[i] = 0
        \/ Way(text, def[def[m].tgt[i]].name, def[m].name)
        \/ /\ def[m].tgt[i] \in loaded
           /\ \A j \in 2..Height : stack[j].owned => stack[j].mod # def[m].tgt[i]

NowSafe(m, t) ==
    \/ t = 0
    \/ Way(text', def'[t].name, def'[m].name)
    \/ t \in loaded' /\ \A j \in 2..Height' : stack'[j].owned => stack'[j].mod # t

\* What a step takes out of the list.
LEMMA UnloadStep ==
    ASSUME TypeOK, Next
    PROVE  \/ loaded \subseteq loaded'
           \/ /\ stack # <<>> /\ Top.op = "resolve" /\ Top.owned
              /\ loaded' = loaded \ {Top.mod}
           \/ loaded' = {m \in loaded : Has(m, "evaluated")}
<1>1. CASE ResolveRequest
  <2>1. (\E m : ResolveFinds(m)) \/ ResolveLoads \/ ResolveFails
    BY <1>1, ResolveEffect
  <2>2. QED
    BY <2>1 DEF ResolveFinds, ResolveLoads, ResolveFails, Defines
<1>2. CASE \E op \in {"create", "link", "evaluate"} : NextRequest(op)
  BY <1>2, RequestEffect
<1>3. CASE NextStage
  BY <1>3, StageEffect
<1>4. CASE TraversalDone \/ LinkDone \/ EvalReturns \/ InitNative \/ LeaveBody \/ EnterBody
  BY <1>4, TraversalDoneEffect, LinkDoneEffect, EvalReturnsEffect, InitNativeEffect,
     LeaveBodyEffect, EnterBodyEffect
<1>5. CASE UnwindResolve \/ UnwindLink \/ EvalFails
  BY <1>5, UnwindEffect DEF Unloads, Pops
<1>6. CASE UnwindEvaluate
  BY <1>6, UnwindEvaluateEffect
<1>7. CASE \E n \in Natives : Module(n)
  BY <1>7, ModuleEffect DEF Defines
<1>8. CASE \E m \in swift : Function(m)
  BY <1>8, FunctionEffect
<1>9. CASE \E imports \in RootTexts : Eval(imports)
  BY <1>9, EvalEffect DEF Starts, Defines
<1>10. CASE \E n \in Names : Import(n)
  BY <1>10, ImportEffect DEF Starts, Defines, ImportFinds
<1>11. QED
  BY <1>1, <1>2, <1>3, <1>4, <1>5, <1>6, <1>7, <1>8, <1>9, <1>10
  DEF Next, EngineNext, AppNext

\* No frame that may free module t comes to the stack.
LEMMA NewlyOwned ==
    ASSUME ~Reentrant, StackInv, Next, NEW t \in Defined,
           \A j \in 2..Height : stack[j].owned => stack[j].mod # t
    PROVE  \A j \in 2..Height' : stack'[j].owned => stack'[j].mod # t
BY FrameOrigin DEF Origin

LEMMA SafeOld ==
    ASSUME ~Reentrant, StackInv, SafeInv, DoneInv, Next,
           NEW m \in loaded, m \in loaded', NEW i \in 1..Len(def[m].tgt)
    PROVE  NowSafe(m, def[m].tgt[i])
<1> DEFINE t == def[m].tgt[i]
<1>1. TypeOK /\ SameNames /\ loaded \subseteq Defined /\ Defined \subseteq Addr
  BY NamesSame, TypeFacts DEF StackInv
<1>2. m \in Defined /\ (t = 0 \/ t \in Defined)
  BY <1>1, TypeFacts
<1>3. CASE t = 0
  BY <1>3 DEF NowSafe
<1>4. CASE t # 0 /\ Way(text, def[t].name, def[m].name)
  <2>1. Way(text', def'[t].name, def'[m].name)
    BY <1>1, <1>2, <1>4 DEF SameNames
  <2>2. QED
    BY <2>1 DEF NowSafe
<1>5. CASE /\ t # 0 /\ ~Way(text, def[t].name, def[m].name)
           /\ t \in loaded /\ \A j \in 2..Height : stack[j].owned => stack[j].mod # t
  <2>1. \A j \in 2..Height' : stack'[j].owned => stack'[j].mod # t
    <3> HIDE DEF t
    <3>1. QED
      BY <1>2, <1>5, NewlyOwned
  <2>2. t \in loaded'
    <3>1. CASE loaded \subseteq loaded'
      BY <1>5, <3>1
    <3>2. CASE /\ stack # <<>> /\ Top.op = "resolve" /\ Top.owned
               /\ loaded' = loaded \ {Top.mod}
      <4>1. Height \in 2..Height /\ Top = stack[Height]
        BY <3>2, Shape
      <4>2. QED
        BY <1>5, <3>2, <4>1
    <3>3. CASE loaded' = {a \in loaded : Has(a, "evaluated")}
      <4>1. Settled(m, i)
        BY <1>2, <3>3 DEF DoneInv
      <4>2. Has(t, "evaluated")
        BY <1>5, <4>1 DEF Settled, Succeeded
      <4>3. QED
        BY <1>5, <3>3, <4>2
    <3>4. QED
      BY <1>1, <3>1, <3>2, <3>3, UnloadStep
  <2>3. QED
    BY <2>1, <2>2 DEF NowSafe
<1>6. QED
  BY <1>3, <1>4, <1>5 DEF SafeInv

LEMMA SafeNext ==
    ASSUME ~Reentrant, StackInv, WayInv, SafeInv, DoneInv, Next
    PROVE  SafeInv'
<1>1. TypeOK /\ SameNames /\ loaded \subseteq Defined /\ Defined \subseteq Addr
  BY NamesSame, TypeFacts DEF StackInv
<1> SUFFICES ASSUME NEW m \in loaded', NEW i \in 1..Len(def'[m].tgt)
             PROVE  NowSafe(m, def'[m].tgt[i])
  BY DEF SafeInv, NowSafe
<1>2. ASSUME m \in loaded, Len(def'[m].tgt) = Len(def[m].tgt), def'[m].tgt[i] = def[m].tgt[i]
      PROVE  NowSafe(m, def'[m].tgt[i])
  <2>1. i \in 1..Len(def[m].tgt)
    BY <1>2
  <2>2. NowSafe(m, def[m].tgt[i])
    BY <1>2, <2>1, SafeOld
  <2>3. QED
    BY <1>2, <2>2
<1>3. CASE KeepsDefs
  BY <1>1, <1>2, <1>3 DEF KeepsDefs
<1>4. CASE AddsDef
  <2>1. PICK name, imports, F : Defines(name, imports, F)
    BY <1>4 DEF AddsDef
  <2>2. CASE m = nextDef
    <3>1. def'[m].tgt[i] = 0
      BY <2>1, <2>2 DEF Defines
    <3>2. QED
      BY <3>1 DEF NowSafe
  <2>3. CASE m # nextDef
    <3>1. m \in loaded /\ m \in Addr
      BY <1>1, <2>1, <2>3 DEF Defines
    <3>2. def'[m] = def[m]
      BY <2>1, <2>3, <3>1 DEF Defines
    <3>3. QED
      BY <1>2, <3>1, <3>2
  <2>4. QED
    BY <2>2, <2>3
<1>5. CASE MeetsRequest
  <2>1. PICK x : ResolveFinds(x)
    BY <1>5 DEF MeetsRequest
  <2>2. /\ loaded' = loaded /\ x \in loaded /\ Meets(Top.mod, Top.i, x)
    BY <2>1 DEF ResolveFinds
  <2>3. m \in loaded /\ m \in Addr /\ Len(def'[m].tgt) = Len(def[m].tgt)
    BY <1>1, <2>2 DEF Meets
  <2>4. i \in 1..Len(def[m].tgt)
    BY <2>3
  <2>5. CASE m = Top.mod /\ i = Top.i
    <3>1. def'[m].tgt[i] = x /\ x \in Defined /\ m \in Defined
      BY <1>1, <2>2, <2>3, <2>4, <2>5 DEF Meets
    <3>2. CASE \A j \in 2..Height : stack[j].owned => stack[j].mod # x
      <4>1. \A j \in 2..Height' : stack'[j].owned => stack'[j].mod # x
        BY <3>1, <3>2, NewlyOwned
      <4>2. QED
        BY <2>2, <3>1, <4>1 DEF NowSafe
    <3>3. CASE \E j \in 2..Height : stack[j].mod = x
      <4>1. PICK j \in 2..Height : stack[j].mod = x
        BY <3>3
      <4>2. Height \in 2..Height /\ j <= Height /\ Top = stack[Height]
        <5>1. stack # <<>>
          BY <1>5 DEF MeetsRequest
        <5>2. Height \in Nat /\ Top = stack[Height]
          BY <5>1, Shape
        <5>3. QED
          BY <4>1, <5>2
      <4>3. Way(text, def[x].name, def[m].name)
        BY <2>5, <4>1, <4>2 DEF WayInv
      <4>4. Way(text', def'[x].name, def'[m].name)
        BY <1>1, <3>1, <4>3 DEF SameNames
      <4>5. QED
        BY <3>1, <4>4 DEF NowSafe
    <3>4. QED
      BY <3>2, <3>3
  <2>6. CASE ~(m = Top.mod /\ i = Top.i)
    <3>1. def'[m].tgt[i] = def[m].tgt[i]
      BY <2>2, <2>3, <2>4, <2>6 DEF Meets
    <3>2. QED
      BY <1>2, <2>3, <3>1
  <2>7. QED
    BY <2>5, <2>6
<1>6. QED
  BY <1>1, <1>3, <1>4, <1>5, DefsStep

\* The steps of the last traversal.
LEMMA EvaluationStep ==
    ASSUME ~Reentrant, StackInv, InEvaluation, Next
    PROVE  NextRequest("evaluate") \/ EnterBody \/ InitNative \/ LeaveBody \/ UnwindEvaluate
<1>1. TypeOK /\ stack # <<>> /\ Height >= 2 /\ Phase = 4
  BY TypeFacts DEF StackInv, InEvaluation, Height
<1>2. Top.op \in {"evaluate", "body"}
  BY <1>1, Shape, OpPhase DEF OpsOf
<1>3. Top.op # "base" /\ Top.op # "resolve" /\ Top.op # "create" /\ Top.op # "link"
  BY <1>2
<1>4. ~ResolveRequest /\ ~NextRequest("create") /\ ~NextRequest("link") /\ ~NextStage
  BY <1>1, <1>3, ResolveEffect, RequestEffect, StageEffect
<1>5. ~TraversalDone /\ ~LinkDone /\ ~EvalReturns
  BY <1>1, <1>3, TraversalDoneEffect, LinkDoneEffect, EvalReturnsEffect DEF DoneWith
<1>6. ~UnwindResolve /\ ~UnwindLink /\ ~EvalFails
  BY <1>3 DEF UnwindResolve, UnwindLink, EvalFails, Failing
<1>7. ~AppNext
  <2>1. ASSUME NEW imports \in RootTexts PROVE ~Eval(imports)
    BY <1>1, EvalEffect
  <2>2. QED
    BY <1>1, <2>1 DEF AppNext, Module, Function, Import, AtRest
<1>8. QED
  BY <1>4, <1>5, <1>6, <1>7 DEF Next, EngineNext

LEMMA MarkNext ==
    ASSUME ~Reentrant, StackInv, MarkInv, Next
    PROVE  MarkInv'
<1>1. TypeOK /\ SetsResults
  BY ResultStep DEF StackInv
<1> SUFFICES ASSUME NEW a \in Defined', "mark" \in def'[a].flags
             PROVE  \E j \in 2..Height' : Phase' = 4 /\ stack'[j].mod = a
  BY DEF MarkInv, Has
<1>2. ASSUME NextStage \/ NextRequest("evaluate"), VisitPushes("evaluate", a)
      PROVE  \E j \in 2..Height' : Phase' = 4 /\ stack'[j].mod = a
  <2>1. /\ AdvancesAndPushes(Frame("evaluate", a, FALSE)) /\ ~Visited("evaluate", a)
        /\ Frame("evaluate", a, FALSE).mod = a
    BY <1>2 DEF VisitPushes, Frame
  <2>2. CASE NextStage
    <3>1. /\ Height = 1 /\ Phase \in 1..3 /\ Phase' = Phase + 1
      BY <2>2, StageView
    <3>2. Len(stack') = 2 /\ stack'[2].mod = a /\ stack'[2].op = "evaluate"
      BY <2>1, <3>1 DEF AdvancesAndPushes, Frame
    <3>3. StackInv'
      BY <1>1, TypeNext, FramesNext DEF StackInv
    <3>4. Height' = 2 /\ stack' # <<>> /\ 2 \in 2..Height'
      BY <3>2 DEF Height
    <3>5. Phase' \in 1..4 /\ "evaluate" \in OpsOf[Phase']
      BY <3>2, <3>3, <3>4 DEF StackInv, FrameInv, BottomInv
    <3>6. Phase' = 4
      BY <3>5, OpPhase
    <3>7. QED
      BY <3>2, <3>4, <3>6
  <2>3. CASE NextRequest("evaluate")
    <3>1. stack # <<>> /\ Top.op = "evaluate"
      BY <1>1, <2>3, RequestEffect
    <3>2. Height >= 2 /\ Phase = 4
      BY <3>1, Shape, OpPhase
    <3>3. /\ Height' = Height + 1 /\ Phase' = 4 /\ Height \in Nat
          /\ stack'[Height + 1] = Frame("evaluate", a, FALSE)
      BY <2>1, <3>2, PushView
    <3>4. Height + 1 \in 2..Height'
      BY <3>2, <3>3
    <3>5. QED
      BY <2>1, <3>3, <3>4
  <2>4. QED
    BY <1>2, <2>2, <2>3
<1>3. ASSUME a \in Defined, Has(a, "mark")
      PROVE  \E j \in 2..Height' : Phase' = 4 /\ stack'[j].mod = a
  <2>1. PICK j \in 2..Height : Phase = 4 /\ stack[j].mod = a
    BY <1>3 DEF MarkInv
  <2>2. Height \in Nat /\ Height >= 2 /\ InEvaluation
    BY <1>1, <2>1, TypeFacts DEF InEvaluation
  <2>3. CASE NextRequest("evaluate")
    <3> DEFINE m == def[Top.mod].tgt[Top.i]
    <3>1. Visits("evaluate", m)
      BY <1>1, <2>3, RequestEffect
    <3> HIDE DEF m
    <3>2. CASE VisitFaults(m)
      BY <2>1, <3>2 DEF VisitFaults, Height, Phase
    <3>3. CASE VisitSkips("evaluate", m)
      BY <2>1, <2>2, <3>3, StayView DEF VisitSkips
    <3>4. CASE VisitPushes("evaluate", m)
      <4>1. /\ Height' = Height + 1 /\ Phase' = Phase /\ stack'[j].mod = stack[j].mod
        BY <2>1, <2>2, <3>4, PushView DEF VisitPushes
      <4>2. j \in 2..Height'
        BY <2>2, <4>1
      <4>3. QED
        BY <2>1, <4>1, <4>2
    <3>5. QED
      BY <3>1, <3>2, <3>3, <3>4 DEF Visits
  <2>4. CASE EnterBody
    BY <2>1, <2>4, EnterView
  <2>5. CASE InitNative \/ LeaveBody \/ UnwindEvaluate
    <3>1. /\ IsBelow(stack') /\ nextDef' = nextDef
          /\ \E F : SetFlags(Top.mod, F) /\ "mark" \notin F
      <4>1. CASE InitNative
        <5>1. "mark" \notin AfterRun(Top.mod) \cup (IF Top.mod \in swift THEN {"exported"} ELSE {})
          BY DEF AfterRun
        <5>2. QED
          BY <1>1, <4>1, <5>1, InitNativeEffect DEF Pops
      <4>2. CASE LeaveBody
        <5>1. "mark" \notin AfterRun(Top.mod) /\ "mark" \notin AfterRun(Top.mod) \cup {"exc"}
          BY DEF AfterRun
        <5>2. QED
          BY <1>1, <4>2, <5>1, LeaveBodyEffect DEF Pops
      <4>3. CASE UnwindEvaluate
        BY <1>1, <4>3, UnwindEvaluateEffect DEF Pops
      <4>4. QED
        BY <2>5, <4>1, <4>2, <4>3
    <3>2. MarkInv'
      BY <2>2, <3>1, MarkPop
    <3>3. QED
      BY <3>2 DEF MarkInv, Has
  <2>6. QED
    BY <2>2, <2>3, <2>4, <2>5, EvaluationStep
<1>4. QED
  BY <1>1, <1>2, <1>3 DEF SetsResults

\* What HereInv says of frame j and its request i, after the step.
NowBehind(j, a, i) ==
    \/ NowSettled(a, i)
    \/ /\ stack'[j].op = "evaluate" /\ i = stack'[j].i - 1
       /\ failing' \/ (j < Height' /\ stack'[j + 1].mod = def'[a].tgt[i])

\* A frame that was there, and the frame above it too.
LEMMA HereKept ==
    ASSUME StackInv, FlagInv, HereInv, Next, KeepsDefs, InEvaluation, NEW j \in 2..Height,
           stack'[j] = stack[j], failing => failing',
           NEW a, a = stack[j].mod, NEW i \in 1..Len(def[a].tgt),
           i < stack[j].i \/ stack[j].op = "body",
           \/ j < Height /\ j < Height' /\ stack'[j + 1].mod = stack[j + 1].mod
           \/ failing'
           \/ j < Height /\ NowSucceeded(stack[j + 1].mod)
    PROVE  NowBehind(j, a, i)
<1>1. TypeOK /\ a \in Defined /\ a \in Addr /\ def'[a].tgt = def[a].tgt
  BY TypeFacts DEF StackInv, FrameInv, KeepsDefs
<1>2. \/ Settled(a, i)
      \/ /\ stack[j].op = "evaluate" /\ i = stack[j].i - 1
         /\ failing \/ (j < Height /\ stack[j + 1].mod = def[a].tgt[i])
  BY DEF HereInv, InEvaluation
<1>3. CASE Settled(a, i)
  BY <1>1, <1>3, SettledStep DEF NowBehind
<1>4. CASE /\ stack[j].op = "evaluate" /\ i = stack[j].i - 1
           /\ failing \/ (j < Height /\ stack[j + 1].mod = def[a].tgt[i])
  <2>1. j < Height => stack[j + 1].mod # 0
    <3>1. j < Height => j + 1 \in 1..Height
      BY <1>1, TypeFacts
    <3>2. QED
      BY <1>1, <3>1, TypeFacts DEF Defined
  <2>2. QED
    BY <1>1, <1>4, <2>1 DEF NowBehind, NowSettled
<1>5. QED
  BY <1>2, <1>3, <1>4

\* The frame on top looks at its next request.
LEMMA HereRequest ==
    ASSUME ~Reentrant, StackInv, NameInv, WayInv, FlagInv, MarkInv, HereInv, Next, InEvaluation,
           NextRequest("evaluate"), NEW j \in 2..Height, NEW a, a = stack[j].mod,
           NEW i \in 1..Len(def[a].tgt), i < stack'[j].i \/ stack'[j].op = "body"
    PROVE  NowBehind(j, a, i)
<1> DEFINE m == def[Top.mod].tgt[Top.i]
<1>1. /\ TypeOK /\ stack # <<>> /\ Top.op = "evaluate" /\ ~failing
      /\ Top.i \in 1..Len(def[Top.mod].tgt) /\ Visits("evaluate", m)
      /\ UNCHANGED <<text, loaded, nextDef, swift>>
  BY RequestEffect DEF StackInv
<1>2. /\ Height \in Nat /\ Height >= 2 /\ Height \in 2..Height /\ Top = stack[Height]
      /\ Top.mod \in Defined /\ Top.i \in Nat
  BY <1>1, TopType DEF InEvaluation
<1>3. KeepsDefs /\ a \in Defined /\ a \in Addr
  BY <1>1, <1>2, KeepsByVisit, TypeFacts
<1>4. ASSUME NEW k \in 1..Len(def[Top.mod].tgt), k < Top.i PROVE NowSettled(Top.mod, k)
  <2>1. Settled(Top.mod, k)
    BY <1>1, <1>4, TopSettled
  <2>2. def'[Top.mod].tgt[k] = def[Top.mod].tgt[k]
    BY <1>2, <1>3, TypeFacts DEF KeepsDefs, StackInv
  <2>3. QED
    BY <1>1, <1>2, <2>1, <2>2, SettledStep
<1>5. def'[Top.mod].tgt[Top.i] = m
  BY <1>2, <1>3, TypeFacts DEF KeepsDefs, StackInv
<1>6. CASE VisitFaults(m)
  <2>1. def' = def /\ stack' = stack /\ failing' = failing /\ Height' = Height
    BY <1>6 DEF VisitFaults, Height
  <2>2. CASE j < Height
    BY <1>3, <2>1, <2>2, HereKept
  <2>3. CASE ~(j < Height)
    <3>1. j = Height /\ a = Top.mod /\ i < Top.i
      BY <1>1, <1>2, <2>1, <2>3
    <3>2. QED
      BY <1>4, <3>1 DEF NowBehind
  <2>4. QED
    BY <2>2, <2>3
<1>7. CASE VisitSkips("evaluate", m)
  <2>1. m \in loaded /\ Visited("evaluate", m) /\ IsAdvanced(stack') /\ def' = def
    BY <1>7 DEF VisitSkips
  <2> HIDE DEF m
  <2>2. /\ Height' = Height /\ stack'[Height].i = Top.i + 1
        /\ \A k \in 2..Height : /\ stack'[k].mod = stack[k].mod /\ stack'[k].op = stack[k].op
                                /\ k # Height => stack'[k] = stack[k]
    BY <1>2, <2>1, StayView
  <2>3. CASE j < Height
    <3>1. j + 1 \in 2..Height /\ stack'[j] = stack[j]
      BY <1>2, <2>2, <2>3
    <3>2. stack'[j + 1].mod = stack[j + 1].mod /\ j < Height'
      BY <2>2, <2>3, <3>1
    <3>3. QED
      BY <1>1, <1>3, <2>3, <3>1, <3>2, HereKept
  <2>4. CASE ~(j < Height)
    <3>1. j = Height /\ a = Top.mod /\ i < Top.i + 1
      BY <1>1, <1>2, <2>2, <2>4
    <3>2. CASE i < Top.i
      BY <1>4, <3>1, <3>2 DEF NowBehind
    <3>3. CASE i = Top.i
      <4>1. m \in Defined /\ m # 0 /\ m \in Addr
        BY <1>1, <2>1, TypeFacts DEF Defined
      <4>2. Has(m, "evaluated") \/ Has(m, "mark")
        BY <2>1 DEF Visited, FlagOf
      <4>3. ASSUME Has(m, "mark") PROVE Way(text, def[m].name, def[Top.mod].name)
        <5>1. PICK k \in 2..Height : stack[k].mod = m
          BY <4>1, <4>3 DEF MarkInv
        <5>2. k <= Height
          BY <1>2
        <5>3. QED
          BY <1>2, <5>1, <5>2 DEF WayInv
      <4>4. Has(m, "evaluated") /\ ~Has(m, "exc") => NowSettled(Top.mod, Top.i)
        <5>1. Has(m, "evaluated") /\ IsNative(m) => Has(m, "exported")
          BY <4>1 DEF FlagInv
        <5>2. Has(m, "evaluated") /\ ~Has(m, "exc") => NowSucceeded(m)
          BY <2>1, <5>1 DEF NowSucceeded, Has, IsNative
        <5>3. QED
          BY <1>5, <4>1, <5>2 DEF NowSettled
      <4>5. Has(m, "mark") => NowSettled(Top.mod, Top.i)
        BY <1>1, <1>5, <2>1, <4>1, <4>3 DEF NowSettled
      <4>6. Has(m, "exc") /\ ~Has(m, "mark") => failing'
        BY <1>7 DEF VisitSkips
      <4>7. stack'[j].op = "evaluate" /\ i = stack'[j].i - 1
        BY <1>1, <1>2, <2>2, <3>1, <3>3
      <4>8. QED
        BY <3>1, <3>3, <4>2, <4>4, <4>5, <4>6, <4>7 DEF NowBehind
    <3>4. i < Top.i \/ i = Top.i
      BY <1>2, <3>1
    <3>5. QED
      BY <3>2, <3>3, <3>4
  <2>5. QED
    BY <2>3, <2>4
<1>8. CASE VisitPushes("evaluate", m)
  <2>1. AdvancesAndPushes(Frame("evaluate", m, FALSE))
    BY <1>8 DEF VisitPushes
  <2> HIDE DEF m
  <2>2. /\ Height' = Height + 1 /\ stack'[Height].i = Top.i + 1
        /\ stack'[Height + 1] = Frame("evaluate", m, FALSE)
        /\ \A k \in 2..Height : /\ stack'[k].mod = stack[k].mod /\ stack'[k].op = stack[k].op
                                /\ k # Height => stack'[k] = stack[k]
    BY <1>2, <2>1, PushView
  <2>3. CASE j < Height
    <3>1. j + 1 \in 2..Height /\ stack'[j] = stack[j]
      BY <1>2, <2>2, <2>3
    <3>2. stack'[j + 1].mod = stack[j + 1].mod /\ j < Height'
      BY <1>2, <2>2, <2>3, <3>1
    <3>3. QED
      BY <1>1, <1>3, <2>3, <3>1, <3>2, HereKept
  <2>4. CASE ~(j < Height)
    <3>1. /\ j = Height /\ a = Top.mod /\ i < Top.i + 1 /\ stack'[j].op = "evaluate"
          /\ stack'[j].i = Top.i + 1
      BY <1>1, <1>2, <2>2, <2>4
    <3>2. CASE i < Top.i
      BY <1>4, <3>1, <3>2 DEF NowBehind
    <3>3. CASE i = Top.i
      <4>1. stack'[j + 1].mod = m /\ j < Height' /\ i = stack'[j].i - 1
        BY <1>2, <2>2, <3>1, <3>3 DEF Frame
      <4>2. QED
        BY <1>5, <3>1, <3>3, <4>1 DEF NowBehind
    <3>4. i < Top.i \/ i = Top.i
      BY <1>2, <3>1
    <3>5. QED
      BY <3>2, <3>3, <3>4
  <2>5. QED
    BY <2>3, <2>4
<1>9. QED
  BY <1>1, <1>6, <1>7, <1>8 DEF Visits

LEMMA HereNext ==
    ASSUME ~Reentrant, StackInv, NameInv, WayInv, OnceInv, FlagInv, MarkInv, HereInv, Next
    PROVE  HereInv'
<1>1. TypeOK
  BY DEF StackInv
<1> SUFFICES ASSUME NEW j \in 2..Height', Phase' = 4,
                    NEW i \in 1..Len(def'[stack'[j].mod].tgt),
                    i < stack'[j].i \/ stack'[j].op = "body"
             PROVE  NowBehind(j, stack'[j].mod, i)
  BY DEF HereInv, NowBehind, Settled, NowSettled, Succeeded, NowSucceeded, Has, IsNative
<1>2. /\ j \in 2..Height /\ stack'[j].mod = stack[j].mod /\ Phase = 4
  <2>1. Origin(j)
    BY FrameOrigin
  <2>2. ~(stack'[j].i = 1 /\ stack'[j].op # "body")
    <3>1. ~(i < 1)
      OBVIOUS
    <3>2. QED
      BY <3>1
  <2>3. Phase' # 1
    OBVIOUS
  <2>4. QED
    BY <2>1, <2>2, <2>3 DEF Origin
<1>3. Height \in Nat /\ InEvaluation /\ stack # <<>> /\ Height >= 2
  BY <1>1, <1>2, TypeFacts DEF InEvaluation, Height
<1>4. Top = stack[Height]
  BY <1>1, <1>3, TopType
<1> DEFINE a == stack[j].mod
<1>5. a \in Addr /\ a \in Defined
  BY <1>1, <1>2, TypeFacts
<1>6. CASE NextRequest("evaluate")
  <2>1. KeepsDefs
    BY <1>1, <1>6, RequestEffect, KeepsByVisit
  <2>2. i \in 1..Len(def[a].tgt)
    BY <1>2, <1>5, <2>1 DEF KeepsDefs
  <2>3. NowBehind(j, a, i)
    <3> HIDE DEF a
    <3>1. a = stack[j].mod
      BY DEF a
    <3>2. QED
      BY <1>2, <1>3, <1>6, <2>2, <3>1, HereRequest
  <2>4. QED
    BY <1>2, <2>3
<1>7. CASE EnterBody
  <2>1. KeepsDefs /\ def' = def /\ failing' = failing /\ ~failing
        /\ Top.i > Len(def[Top.mod].tgt)
    BY <1>1, <1>7, EnterBodyEffect, KeepsBySet DEF DoneWith
  <2>2. i \in 1..Len(def[a].tgt)
    BY <1>2, <2>1
  <2>3. /\ Height' = Height
        /\ \A k \in 2..Height : /\ stack'[k].mod = stack[k].mod
                                /\ k # Height => stack'[k] = stack[k]
    BY <1>7, EnterView
  <2>4. CASE j < Height
    <3>1. j + 1 \in 2..Height /\ stack'[j] = stack[j]
      BY <1>2, <1>3, <2>3, <2>4
    <3>2. stack'[j + 1].mod = stack[j + 1].mod /\ j < Height'
      BY <2>3, <2>4, <3>1
    <3> HIDE DEF a
    <3>3. a = stack[j].mod
      BY DEF a
    <3>4. NowBehind(j, a, i)
      BY <1>2, <1>3, <2>1, <2>2, <2>4, <3>1, <3>2, <3>3, HereKept
    <3>5. QED
      BY <1>2, <3>3, <3>4
  <2>5. CASE ~(j < Height)
    <3>1. j = Height /\ a = Top.mod
      BY <1>2, <1>3, <1>4, <2>5
    <3>2. i < Top.i
      <4>1. Len(def[Top.mod].tgt) \in Nat /\ Top.i \in Nat
        BY <1>1, <1>3, <1>5, <3>1, TopType, TypeFacts
      <4>2. QED
        BY <2>1, <2>2, <3>1, <4>1
    <3>3. Settled(Top.mod, i)
      BY <1>3, <2>1, <2>2, <3>1, <3>2, TopSettled
    <3>4. NowSettled(Top.mod, i)
      BY <1>1, <1>5, <2>1, <2>2, <3>1, <3>3, SettledStep
    <3>5. QED
      BY <1>2, <3>1, <3>4 DEF NowBehind
  <2>6. QED
    BY <2>4, <2>5
<1>8. CASE InitNative \/ LeaveBody \/ UnwindEvaluate
  <2>1. /\ IsBelow(stack') /\ loaded' = loaded /\ UNCHANGED <<text, nextDef, swift>>
        /\ (\E F : SetFlags(Top.mod, F)) /\ (failing => failing')
        /\ failing' \/ NowSucceeded(Top.mod)
    <3>1. Top.mod \in Addr /\ Top.mod \in Defined /\ ~Has(Top.mod, "exc")
      <4>1. Has(Top.mod, "mark") /\ Top.mod \in Defined /\ Top.mod \in Addr
        BY <1>1, <1>3, TopType, Shape, OpPhase DEF InEvaluation
      <4>2. QED
        BY <4>1 DEF FlagInv
    <3>2. CASE InitNative
      <4>1. /\ SetFlags(Top.mod, AfterRun(Top.mod)
                                   \cup IF Top.mod \in swift THEN {"exported"} ELSE {})
            /\ Pops /\ UNCHANGED <<loaded, failing>>
        BY <1>1, <3>2, InitNativeEffect
      <4>2. Top.mod \in swift
        BY <1>1, <3>1, <3>2, InitNativeEffect DEF NameInv, IsNative
      <4>3. NowSucceeded(Top.mod)
        BY <3>1, <4>1, <4>2 DEF SetFlags, AfterRun, NowSucceeded, Has
      <4>4. QED
        BY <4>1, <4>3 DEF Pops
    <3>3. CASE LeaveBody
      <4>1. /\ \/ ~failing' /\ SetFlags(Top.mod, AfterRun(Top.mod))
               \/ failing' /\ SetFlags(Top.mod, AfterRun(Top.mod) \cup {"exc"})
            /\ Pops /\ loaded' = loaded /\ ~failing /\ Top.op = "body"
        BY <1>1, <3>3, LeaveBodyEffect
      <4>2. ~IsNative(Top.mod)
        <5>1. Height \in 2..Height
          BY <1>3
        <5>2. QED
          BY <1>4, <4>1, <5>1 DEF OnceInv
      <4>3. failing' \/ NowSucceeded(Top.mod)
        BY <3>1, <4>1, <4>2 DEF SetFlags, AfterRun, NowSucceeded, Has, IsNative
      <4>4. QED
        BY <4>1, <4>3 DEF Pops
    <3>4. CASE UnwindEvaluate
      BY <1>1, <3>4, UnwindEvaluateEffect DEF Pops
    <3>5. QED
      BY <1>8, <3>2, <3>3, <3>4
  <2>2. KeepsDefs
    BY <2>1, KeepsBySet
  <2>3. /\ Height' = Height - 1 /\ stack'[j] = stack[j]
        /\ \A k \in 2..Height' : stack'[k] = stack[k]
    BY <1>3, <2>1, PopView
  <2>4. i \in 1..Len(def[a].tgt)
    BY <1>2, <1>5, <2>2 DEF KeepsDefs
  <2>5. \/ j < Height /\ j < Height' /\ stack'[j + 1].mod = stack[j + 1].mod
        \/ failing'
        \/ j < Height /\ NowSucceeded(stack[j + 1].mod)
    <3>1. CASE j < Height'
      <4>1. j + 1 \in 2..Height' /\ j < Height
        BY <1>2, <1>3, <2>3, <3>1
      <4>2. QED
        BY <2>3, <3>1, <4>1
    <3>2. CASE ~(j < Height')
      <4>1. j < Height /\ j + 1 = Height
        BY <1>2, <1>3, <2>3, <3>2
      <4>2. QED
        BY <1>4, <2>1, <4>1
    <3>3. QED
      BY <3>1, <3>2
  <2> HIDE DEF a
  <2>6. a = stack[j].mod
    BY DEF a
  <2>7. NowBehind(j, a, i)
    BY <1>2, <1>3, <2>1, <2>2, <2>3, <2>4, <2>5, <2>6, HereKept
  <2>8. QED
    BY <1>2, <2>6, <2>7
<1>9. QED
  BY <1>3, <1>6, <1>7, <1>8, EvaluationStep

\* The steps that run a module.
LEMMA RunStep ==
    ASSUME Next, ~InitNative, ~EnterBody
    PROVE  ran' = ran
BY DEF Next, EngineNext, AppNext, ResolveRequest, NextRequest, TraversalDone, LinkDone,
       LeaveBody, NextStage, EvalReturns, UnwindResolve, UnwindLink, UnwindEvaluate, EvalFails,
       Module, Function, Eval, Import

\* The frame on top is in its body, so that the module has been entered.
LEMMA BodyStep ==
    ASSUME ~Reentrant, StackInv, Next, NEW j \in 2..Height', stack'[j].op = "body"
    PROVE  EnterBody /\ stack'[j].mod = Top.mod
<1>1. TypeOK /\ StackInv'
  BY TypeNext, FramesNext DEF StackInv
<1>2. Phase' = 4
  <2>1. stack' # <<>>
    BY DEF Height
  <2>2. Phase' \in 1..4 /\ "body" \in OpsOf[Phase']
    BY <1>1, <2>1 DEF StackInv, BottomInv, FrameInv
  <2>3. QED
    BY <2>2, OpPhase
<1>3. j \in 2..Height /\ stack'[j].mod = stack[j].mod /\ Phase = 4
  BY <1>2, FrameOrigin DEF Origin
<1>4. Height \in Nat /\ InEvaluation /\ stack # <<>> /\ Height >= 2
  BY <1>1, <1>3, TypeFacts DEF InEvaluation, Height
<1>5. Top = stack[Height]
  BY <1>1, <1>4, TopType
<1>6. stack[j].op = "body" => j = Height /\ Top.op = "body"
  BY <1>3, <1>5 DEF StackInv, FrameInv
<1>7. CASE NextRequest("evaluate")
  <2> DEFINE m == def[Top.mod].tgt[Top.i]
  <2>1. Visits("evaluate", m) /\ Top.op = "evaluate"
    BY <1>1, <1>7, RequestEffect
  <2> HIDE DEF m
  <2>2. stack'[j].op = stack[j].op
    <3>1. CASE VisitFaults(m)
      BY <3>1 DEF VisitFaults
    <3>2. CASE VisitSkips("evaluate", m)
      BY <1>3, <1>4, <3>2, StayView DEF VisitSkips
    <3>3. CASE VisitPushes("evaluate", m)
      BY <1>3, <1>4, <3>3, PushView DEF VisitPushes
    <3>4. QED
      BY <2>1, <3>1, <3>2, <3>3 DEF Visits
  <2>3. QED
    BY <1>6, <2>1, <2>2
<1>8. CASE EnterBody
  <2>1. Top.op = "evaluate" /\ (j # Height => stack'[j] = stack[j])
    BY <1>3, <1>8, EnterView
  <2>2. j = Height
    BY <1>6, <2>1
  <2>3. QED
    BY <1>3, <1>5, <1>8, <2>2
<1>9. CASE InitNative \/ LeaveBody \/ UnwindEvaluate
  <2>1. IsBelow(stack')
    BY <1>1, <1>9, InitNativeEffect, LeaveBodyEffect, UnwindEvaluateEffect DEF Pops
  <2>2. stack'[j] = stack[j] /\ j # Height
    BY <1>4, <2>1, PopView
  <2>3. QED
    BY <1>6, <2>2
<1>10. QED
  BY <1>4, <1>7, <1>8, <1>9, EvaluationStep

LEMMA DefinedGrows ==
    ASSUME TypeOK, Next
    PROVE  Defined \subseteq Defined'
<1>1. nextDef \in Nat
  BY TypeFacts
<1>2. nextDef' = nextDef \/ nextDef' = nextDef + 1
  BY DefsStep DEF KeepsDefs, MeetsRequest, ResolveFinds, AddsDef, Defines
<1>3. QED
  BY <1>1, <1>2 DEF Defined

LEMMA OnceNext ==
    ASSUME ~Reentrant, StackInv, OnceInv, FlagInv, Next
    PROVE  OnceInv'
<1>1. TypeOK /\ SameNames /\ FlagsGrow /\ Defined \subseteq Addr
  BY NamesSame, FlagsStep, TypeFacts DEF StackInv
<1>2. \A j \in 2..Height' : stack'[j].op = "body" => ~(def'[stack'[j].mod].name \in Natives)
  <2> SUFFICES ASSUME NEW j \in 2..Height', stack'[j].op = "body"
               PROVE  ~(def'[stack'[j].mod].name \in Natives)
    OBVIOUS
  <2>1. EnterBody /\ stack'[j].mod = Top.mod
    BY BodyStep
  <2>2. ~IsNative(Top.mod) /\ def' = def
    BY <1>1, <2>1, EnterBodyEffect
  <2>3. QED
    BY <2>1, <2>2 DEF IsNative
<1>3. ASSUME InitNative \/ EnterBody
      PROVE  /\ CountsRun(Top.mod) /\ Top.mod \in Defined /\ ran[Top.mod] = 0
             /\ nextDef' = nextDef
  <2>1. /\ CountsRun(Top.mod) /\ stack # <<>> /\ Top.op = "evaluate" /\ nextDef' = nextDef
    BY <1>1, <1>3, InitNativeEffect, EnterBodyEffect DEF Pops, DoneWith
  <2>2. /\ Height \in 2..Height /\ Phase = 4 /\ Top = stack[Height]
    BY <2>1, Shape, OpPhase
  <2>3. Top.mod \in Defined /\ Has(Top.mod, "mark")
    BY <1>1, <2>1, <2>2, TopType, Shape, OpPhase
  <2>4. ~Has(Top.mod, "evaluated")
    BY <2>3 DEF FlagInv
  <2>5. ~InBody(Top.mod)
    <3>1. SUFFICES ASSUME NEW j \in 2..Height, stack[j].op = "body", stack[j].mod = Top.mod
                   PROVE  FALSE
      BY DEF InBody
    <3>2. j = Height
      BY <2>2, <3>1 DEF StackInv, FrameInv
    <3>3. QED
      BY <2>1, <2>2, <3>1, <3>2
  <2>6. Top.mod \in Addr /\ ran[Top.mod] \in {0, 1}
    BY <1>1, <2>3 DEF OnceInv
  <2>7. QED
    BY <2>1, <2>3, <2>4, <2>5, <2>6 DEF OnceInv
<1>4. \A a \in Addr : ran'[a] \in {0, 1}
  <2>1. CASE InitNative \/ EnterBody
    BY <1>3, <2>1 DEF CountsRun, OnceInv
  <2>2. QED
    BY <2>1, RunStep DEF OnceInv
<1>5. ASSUME NEW a \in Addr, ran'[a] = 1
      PROVE  a \in Defined' /\ ("evaluated" \in def'[a].flags \/ NowInBody(a))
  <2>1. CASE InitNative /\ a = Top.mod
    <3>1. SetFlags(a, AfterRun(a) \cup IF a \in swift THEN {"exported"} ELSE {})
      BY <1>1, <2>1, InitNativeEffect
    <3>2. "evaluated" \in def'[a].flags
      BY <3>1 DEF SetFlags, AfterRun
    <3>3. QED
      BY <1>3, <2>1, <3>2 DEF Defined
  <2>2. CASE EnterBody /\ a = Top.mod
    <3>1. /\ Height' = Height /\ Height \in 2..Height /\ stack'[Height].op = "body"
          /\ stack'[Height].mod = a
      BY <2>2, EnterView
    <3>2. QED
      BY <1>3, <2>2, <3>1 DEF Defined, NowInBody
  <2>3. CASE ~((InitNative \/ EnterBody) /\ a = Top.mod)
    <3>1. ran[a] = 1
      BY <1>3, <1>5, <2>3, RunStep DEF CountsRun
    <3>2. a \in Defined /\ (Has(a, "evaluated") \/ InBody(a))
      BY <3>1 DEF OnceInv
    <3>3. a \in Defined'
      BY <1>1, <3>2, DefinedGrows
    <3>4. CASE Has(a, "evaluated")
      BY <1>1, <3>2, <3>3, <3>4 DEF FlagsGrow, Has
    <3>5. CASE InBody(a)
      <4>1. PICK j \in 2..Height : stack[j].op = "body" /\ stack[j].mod = a
        BY <3>5 DEF InBody
      <4>2. Height \in Nat /\ Height >= 2 /\ stack # <<>>
        BY <1>1, <4>1, TypeFacts DEF Height
      <4>3. j = Height /\ Top = stack[Height] /\ Phase \in 1..4 /\ Top.op \in OpsOf[Phase]
        BY <4>1, <4>2, Shape DEF StackInv, FrameInv
      <4>4. InEvaluation /\ Top.op = "body" /\ a = Top.mod
        BY <4>1, <4>2, <4>3, OpPhase DEF InEvaluation
      <4>5. ~NextRequest("evaluate") /\ ~EnterBody /\ ~InitNative /\ ~UnwindEvaluate
        BY <1>1, <4>4, RequestEffect, EnterBodyEffect, InitNativeEffect, UnwindEvaluateEffect
        DEF DoneWith
      <4>6. LeaveBody
        BY <4>4, <4>5, EvaluationStep
      <4>7. \/ SetFlags(a, AfterRun(a))
            \/ SetFlags(a, AfterRun(a) \cup {"exc"})
        BY <1>1, <4>4, <4>6, LeaveBodyEffect
      <4>8. "evaluated" \in def'[a].flags
        BY <4>7 DEF SetFlags, AfterRun
      <4>9. QED
        BY <3>3, <4>8
    <3>6. QED
      BY <3>2, <3>4, <3>5
  <2>4. QED
    BY <2>1, <2>2, <2>3
<1>6. QED
  BY <1>2, <1>4, <1>5 DEF OnceInv, InBody, NowInBody, Has, IsNative

CircleInv ==
    /\ StackInv /\ NameInv /\ ResolvedInv /\ WayInv /\ FreshInv
    /\ OnceInv /\ FlagInv /\ MarkInv /\ HereInv /\ DoneInv /\ SafeInv

\* While native functions do not evaluate modules, whatever the files import:
\* the stack goes along imports, requests are met in the list or within
\* circles, and the flags of a module agree with what has run.
THEOREM CircleInvariant ==
    ASSUME ~Reentrant
    PROVE  Spec => []CircleInv
<1>1. Init => CircleInv
  <2> SUFFICES ASSUME Init PROVE CircleInv
    OBVIOUS
  <2>1. stack = <<>> /\ ~failing /\ loaded = {} /\ nextDef = 1
    BY DEF Init
  <2>2. TypeOK /\ \A j \in 2..Height : FALSE
    BY <2>1, TypeInit DEF Height
  <2>3. \A a \in Defined : FALSE
    BY <2>1 DEF Defined
  <2>4. StackInv /\ WayInv /\ FreshInv /\ HereInv
    BY <2>1, <2>2 DEF StackInv, BottomInv, FrameInv, WayInv, FreshInv, HereInv
  <2>5. NameInv /\ ResolvedInv /\ MarkInv /\ DoneInv /\ SafeInv
    BY <2>1, <2>2, <2>3 DEF NameInv, ResolvedInv, MarkInv, DoneInv, SafeInv
  <2>6. FlagInv /\ OnceInv
    BY <2>2, <2>3 DEF FlagInv, OnceInv, Init
  <2>7. QED
    BY <2>4, <2>5, <2>6 DEF CircleInv
<1>2. CircleInv /\ [Next]_vars => CircleInv'
  <2> SUFFICES ASSUME CircleInv, [Next]_vars PROVE CircleInv'
    OBVIOUS
  <2>1. /\ TypeOK /\ StackInv /\ NameInv /\ ResolvedInv /\ WayInv /\ FreshInv
        /\ OnceInv /\ FlagInv /\ MarkInv /\ HereInv /\ DoneInv /\ SafeInv
    BY DEF CircleInv, StackInv
  <2>2. CASE Next
    <3>1. StackInv'
      BY <2>1, <2>2, TypeNext, FramesNext DEF StackInv
    <3>2. NameInv' /\ ResolvedInv' /\ WayInv'
      BY <2>1, <2>2, NamesNext, ResolvedNext, WayNext
    <3>3. FreshInv' /\ MarkInv' /\ HereInv'
      BY <2>1, <2>2, FreshNext, MarkNext, HereNext
    <3>4. DoneInv' /\ SafeInv'
      BY <2>1, <2>2, DoneNext, SafeNext
    <3>5. FlagInv' /\ OnceInv'
      BY <2>1, <2>2, FlagNext, OnceNext
    <3>6. QED
      BY <3>1, <3>2, <3>3, <3>4, <3>5 DEF CircleInv
  <2>3. CASE UNCHANGED vars
    <3>1. StackInv'
      BY <2>1, <2>3 DEF vars, StackInv, TypeOK, BottomInv, FrameInv, Height, Phase, Has
    <3>2. NameInv' /\ ResolvedInv' /\ MarkInv'
      BY <2>1, <2>3 DEF vars, NameInv, ResolvedInv, MarkInv, Defined, Height, Phase, Has
    <3>3. WayInv' /\ FreshInv' /\ SafeInv'
      BY <2>1, <2>3 DEF vars, WayInv, FreshInv, SafeInv, Height, Phase, Has, IsNative
    <3>4. HereInv' /\ DoneInv'
      BY <2>1, <2>3 DEF vars, HereInv, DoneInv, Settled, Succeeded, Height, Phase, Has,
                        Defined, IsNative
    <3>5. FlagInv' /\ OnceInv'
      BY <2>1, <2>3 DEF vars, FlagInv, OnceInv, InBody, Height, Has, Defined, IsNative
    <3>6. QED
      BY <3>1, <3>2, <3>3, <3>4, <3>5 DEF CircleInv
  <2>4. QED
    BY <2>2, <2>3
<1>3. QED
  BY <1>1, <1>2, PTL DEF Spec

\* While native functions do not evaluate modules: whatever the files import,
\* in circles too, and whatever fails, fail1 of __JS_EvalInternal and
\* js_free_modules leave no pointer to a freed module in a module of the
\* list, except to one that imports it in turn.
THEOREM RequestsFound ==
    ASSUME ~Reentrant
    PROVE  Spec => []RequestsLoaded
<1>1. CircleInv => RequestsLoaded
  <2> SUFFICES ASSUME CircleInv, NEW m \in loaded, NEW i \in DOMAIN def[m].tgt
               PROVE  \/ def[m].tgt[i] \in loaded \cup {0}
                      \/ Reaches(def[def[m].tgt[i]].name, def[m].name)
    BY DEF RequestsLoaded, CircleInv, StackInv
  <2>1. TypeOK /\ SafeInv
    BY DEF CircleInv, StackInv
  <2>2. m \in Addr
    BY <2>1, TypeFacts
  <2>3. i \in 1..Len(def[m].tgt)
    BY <2>1, <2>2, TypeFacts
  <2>4. \/ def[m].tgt[i] = 0 \/ def[m].tgt[i] \in loaded
        \/ Way(text, def[def[m].tgt[i]].name, def[m].name)
    BY <2>1, <2>3 DEF SafeInv
  <2>5. QED
    BY <2>4 DEF Way, Reaches
<1>2. QED
  BY <1>1, CircleInvariant, PTL

\* While native functions do not evaluate modules: js_evaluate_module runs the
\* code of a module once only, when all that it imports has been evaluated
\* without exception, except what imports it in turn.
THEOREM EvaluationOrder ==
    ASSUME ~Reentrant
    PROVE  Spec => []EvaluatedAfterImports
<1>1. CircleInv => EvaluatedAfterImports
  <2> SUFFICES ASSUME CircleInv, NEW m \in Addr
               PROVE  /\ ran[m] <= 1
                      /\ ran[m] = 1 => \A i \in DOMAIN def[m].tgt :
                            \/ Succeeded(def[m].tgt[i])
                            \/ Reaches(def[def[m].tgt[i]].name, def[m].name)
    BY DEF EvaluatedAfterImports
  <2>1. TypeOK /\ StackInv /\ OnceInv /\ HereInv /\ DoneInv
    BY DEF CircleInv, StackInv
  <2>2. ran[m] \in {0, 1}
    BY <2>1 DEF OnceInv
  <2>3. DOMAIN def[m].tgt = 1..Len(def[m].tgt)
    BY <2>1, TypeFacts
  <2>4. ASSUME ran[m] = 1, NEW i \in 1..Len(def[m].tgt) PROVE Settled(m, i)
    <3>1. m \in Defined /\ (Has(m, "evaluated") \/ InBody(m))
      BY <2>1, <2>4 DEF OnceInv
    <3>2. CASE Has(m, "evaluated")
      BY <2>1, <3>1, <3>2 DEF DoneInv
    <3>3. CASE InBody(m)
      <4>1. PICK j \in 2..Height : stack[j].op = "body" /\ stack[j].mod = m
        BY <3>3 DEF InBody
      <4>2. stack # <<>>
        BY <4>1 DEF Height
      <4>3. Phase \in 1..4 /\ "body" \in OpsOf[Phase]
        BY <2>1, <4>1, <4>2 DEF StackInv, BottomInv, FrameInv
      <4>4. Phase = 4
        BY <4>3, OpPhase
      <4>5. QED
        BY <2>1, <4>1, <4>4 DEF HereInv
    <3>4. QED
      BY <3>1, <3>2, <3>3
  <2>5. QED
    BY <2>2, <2>3, <2>4 DEF Settled, Way, Reaches
<1>2. QED
  BY <1>1, CircleInvariant, PTL

=============================================================================
