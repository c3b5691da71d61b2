---------------------------- MODULE Conversions ----------------------------
(***************************************************************************)
(* Conversions of numbers between Swift, C and JavaScript.  The widths are *)
(* parameters: 32 and 64 bits, and a double with 53 bits of precision, are *)
(* too large for an enumeration, and the code depends on their order only. *)
(*                                                                         *)
(* A state holds one question and, once it is answered, the set of the     *)
(* possible answers: a C cast of a double that does not fit is undefined,  *)
(* and every result of its type is then possible.                          *)
(***************************************************************************)
EXTENDS Integers, FiniteSets

CONSTANTS
    W,  \* bits of int32_t, Int32
    P,  \* bits of precision of a double
    D,  \* bits of int64_t, Int64, Int and UInt
    F   \* bits of doubles after the point: bound of the enumeration

ASSUME WidthsAssumption == {W, P, D, F} \subseteq Nat /\ 1 < W /\ W < P /\ P < D

VARIABLES question, answers
vars == <<question, answers>>

-----------------------------------------------------------------------------
(***************************************************************************)
(* Numbers of the C language.                                              *)
(***************************************************************************)
Signed(w) == -(2^(w - 1)) .. 2^(w - 1) - 1
Unsigned(w) == 0 .. 2^w - 1
MaxInt(w) == 2^(w - 1) - 1
MinInt(w) == -(2^(w - 1))

\* The w bits of an integer, read as a signed number.
Wrap(x, w) == ((x + 2^(w - 1)) % 2^w) - 2^(w - 1)

Abs(x) == IF x < 0 THEN -x ELSE x

(***************************************************************************)
(* A double is finite with a sign and a magnitude in units of 1 / 2^F, or  *)
(* infinite, or not a number.  Zero has two signs.                         *)
(***************************************************************************)
Finite(n, m) == [kind |-> "finite", neg |-> n, mag |-> m]
Infinity(n) == [kind |-> "infinite", neg |-> n, mag |-> 0]
NaN == [kind |-> "nan", neg |-> FALSE, mag |-> 0]

\* Up to the first exponents for which JS_ToInt64 gives zero.
MaxExponent == D + P

Magnitudes ==
    {0} \cup {m * 2^k : m \in 2^(P - 1) .. 2^P - 1, k \in 0 .. MaxExponent + F + 1 - P}
        \cup 0 .. 2^P - 1

Doubles ==
    {Finite(n, m) : n \in BOOLEAN, m \in Magnitudes}
        \cup {Infinity(n) : n \in BOOLEAN} \cup {NaN}

IsFinite(d) == d.kind = "finite"

\* The exponent and the mantissa with its hidden bit, for d # 0.
Log2(m) == CHOOSE k \in 0 .. MaxExponent + F + 1 : 2^k <= m /\ m < 2^(k + 1)
Exponent(d) == Log2(d.mag) - F
Mantissa(d) == (d.mag * 2^(P - 1)) \div 2^Log2(d.mag)

\* Truncation towards zero.
Trunc(d) == LET t == d.mag \div 2^F IN IF d.neg THEN -t ELSE t

\* Comparison of a finite double with an integer.
Less(d, x) == (IF d.neg THEN -d.mag ELSE d.mag) < x * 2^F
Greater(d, x) == (IF d.neg THEN -d.mag ELSE d.mag) > x * 2^F
Equal(d, x) == IsFinite(d) /\ ~Less(d, x) /\ ~Greater(d, x)

\* A cast of a double to an integer type: undefined if it does not fit.
CCast(d, type) ==
    IF IsFinite(d) /\ Trunc(d) \in type THEN {Trunc(d)} ELSE type

\* The double nearest to an integer, to even in the middle.
ToDouble(x) ==
    LET a == Abs(x)
        k == IF a < 2^P THEN 0 ELSE Log2(a) - (P - 1)
        low == (a \div 2^k) * 2^k
        rest == a - low
        up == 2 * rest > 2^k \/ (2 * rest = 2^k /\ (low \div 2^k) % 2 = 1)
    IN  Finite(x < 0, (IF up THEN low + 2^k ELSE low) * 2^F)

(***************************************************************************)
(* Values of JavaScript: numbers with either tag, and the others.          *)
(***************************************************************************)
IntValue(x) == [tag |-> "int", int |-> x, double |-> NaN]
FloatValue(d) == [tag |-> "float", int |-> 0, double |-> d]

\* What JS_ToFloat64 makes of a number.
Number(v) == IF v.tag = "int" THEN Finite(v.int < 0, Abs(v.int) * 2^F) ELSE v.double

-----------------------------------------------------------------------------
(***************************************************************************)
(* From JavaScript to C.                                                   *)
(***************************************************************************)

\* Faulty variant of ToInt32Double: the fast case is one exponent too wide.
ToInt32Wide(d) ==
    CASE ~IsFinite(d)               -> {0}
      [] IsFinite(d) /\ (d.mag = 0 \/ Exponent(d) <= W - 1) -> CCast(d, Signed(W))
      [] OTHER                      -> {Wrap(Trunc(d), W)}

\* JS_ToInt32Free of a double: by its exponent a cast, a shift in a register
\* of D bits of which the upper W are taken, or zero.
ToInt32Double(d) ==
    LET shift == Exponent(d) - (P - 1) + (D - W)
        v == (Mantissa(d) * 2^shift) % 2^D
        ret == Wrap(v \div 2^(D - W), W)
    IN  CASE ~IsFinite(d)                  -> {0}
          [] IsFinite(d) /\ (d.mag = 0 \/ Exponent(d) <= W - 2) -> CCast(d, Signed(W))
          [] IsFinite(d) /\ d.mag # 0 /\ Exponent(d) \in W - 1 .. W - 2 + P ->
                {Wrap(IF d.neg THEN -ret ELSE ret, W)}
          [] OTHER                         -> {0}

\* Faulty variant of ToInt64Double: the sign is lost when bits are shifted.
ToInt64NoSign(d) ==
    LET ret == Wrap(Mantissa(d) * 2^(Exponent(d) - (P - 1)), D)
    IN  CASE ~IsFinite(d)                  -> {0}
          [] IsFinite(d) /\ (d.mag = 0 \/ Exponent(d) <= D - 2) -> CCast(d, Signed(D))
          [] IsFinite(d) /\ d.mag # 0 /\ Exponent(d) \in D - 1 .. D - 2 + P -> {ret}
          [] OTHER                         -> {0}

\* JS_ToInt64Free of a double
ToInt64Double(d) ==
    LET ret == Wrap(Mantissa(d) * 2^(Exponent(d) - (P - 1)), D)
    IN  CASE ~IsFinite(d)                  -> {0}
          [] IsFinite(d) /\ (d.mag = 0 \/ Exponent(d) <= D - 2) -> CCast(d, Signed(D))
          [] IsFinite(d) /\ d.mag # 0 /\ Exponent(d) \in D - 1 .. D - 2 + P ->
                {Wrap(IF d.neg THEN -ret ELSE ret, D)}
          [] OTHER                         -> {0}

JS_ToInt32(v) == IF v.tag = "int" THEN {v.int} ELSE ToInt32Double(v.double)
JS_ToInt64(v) == IF v.tag = "int" THEN {v.int} ELSE ToInt64Double(v.double)
JS_ToUint32(v) == {x % 2^W : x \in JS_ToInt32(v)}

\* Faulty variant of Saturate: the upper limit is left to the cast.
SaturateBelow(d, w) ==
    CASE d.kind = "nan"                     -> {0}
      [] d.kind = "infinite" /\ ~d.neg      -> CCast(d, Signed(w))
      [] d.kind = "infinite" /\ d.neg       -> {MinInt(w)}
      [] IsFinite(d) /\ Less(d, MinInt(w))  -> {MinInt(w)}
      [] OTHER                              -> CCast(d, Signed(w))

\* JS_ToInt32SatFree and JS_ToInt64SatFree of a double.  The limits are
\* compared as doubles: MaxInt(D) is rounded up.
Saturate(d, w) ==
    LET over == d.mag > ToDouble(MaxInt(w)).mag
    IN  CASE d.kind = "nan"                     -> {0}
          [] d.kind = "infinite"                -> {IF d.neg THEN MinInt(w) ELSE MaxInt(w)}
          [] IsFinite(d) /\ Less(d, MinInt(w))  -> {MinInt(w)}
          [] IsFinite(d) /\ ~d.neg /\ over      -> {MaxInt(w)}
          [] OTHER                              -> CCast(d, Signed(w))

\* Faulty variant of Clamp: an offset below the minimum is not raised to it.
ClampOffset(x, min, max, offset) ==
    IF x < 0 THEN x + offset ELSE IF x > max THEN max ELSE x

\* JS_ToInt64Clamp after the saturation
Clamp(x, min, max, offset) ==
    LET y == IF x < 0 THEN x + offset ELSE x
    IN  CASE y < min -> min
          [] y > max -> max
          [] OTHER   -> y

\* MAX_SAFE_INTEGER
MaxSafe == 2^P - 1

Exception == -1

\* Faulty variant of JS_ToIndex: the upper limit is one too large.
ToIndexInclusive(d) ==
    {IF x < 0 \/ x > MaxSafe + 1 THEN Exception ELSE x : x \in Saturate(d, D)}

\* JS_ToIndex: an index or an exception
JS_ToIndex(d) == {IF x < 0 \/ x > MaxSafe THEN Exception ELSE x : x \in Saturate(d, D)}

-----------------------------------------------------------------------------
(***************************************************************************)
(* From C and Swift to JavaScript.                                         *)
(***************************************************************************)

\* Faulty variant of JS_NewFloat64: numbers are compared, not bits.
NewFloat64ByValue(d) ==
    {IF Equal(d, x) THEN IntValue(x) ELSE FloatValue(d) : x \in CCast(d, Signed(W))}

\* JS_NewFloat64: an integer if the bits agree, which those of -0 do not.
JS_NewFloat64(d) ==
    {IF Equal(d, x) /\ ~(d.neg /\ d.mag = 0) THEN IntValue(x) ELSE FloatValue(d) :
        x \in CCast(d, Signed(W))}

\* Faulty variant of JS_NewInt64: every integer becomes a 32 bit one.
NewInt64Narrow(x) == IntValue(Wrap(x, W))

\* JS_NewInt64
JS_NewInt64(x) == IF x = Wrap(x, W) THEN IntValue(x) ELSE FloatValue(ToDouble(x))

\* JS_NewUint32
JS_NewUint32(x) == IF x <= MaxInt(W) THEN IntValue(x) ELSE FloatValue(ToDouble(x))

\* A Swift conversion that does not fit ends the process.
Trap == -1

\* Faulty variant of UIntToJS: the upper bits are dropped.
UIntTruncated(x) == {JS_NewUint32(x % 2^W)}

\* UInt.jsValue: {} if the process ends.
UIntToJS(x) == IF x \in Unsigned(W) THEN {JS_NewUint32(x)} ELSE {}

-----------------------------------------------------------------------------
(***************************************************************************)
(* Questions.  Clamping is asked as Array.prototype.slice does, with       *)
(* lengths up to 3.                                                        *)
(***************************************************************************)
NoArg == [x |-> 0, d |-> NaN]
Ask(op, S) == {[op |-> op, arg |-> a] : a \in S}
OfDouble(S) == {[NoArg EXCEPT !.d = d] : d \in S}
OfInt(S) == {[NoArg EXCEPT !.x = x] : x \in S}

Init ==
    /\ question \in
          UNION {Ask(op, OfDouble(Doubles)) :
                   op \in {"toInt32", "toInt64", "saturate", "index", "double"}}
          \cup Ask("slice", {[NoArg EXCEPT !.d = d, !.x = n] :
                                d \in Doubles, n \in 0..3})
          \cup Ask("int64", OfInt(Signed(D)))
          \cup Ask("uint", OfInt(Unsigned(D)))
    /\ answers = {}

Arg == question.arg
Asked(op) == question.op = op /\ answers = {}

ToInt32 == Asked("toInt32") /\ answers' = ToInt32Double(Arg.d)
ToInt64 == Asked("toInt64") /\ answers' = ToInt64Double(Arg.d)
Saturate64 == Asked("saturate") /\ answers' = Saturate(Arg.d, D)
ToIndex == Asked("index") /\ answers' = JS_ToIndex(Arg.d)

\* Double.jsValue followed by Double.init
DoubleRoundTrip == Asked("double") /\ answers' = {Number(v) : v \in JS_NewFloat64(Arg.d)}

\* An argument of Array.prototype.slice for a length Arg.x
Slice ==
    /\ Asked("slice")
    /\ answers' = {Clamp(x, 0, Arg.x, Arg.x) : x \in Saturate(Arg.d, D)}

\* Int.jsValue followed by Int.init
Int64RoundTrip == Asked("int64") /\ answers' = JS_ToInt64(JS_NewInt64(Arg.x))

\* UInt.jsValue followed by UInt.init
UIntRoundTrip ==
    /\ Asked("uint")
    /\ answers' = UNION ({JS_ToUint32(v) : v \in UIntToJS(Arg.x)}
                          \cup {{Trap} : t \in IF UIntToJS(Arg.x) = {} THEN {1} ELSE {}})

Next ==
    /\ \/ ToInt32 \/ ToInt64 \/ Saturate64 \/ ToIndex \/ Slice
       \/ DoubleRoundTrip \/ Int64RoundTrip \/ UIntRoundTrip
    /\ UNCHANGED question

Spec == Init /\ [][Next]_vars

-----------------------------------------------------------------------------
\* The question is of the named kind and was answered.
Answered(op) == question.op = op /\ answers # {}

\* JS_ToInt32 and JS_ToInt64 return the integer part modulo 2^32 and 2^64,
\* through all their ranges of exponents, and never rely on an undefined cast.
ModuloRight ==
    /\ Answered("toInt32") =>
          answers = {IF IsFinite(Arg.d) THEN Wrap(Trunc(Arg.d), W) ELSE 0}
    /\ Answered("toInt64") =>
          answers = {IF IsFinite(Arg.d) THEN Wrap(Trunc(Arg.d), D) ELSE 0}

\* JS_ToInt64Sat saturates, with one exception: exactly 2^63 passes the
\* comparison, because INT64_MAX was rounded up, and its cast is undefined.
SaturatesRight ==
    Answered("saturate") =>
        LET d == Arg.d
        IN  IF Equal(d, 2^(D - 1)) THEN MaxInt(D) \in answers
            ELSE answers = {CASE d.kind = "nan" -> 0
                              [] d.kind = "infinite" /\ d.neg -> MinInt(D)
                              [] d.kind = "infinite" /\ ~d.neg -> MaxInt(D)
                              [] IsFinite(d) /\ Trunc(d) < MinInt(D) -> MinInt(D)
                              [] IsFinite(d) /\ Trunc(d) > MaxInt(D) -> MaxInt(D)
                              [] OTHER -> Trunc(d)}

\* A double goes to JavaScript and back unchanged, the sign of zero and numbers
\* that are integers there included.
DoublesSurvive == Answered("double") => answers = {Arg.d}

\* JS_ToInt64Clamp with the arguments of slice gives the position that the
\* language defines, 2^63 excepted.
SlicePosition ==
    Answered("slice") =>
        LET d == Arg.d
            n == Arg.x
            t == Trunc(d)
        IN  \/ Equal(d, 2^(D - 1))
            \/ answers = {CASE d.kind = "nan" -> 0
                            [] d.kind = "infinite" /\ d.neg -> 0
                            [] d.kind = "infinite" /\ ~d.neg -> n
                            [] IsFinite(d) /\ t < 0 -> IF n + t < 0 THEN 0 ELSE n + t
                            [] OTHER -> IF t < n THEN t ELSE n}

\* An Int goes to JavaScript and back unchanged up to 2^53.  Beyond, it is
\* rounded, by at most half a unit in the last place modulo 2^64: the largest
\* ones come back as the smallest.
IntsSurvive ==
    Answered("int64") =>
        /\ Cardinality(answers) = 1
        /\ \A y \in answers :
              /\ Abs(Arg.x) <= 2^P => y = Arg.x
              /\ Abs(Wrap(y - Arg.x, D)) <= 2^(D - 2 - P)

\* A UInt goes to JavaScript and back unchanged below 2^32; above, the process
\* ends and no wrong number is handed over.
UIntsSurvive ==
    Answered("uint") =>
        answers = {IF Arg.x \in Unsigned(W) THEN Arg.x ELSE Trap}

\* JS_ToIndex returns the integer part if it is from 0 to 2^53 - 1, and raises an
\* exception for all other numbers but NaN, which is 0; 2^63 excepted.
IndexRight ==
    Answered("index") =>
        LET d == Arg.d
        IN  \/ Equal(d, 2^(D - 1))
            \/ answers = {CASE d.kind = "nan" -> 0
                            [] d.kind = "infinite" -> Exception
                            [] IsFinite(d) /\ Trunc(d) \in 0..2^P - 1 -> Trunc(d)
                            [] OTHER -> Exception}

\* The conversions that the engine builds on agree with their definitions in the
\* language: JS_ToInt32 and JS_ToInt64 for every double; JS_ToInt64Sat, and what
\* clamps or checks its result, for every double but 2^63, whose cast is undefined.
EngineConversionsRight == ModuloRight /\ SaturatesRight /\ SlicePosition /\ IndexRight

\* A number that goes from Swift to JavaScript and back comes back as it was,
\* within the limits that each part names.
ValuesSurvive == DoublesSurvive /\ IntsSurvive /\ UIntsSurvive

=============================================================================
