------------------------------ MODULE Overloads -----------------------------
(***************************************************************************)
(* Which overload a call means, and how types convert (semantic/types.rs). *)
(*                                                                         *)
(* A type is [kind, name, simple, dims]: a primitive, a class, a type      *)
(* variable, null or unknown, with its simple name and array dimensions;   *)
(* Supers[n] is the set of classes class n inherits from, n included.  A  *)
(* method is [name, params, varargs, bindings, clash]: bindings counts the *)
(* type variables inference binds, clash says that it binds one twice.  A  *)
(* parameter is a type with sam, the single abstract method of the         *)
(* functional interface it is, [arity, ret].  An argument is [type, fun],  *)
(* fun being None or what is known of a lambda or a method reference.      *)
(***************************************************************************)
EXTENDS Integers, Sequences, SequencesExt, FiniteSets

CONSTANTS None, Supers

Unknown == [kind |-> "unknown", name |-> "unknown", simple |-> "unknown", dims |-> 0]

Numeric == {"byte", "short", "char", "int", "long", "float", "double"}
Integral == Numeric \ {"float", "double"}

-----------------------------------------------------------------------------
(* Conversions.                                                             *)

Wrapper == [n \in Numeric \cup {"boolean"} |->
              CASE n = "byte" -> "Byte" [] n = "short" -> "Short" [] n = "char" -> "Character"
                [] n = "int" -> "Integer" [] n = "long" -> "Long" [] n = "float" -> "Float"
                [] n = "double" -> "Double" [] n = "boolean" -> "Boolean"]

UnboxedPrimitive(name) ==
    IF name \in DOMAIN Wrapper THEN name
    ELSE LET p == {n \in DOMAIN Wrapper : Wrapper[n] = name}
         IN IF p = {} THEN None ELSE CHOOSE n \in p : TRUE

AreBoxingCompatible(left, right) ==
    \/ left = right
    \/ left \in DOMAIN Wrapper /\ Wrapper[left] = right
    \/ right \in DOMAIN Wrapper /\ Wrapper[right] = left

IsWideningPrimitive(source, target) ==
    \/ source = "byte" /\ target \in {"short", "int", "long", "float", "double"}
    \/ source \in {"short", "char"} /\ target \in {"int", "long", "float", "double"}
    \/ source = "int" /\ target \in {"long", "float", "double"}
    \/ source = "long" /\ target \in {"float", "double"}
    \/ source = "float" /\ target = "double"

IsReferenceWidening(source, target) ==
    IF source.dims > 0 \/ target.dims > 0
    THEN target.dims = source.dims \/ (target.dims = 0 /\ target.name = "Object")
    ELSE /\ source.kind # "prim" /\ target.kind # "prim"
         /\ \/ source.name = target.name
            \/ source.name \in DOMAIN Supers /\ target.name \in Supers[source.name]

ClassifyConversion(source, target) ==
    LET src == UnboxedPrimitive(source.name)
        dst == UnboxedPrimitive(target.name)
        Boxed(both, box, unbox, neither) ==
          IF source.kind = "prim" THEN IF target.kind = "prim" THEN both ELSE box
          ELSE IF target.kind = "prim" THEN unbox ELSE neither
    IN IF source.name = target.name /\ source.dims = target.dims THEN "identity"
       ELSE IF source.kind = "unknown" \/ target.kind = "unknown" THEN "unknown"
       ELSE IF source.kind = "null"
       THEN IF target.kind # "prim" /\ (target.dims > 0 \/ target.kind = "class")
            THEN "null_to_reference" ELSE "incompatible"
       ELSE IF src # None /\ dst # None
       THEN IF src = dst THEN Boxed("identity", "boxing", "unboxing", "identity")
            ELSE IF IsWideningPrimitive(src, dst)
            THEN Boxed("widening", "boxing_widening", "unboxing_widening", "incompatible")
            ELSE "narrowing"
       ELSE IF source.name = target.name THEN Boxed("identity", "boxing", "unboxing", "identity")
       ELSE IF IsReferenceWidening(source, target) THEN "reference_widening"
       ELSE "incompatible"

CompatibilityScore(kind) ==
    CASE kind = "identity" -> 120 [] kind = "widening" -> 95 [] kind = "unboxing_widening" -> 85
      [] kind \in {"boxing", "unboxing"} -> 80 [] kind = "boxing_widening" -> 75
      [] kind = "reference_widening" -> 70 [] kind = "null_to_reference" -> 65
      [] kind = "unknown" -> 0 [] kind = "narrowing" -> -20 [] kind = "incompatible" -> -100

PromotedLongFirst(left, right) ==
    LET l == UnboxedPrimitive(left)  r == UnboxedPrimitive(right) IN
    IF ~({l, r} \subseteq Numeric) THEN None
    ELSE IF "double" \in {l, r} THEN "double"
    ELSE IF "long" \in {l, r} THEN "long"
    ELSE IF "float" \in {l, r} THEN "float"
    ELSE "int"
PromotedNumeric(left, right) ==
    LET l == UnboxedPrimitive(left)  r == UnboxedPrimitive(right) IN
    IF ~({l, r} \subseteq Numeric) THEN None
    ELSE IF "double" \in {l, r} THEN "double"
    ELSE IF "float" \in {l, r} THEN "float"
    ELSE IF "long" \in {l, r} THEN "long"
    ELSE "int"

PromotedIntegral(left, right) ==
    LET l == UnboxedPrimitive(left)  r == UnboxedPrimitive(right) IN
    IF ~({l, r} \subseteq Integral) THEN None
    ELSE IF "long" \in {l, r} THEN "long" ELSE "int"

PromotedShift(left, right) ==
    LET l == UnboxedPrimitive(left)  r == UnboxedPrimitive(right) IN
    IF ~({l, r} \subseteq Integral) THEN None
    ELSE IF l = "long" THEN "long" ELSE "int"

PromotedUnary(operand) ==
    LET o == UnboxedPrimitive(operand) IN
    IF o \notin Integral THEN None ELSE IF o = "long" THEN "long" ELSE "int"

-----------------------------------------------------------------------------
(* Applicability.                                                           *)

IsVarargs(method) ==
    method.varargs /\ method.params # <<>> /\ Last(method.params).dims > 0

MethodAcceptsArity(method, n) ==
    IF IsVarargs(method) THEN n >= Len(method.params) - 1 ELSE n = Len(method.params)

NormalizeArgTypes(count, types) ==
    [i \in 1..count |-> IF i <= Len(types) THEN types[i] ELSE Unknown]

Element(type) == [type EXCEPT !.dims = @ - 1]

(* As many dimensions are peeled off as the parameter has.                  *)
ScoreSingleDescriptor(desc, ty) ==
    LET rest == ty.dims - desc.dims IN
    IF rest < 0 THEN -1
    ELSE IF rest = 0 /\ desc.name = ty.name THEN 10
    ELSE IF rest = 0 /\ AreBoxingCompatible(desc.name, ty.name) THEN 8
    ELSE IF desc.name = "Object" THEN IF rest = 0 /\ ty.kind = "prim" THEN -1 ELSE 5
    ELSE IF rest = 0 /\ desc.simple = ty.simple THEN 10
    ELSE -1

ScoreArgument(desc, ty) ==
    IF (desc.kind = "var" /\ desc.dims = 0) \/ ty.kind = "unknown" THEN 0
    ELSE ScoreSingleDescriptor(desc, ty)

Total(scores) ==
    IF \E i \in DOMAIN scores : scores[i] < 0 THEN None ELSE FoldLeft(+, 0, scores)

ScoreFixed(method, types) ==
    IF Len(method.params) # Len(types) THEN None
    ELSE Total([i \in DOMAIN types |-> ScoreArgument(method.params[i], types[i])])

ScoreVarargs(method, types) ==
    LET fixed == Len(method.params) - 1 IN
    IF ~IsVarargs(method) \/ Len(types) < fixed THEN None
    ELSE LET total == Total([i \in DOMAIN types |->
                               ScoreArgument(IF i <= fixed THEN method.params[i]
                                             ELSE Element(Last(method.params)), types[i])])
         IN IF total = None THEN None ELSE total - 1

Score(method, mode, types) ==
    IF mode = "fixed" THEN ScoreFixed(method, types) ELSE ScoreVarargs(method, types)

(* The parameter an argument goes to, and whether it is one of its elements. *)
MapArgumentPastEnd(method, index, mode) ==
    LET n == Len(method.params) IN
    IF mode = "fixed" THEN IF index > n THEN None ELSE [param |-> index, element |-> FALSE]
    ELSE IF index <= n THEN [param |-> index, element |-> FALSE]
    ELSE [param |-> n, element |-> TRUE]
MapArgument(method, index, mode) ==
    LET n == Len(method.params) IN
    IF n = 0 THEN None
    ELSE IF mode = "fixed" THEN IF index > n THEN None ELSE [param |-> index, element |-> FALSE]
    ELSE IF ~IsVarargs(method) THEN None
    ELSE IF index < n THEN [param |-> index, element |-> FALSE]
    ELSE [param |-> n, element |-> TRUE]

FormalParam(method, index, mode) ==
    LET at == MapArgument(method, index, mode) IN
    IF at = None THEN None
    ELSE IF at.element THEN Element(method.params[at.param]) ELSE method.params[at.param]

-----------------------------------------------------------------------------
(* Selection by argument types.                                             *)

ModeRank(mode) == IF mode = "fixed" THEN 1 ELSE 0

BetterOverloadMatch(current, candidate) ==
    \/ current = None
    \/ IF candidate.mode # current.mode THEN ModeRank(candidate.mode) > ModeRank(current.mode)
       ELSE candidate.score > current.score

(* Each method as fixed and as varargs invocation, where it applies.        *)
Matches(candidates, types) ==
    LET Both(m) == SelectSeq(<<[method |-> m, mode |-> "fixed", score |-> ScoreFixed(m, types)],
                               [method |-> m, mode |-> "varargs", score |-> ScoreVarargs(m, types)]>>,
                             LAMBDA x : x.score # None)
    IN FlattenSeq([i \in DOMAIN candidates |-> Both(candidates[i])])

SelectOverloadMatch(candidates, count, types) ==
    FoldLeft(LAMBDA best, m : IF BetterOverloadMatch(best, m) THEN m ELSE best,
             None, Matches(candidates, NormalizeArgTypes(count, types)))

-----------------------------------------------------------------------------
(* Selection by lambdas and method references.                              *)

UnknownOrNonFunctional(formal) ==
    IF formal.kind = "prim" \/ formal.dims > 0 THEN "incompatible"
    ELSE IF formal.kind = "class" /\ formal.name \in DOMAIN Supers THEN "incompatible"
    ELSE "partial"

FunctionalReturn(actual, sam_ret) ==
    IF sam_ret.name = "void" \/ sam_ret.kind = "var" THEN "partial"
    ELSE LET kind == ClassifyConversion(actual, sam_ret)
         IN IF kind \in {"incompatible", "narrowing"} THEN "incompatible"
            ELSE IF kind = "unknown" THEN "partial" ELSE "exact"

(* arity and ret of a lambda are None when its text is not understood.      *)
LambdaStatus(lambda, formal) ==
    IF lambda.arity = None THEN "partial"
    ELSE IF formal.sam = None THEN UnknownOrNonFunctional(formal)
    ELSE IF lambda.arity # formal.sam.arity THEN "incompatible"
    ELSE IF lambda.ret = None THEN "partial"
    ELSE FunctionalReturn(lambda.ret, formal.sam.ret)

(* The statuses of the members a reference may mean: of_type are those of   *)
(* the type its qualifier names, of_expr those of the value's type, None    *)
(* where it names none; input is the first parameter of the target.  A      *)
(* constructor counts as a static member that returns its class, and ret is *)
(* a boxed type, or None for void.                                          *)
RefStatuses(ref, formal) ==
    LET n == formal.sam.arity
        Returned(ret) == IF ret = None THEN "partial" ELSE FunctionalReturn(ret, formal.sam.ret)
        Unbound(m) == ~m.static /\ n > 0 /\ MethodAcceptsArity(m, n - 1)
        Receives(m) == Unbound(m) => \/ formal.sam.input = None
                                     \/ ClassifyConversion(formal.sam.input, ref.owner)
                                          \notin {"incompatible", "narrowing"}
        Fits(m) == ((m.static /\ MethodAcceptsArity(m, n)) \/ Unbound(m)) /\ Receives(m)
        OfType(m) == IF Unbound(m) /\ formal.sam.input = None /\ Returned(m.ret) = "exact"
                     THEN "partial" ELSE Returned(m.ret)
        Some(members) == IF members = None THEN {} ELSE ToSet(members)
    IN {OfType(m) : m \in {x \in Some(ref.of_type) : Fits(x)}}
         \cup {Returned(m.ret) : m \in {x \in Some(ref.of_expr) : ~x.static /\ MethodAcceptsArity(x, n)}}

RefStatus(ref, formal) ==
    IF formal.sam = None THEN UnknownOrNonFunctional(formal)
    ELSE IF ref.of_type = None /\ ref.of_expr = None THEN "partial"
    ELSE LET found == RefStatuses(ref, formal)
         IN IF "exact" \in found THEN "exact"
            ELSE IF "partial" \in found THEN "partial" ELSE "incompatible"

FunctionalStatus(fun, formal) ==
    IF fun.kind = "lambda" THEN LambdaStatus(fun, formal) ELSE RefStatus(fun, formal)

StatusOf(m, index, arg) ==
    LET formal == FormalParam(m.method, index, m.mode)
    IN IF formal = None THEN "incompatible" ELSE FunctionalStatus(arg.fun, formal)

ScoredCallsite(m, status) ==
    LET Count(s) == Cardinality({i \in DOMAIN status : status[i] = s})
    IN IF Count("incompatible") > 0 \/ m.method.clash THEN None
       ELSE [overload |-> m,
             key |-> <<Count("exact"), Count("partial"), m.method.bindings, ModeRank(m.mode), m.score>>]

(* None when an argument does not fit or a type variable is bound twice.    *)
BuildCallsite(m, args) ==
    ScoredCallsite(m, [i \in {i \in DOMAIN args : args[i].fun # None} |-> StatusOf(m, i, args[i])])

KeyLess(a, b) ==
    \E i \in DOMAIN a : a[i] < b[i] /\ \A j \in 1..(i - 1) : a[j] = b[j]

(* max_by keeps the last of the greatest.                                   *)
BestCallsite(scored) ==
    FoldLeft(LAMBDA best, c : IF best = None \/ ~KeyLess(c.key, best.key) THEN c ELSE best,
             None, scored)

CallsiteLast(scored) == IF scored = <<>> THEN None ELSE BestCallsite(scored).overload
CallsiteOf(scored) ==
    LET best == BestCallsite(scored)
        Same(c) == /\ c.overload.method.name = best.overload.method.name
                   /\ c.overload.method.params = best.overload.method.params
                   /\ c.overload.mode = best.overload.mode
        ambiguous == /\ \E i \in DOMAIN scored : ~Same(scored[i])
                     /\ Cardinality({i \in DOMAIN scored : scored[i].key = best.key}) > 1
    IN IF scored = <<>> \/ ambiguous THEN None ELSE best.overload

SelectWithCallsite(candidates, args) ==
    LET types == [i \in DOMAIN args |-> IF args[i].fun = None THEN args[i].type ELSE Unknown]
        matches == Matches(candidates, types)
        scored == SelectSeq([i \in DOMAIN matches |-> BuildCallsite(matches[i], args)],
                            LAMBDA c : c # None)
    IN IF \A i \in DOMAIN args : args[i].fun = None
       THEN SelectOverloadMatch(candidates, Len(args), types)
       ELSE CallsiteOf(scored)

-----------------------------------------------------------------------------
(* What must hold.                                                          *)

Convertible(source, target) ==
    ClassifyConversion(source, target) \notin {"incompatible", "narrowing", "unknown"}

(* What a binary operator promotes to is the least type from int on that    *)
(* both operands widen to; an operator on integers gives that same type.    *)
PromotionIsLeast(left, right) ==
    LET Up(n) == {t \in {"int", "long", "float", "double"} :
                    n = t \/ IsWideningPrimitive(n, t)}
        l == UnboxedPrimitive(left)
        r == UnboxedPrimitive(right)
        sum == PromotedNumeric(left, right)
    IN /\ sum # None <=> {l, r} \subseteq Numeric
       /\ sum # None => sum \in Up(l) \cap Up(r) /\ Up(l) \cap Up(r) \subseteq Up(sum)
       /\ PromotedIntegral(left, right) # None =>
            /\ PromotedIntegral(left, right) = sum
            /\ PromotedShift(left, right) = PromotedUnary(left)
       /\ PromotedUnary(left) # None => PromotedUnary(left) = PromotedIntegral(left, left)

(* Conversions that lose nothing compose, and no two types convert to each  *)
(* other that way, as long as they are not arrays.                          *)
WideningIsAnOrder(a, b, c) ==
    LET Up(s, t) == ClassifyConversion(s, t) \in {"identity", "widening", "reference_widening",
                                                  "null_to_reference"}
    IN a.dims = 0 /\ b.dims = 0 /\ c.dims = 0 =>
         /\ Up(a, b) /\ Up(b, c) => Up(a, c)
         /\ Up(a, b) /\ Up(b, a) => a.name = b.name

(* Overload scores and conversion scores rank alike: an argument that is    *)
(* accepted converts to the parameter, and the parameter that scores higher *)
(* takes the better conversion, as long as simple names are unique, the     *)
(* argument's class is indexed, and neither is an array.                    *)
ScoresFollowConversions(arg, one, other) ==
    LET Compat(t) == CompatibilityScore(ClassifyConversion(arg, t)) IN
    /\ arg.dims = 0 /\ one.dims = 0 /\ other.dims = 0
    /\ \A t \in {one, other} : t.kind # "var" /\ (t.simple = arg.simple => t.name = arg.name)
    /\ arg.kind \in {"prim", "null"} \/ (arg.kind = "class" /\ arg.name \in DOMAIN Supers)
    => /\ ScoreArgument(one, arg) >= 0 => Convertible(arg, one)
       /\ ScoreArgument(one, arg) > ScoreArgument(other, arg) /\ ScoreArgument(other, arg) >= 0
            => Compat(one) > Compat(other)

(* The overload that is chosen applies: every argument has a parameter it   *)
(* fits, no applicable overload beats it, and the order in which members    *)
(* are listed decides only between equals; none is chosen when none         *)
(* applies.                                                                 *)
ChosenApplies(candidates, count, types) ==
    LET best == SelectOverloadMatch(candidates, count, types)
        again == SelectOverloadMatch(Reverse(candidates), count, types)
        args == NormalizeArgTypes(count, types)
        all == ToSet(Matches(candidates, args))
    IN /\ best = None <=> all = {}
       /\ best = None <=> again = None
       /\ best # None =>
            /\ best.mode = again.mode /\ best.score = again.score
            /\ \A m \in all : ~BetterOverloadMatch(best, m)
            /\ MethodAcceptsArity(best.method, count)
            /\ \A i \in 1..count :
                 LET formal == FormalParam(best.method, i, best.mode)
                 IN formal # None /\ ScoreArgument(formal, args[i]) >= 0

SameChoice(best, again) ==
    /\ best = None <=> again = None
    /\ best # None => best.method.params = again.method.params /\ best.mode = again.mode

FunctionsFit(best, args) ==
    best # None =>
        \A i \in DOMAIN args : args[i].fun # None => StatusOf(best, i, args[i]) # "incompatible"

(* With lambdas and method references the answer does not depend on the     *)
(* order of the members at all: an overload is chosen only when it alone is *)
(* best, and none of its functional arguments is known not to fit.          *)
CallsiteUnordered(candidates, args) ==
    (\E i \in DOMAIN args : args[i].fun # None) =>
        LET best == SelectWithCallsite(candidates, args)
        IN SameChoice(best, SelectWithCallsite(Reverse(candidates), args)) /\ FunctionsFit(best, args)
=============================================================================
