---------------------------- MODULE GenericTypes -----------------------------
(***************************************************************************)
(* Types as names and as JVM signatures, and what a call makes of the type *)
(* variables of its method and its receiver (semantic/types/type_name.rs,  *)
(* semantic/types/generics.rs, semantic/types.rs).                         *)
(*                                                                         *)
(* A type name is [kind, name, args, dims]; the kind is "named", "prim",   *)
(* "var", "source", "and", "?", "extends", "super", "null" or "unknown".   *)
(* A JVM type is [tag, name, args]: a class "L", a type variable "T", a    *)
(* primitive "prim", an array "[", or a wildcard "*", "+" or "-".  A       *)
(* signature is the sequence of its tokens.  A name is <<path, nest>>, as  *)
(* in NameResolution.                                                      *)
(*                                                                         *)
(* A method is [tparams, params, ret, varargs] with JVM types; tparams are *)
(* the names of its type variables.                                        *)
(***************************************************************************)
EXTENDS Naturals, Sequences

CONSTANT None

LOCAL INSTANCE SequencesExt
LOCAL INSTANCE Functions

Simple(n) == << <<>>, <<n>> >>
Lang(n) == << <<"java", "lang">>, <<n>> >>

TypeName(kind, name, args, dims) == [kind |-> kind, name |-> name, args |-> args, dims |-> dims]
Internal(name) == TypeName("named", name, <<>>, 0)
Primitive(n) == TypeName("prim", Simple(n), <<>>, 0)
UnknownType == TypeName("unknown", Simple("unknown"), <<>>, 0)
Jvm(tag, name, args) == [tag |-> tag, name |-> name, args |-> args]
Object(name, args) == Jvm("L", name, args)
TypeVar(name) == Jvm("T", name, <<>>)
Of(tag, inner) == Jvm(tag, Simple(tag), <<inner>>)
Wildcard == Jvm("*", Simple("*"), <<>>)

RECURSIVE SignatureOf(_), Parse(_), ParseArgs(_, _), ToTypeName(_), ToJvmSignature(_), ErasedInternal(_)
RECURSIVE Substitute(_, _, _), SubstituteTypeVars(_, _), TypeVarsOf(_), BindMethodTypeVars(_, _, _, _)
RECURSIVE ToInternalWithGenerics(_), SigForSubstitution(_), ToInternalForSubstitution(_)
RECURSIVE IsConcrete(_), ExpandWithBounds(_, _, _), ParseParameterNames(_), ParseBounds(_, _), Dropped(_)

-----------------------------------------------------------------------------
(* Signatures.                                                              *)
Token(c, name) == [c |-> c, name |-> name]
Sign(c) == Token(c, None)
Starts(s, c) == s # <<>> /\ s[1].c = c

SignatureOf(j) ==
    CASE j.tag = "L" ->
           <<Token("L", j.name)>>
           \o (IF j.args = <<>> THEN <<>>
               ELSE <<Sign("<")>> \o FlattenSeq([i \in DOMAIN j.args |-> SignatureOf(j.args[i])]) \o <<Sign(">")>>)
           \o <<Sign(";")>>
      [] j.tag \in {"T", "prim"} -> <<Token(j.tag, j.name)>>
      [] j.tag = "*" -> <<Sign("*")>>
      [] OTHER -> <<Sign(j.tag)>> \o SignatureOf(j.args[1])

Parse(s) ==
    IF s = <<>> THEN None
    ELSE LET h == s[1]
             args == IF Starts(Tail(s), "<") THEN ParseArgs(Tail(Tail(s)), <<>>) ELSE [args |-> <<>>, rest |-> Tail(s)]
             inner == Parse(Tail(s))
         IN CASE h.c = "L" ->
                   IF args = None THEN None
                   ELSE [type |-> Object(h.name, args.args),
                         rest |-> IF Starts(args.rest, ";") THEN Tail(args.rest) ELSE args.rest]
              [] h.c \in {"T", "prim"} -> [type |-> Jvm(h.c, h.name, <<>>), rest |-> Tail(s)]
              [] h.c = "*" -> [type |-> Wildcard, rest |-> Tail(s)]
              [] h.c \in {"[", "+", "-"} ->
                   IF inner = None THEN None ELSE [type |-> Of(h.c, inner.type), rest |-> inner.rest]
              [] OTHER -> None
ParseArgs(s, args) ==
    IF Starts(s, ">") THEN [args |-> args, rest |-> Tail(s)]
    ELSE LET one == Parse(s) IN IF one = None THEN None ELSE ParseArgs(one.rest, Append(args, one.type))

(* The type parameters of a class or method signature: a name, then bounds, *)
(* each after a colon; the first one may be missing.  Names alone:          *)
Dropped(s) == IF s = <<>> \/ Starts(s, "P") THEN s ELSE Dropped(Tail(s))
ParseParameterNames(s) ==
    IF s = <<>> THEN <<>> ELSE <<s[1].name>> \o ParseParameterNames(Dropped(Tail(s)))
(* The bounds that follow a parameter, and what is left.                    *)
ParseBounds(s, bounds) ==
    IF ~Starts(s, ":") THEN [bounds |-> bounds, rest |-> s]
    ELSE IF Starts(Tail(s), ":") THEN ParseBounds(Tail(s), bounds)
    ELSE LET one == Parse(Tail(s)) IN
         IF one = None THEN [bounds |-> bounds, rest |-> Tail(s)] ELSE ParseBounds(one.rest, Append(bounds, one.type))
ParseTypeParameterBounds(s) ==
    LET RECURSIVE From(_, _)
        From(t, found) ==
          IF ~Starts(t, "P") THEN found
          ELSE LET one == ParseBounds(Tail(t), <<>>)
               IN From(one.rest, [x \in {t[1].name} |-> one.bounds] @@ found)
    IN From(s, <<>>)

-----------------------------------------------------------------------------
(* Type names.                                                              *)
IsExactClass(t) == IF t.kind = "and" THEN t.args # <<>> /\ t.args[1].kind = "named" ELSE t.kind = "named"
ErasedInternal(t) == IF t.kind = "and" /\ t.args # <<>> THEN ErasedInternal(t.args[1]) ELSE t.name
ErasedWithArrays(t) ==
    IF t.kind = "and" /\ t.args # <<>> THEN <<ErasedInternal(t), t.args[1].dims + t.dims>> ELSE <<t.name, t.dims>>
ElementType(t) == IF t.dims = 0 THEN None ELSE [t EXCEPT !.dims = @ - 1]
WrapArray(t) == [t EXCEPT !.dims = @ + 1]

(* Intersections are flat; one of one bound is that bound.                  *)
Intersection(bounds) ==
    LET flat == FlattenSeq([i \in DOMAIN bounds |-> IF bounds[i].kind = "and" THEN bounds[i].args ELSE <<bounds[i]>>])
    IN IF Len(flat) = 1 THEN flat[1] ELSE TypeName("and", Simple("&"), flat, 0)

ToTypeName(j) ==
    LET inner == ToTypeName(j.args[1]) IN
    CASE j.tag = "L" -> TypeName("named", j.name, [i \in DOMAIN j.args |-> ToTypeName(j.args[i])], 0)
      [] j.tag = "T" -> TypeName("var", j.name, <<>>, 0)
      [] j.tag = "prim" -> TypeName("prim", j.name, <<>>, 0)
      [] j.tag = "[" -> WrapArray(inner)
      [] j.tag = "*" -> TypeName("?", Simple("*"), <<>>, 0)
      [] j.tag = "+" -> TypeName("extends", Simple("+"), <<inner>>, 0)
      [] j.tag = "-" -> TypeName("super", Simple("-"), <<inner>>, 0)

Brackets(t, c) == [i \in 1..t.dims |-> Sign(c)]
Arguments(t, Signature(_)) ==
    IF t.args = <<>> THEN <<>>
    ELSE <<Sign("<")>> \o FlattenSeq([i \in DOMAIN t.args |-> Signature(t.args[i])]) \o <<Sign(">")>>

ToJvmSignature(t) ==
    Brackets(t, "[")
    \o CASE t.kind = "and" -> IF t.args = <<>> THEN SignatureOf(Object(Lang("Object"), <<>>)) ELSE ToJvmSignature(t.args[1])
         [] t.kind = "prim" -> <<Token("prim", t.name)>>
         [] t.kind = "?" -> <<Sign("*")>>
         [] t.kind = "extends" -> <<Sign("+")>> \o ToJvmSignature(t.args[1])
         [] t.kind = "super" -> <<Sign("-")>> \o ToJvmSignature(t.args[1])
         [] t.kind \in {"var", "null", "unknown"} -> <<Token("T", t.name)>>
         [] t.kind \in {"named", "source"} -> <<Token("L", t.name)>> \o Arguments(t, ToJvmSignature) \o <<Sign(";")>>

TypeNameToJvmType(t) ==
    LET parsed == Parse(ToJvmSignature(t)) IN
    IF t.kind \in {"unknown", "null", "source"} \/ parsed = None THEN None
    ELSE IF parsed.rest = <<>> THEN parsed.type ELSE None

(* The form in which receivers are passed on: the class, its arguments as   *)
(* signatures, and brackets behind.                                         *)
ToInternalWithGenerics(t) ==
    IF t.kind = "and"
    THEN FlattenSeq([i \in DOMAIN t.args |-> (IF i = 1 THEN <<>> ELSE <<Sign("&")>>) \o ToInternalWithGenerics(t.args[i])])
         \o Brackets(t, "[]")
    ELSE <<Token("N", t.name)>>
         \o (IF t.kind \in {"extends", "super"} THEN <<>> ELSE Arguments(t, ToJvmSignature)) \o Brackets(t, "[]")

(* Names without a package stay classes here.                               *)
SigForSubstitution(t) ==
    Brackets(t, "[")
    \o CASE t.kind = "prim" -> <<Token("prim", t.name)>>
         [] t.kind = "?" -> <<Sign("*")>>
         [] t.kind = "extends" -> <<Sign("+")>> \o SigForSubstitution(t.args[1])
         [] t.kind = "super" -> <<Sign("-")>> \o SigForSubstitution(t.args[1])
         [] t.kind = "var" -> <<Token("T", t.name)>>
         [] OTHER -> <<Token("L", t.name)>> \o Arguments(t, SigForSubstitution) \o <<Sign(";")>>
ToInternalForSubstitution(t) ==
    IF t.kind = "and"
    THEN FlattenSeq([i \in DOMAIN t.args |-> (IF i = 1 THEN <<>> ELSE <<Sign("&")>>) \o ToInternalForSubstitution(t.args[i])])
         \o Brackets(t, "[]")
    ELSE <<Token("N", t.name)>> \o Arguments(t, SigForSubstitution) \o Brackets(t, "[]")

(* The class and the arguments of a receiver.  What stands before the first *)
(* "<" is the class; without arguments, brackets are taken as part of it.   *)
SplitInternalName(s) ==
    LET RECURSIVE All(_)
        All(rest) == LET one == Parse(rest) IN IF one = None THEN <<>> ELSE <<one.type>> \o All(one.rest)
    IN IF Len(s) > 1 /\ s[2].c = "<" THEN [base |-> s[1].name, args |-> All(SubSeq(s, 3, Len(s)))]
       ELSE [base |-> IF Len(s) = 1 THEN s[1].name ELSE None, args |-> <<>>]

-----------------------------------------------------------------------------
(* Substitution.                                                            *)
Wrappers == [byte |-> "Byte", short |-> "Short", int |-> "Integer", long |-> "Long", float |-> "Float",
             double |-> "Double", char |-> "Character", boolean |-> "Boolean"]
BoxJvmPrimitive(j) ==
    IF j.tag = "prim" /\ j.name[2][1] \in DOMAIN Wrappers THEN Object(Lang(Wrappers[j.name[2][1]]), <<>>) ELSE j

Position(params, name) == SelectInSeq(params, LAMBDA p : p = name)
SubstituteDirect(j, params, args) ==
    LET at == Position(params, j.name) IN IF j.tag = "T" /\ at \in DOMAIN args THEN args[at] ELSE j
(* Primitives are boxed where they become arguments of a class.             *)
Substitute(j, params, args) ==
    LET at == Position(params, j.name)
        new == [i \in DOMAIN j.args |-> Substitute(j.args[i], params, args)]
    IN CASE j.tag = "T" -> IF at \in DOMAIN args THEN args[at] ELSE j
         [] j.tag = "L" -> [j EXCEPT !.args = [i \in DOMAIN new |-> BoxJvmPrimitive(new[i])]]
         [] j.tag \in {"[", "+", "-"} -> [j EXCEPT !.args = new]
         [] OTHER -> j

SubstituteTypeVars(j, bindings) ==
    IF j.tag = "T" THEN IF j.name \in DOMAIN bindings THEN bindings[j.name] ELSE j
    ELSE [j EXCEPT !.args = [i \in DOMAIN j.args |-> SubstituteTypeVars(j.args[i], bindings)]]

TypeVarsOf(j) == IF j.tag = "T" THEN {j.name} ELSE UNION {TypeVarsOf(j.args[i]) : i \in DOMAIN j.args}
IsConcrete(j) == j.tag \notin {"T", "*", "+", "-"} /\ \A i \in DOMAIN j.args : IsConcrete(j.args[i])

(* Receiver arguments are put in only when both sides have some.            *)
SubstituteReceiver(j, params, args) == IF params = <<>> \/ args = <<>> THEN j ELSE Substitute(j, params, args)
SubstituteType(receiver, params, j) ==
    IF receiver.args = <<>> \/ params = <<>> THEN None
    ELSE ToTypeName(Substitute(Parse(SignatureOf(j)).type, params, receiver.args))

(* A type variable as the intersection of its bounds; one inside its own    *)
(* bounds stays.                                                            *)
ExpandWithBounds(t, bounds, visiting) ==
    LET Or(x) == LET e == ExpandWithBounds(x, bounds, visiting) IN IF e = None THEN x ELSE e
        InBound(b) == LET e == ExpandWithBounds(ToTypeName(b), bounds, visiting \cup {t.name})
                      IN IF e = None THEN ToTypeName(b) ELSE e
        parts == [i \in DOMAIN t.args |-> Or(t.args[i])]
    IN CASE t.kind = "and" -> [Intersection(parts) EXCEPT !.dims = t.dims]
         [] t.args = <<>> /\ t.kind \in {"var", "source"} ->
              IF t.name \notin DOMAIN bounds \/ t.name \in visiting THEN None
              ELSE IF bounds[t.name] = <<>> THEN None
              ELSE [Intersection([i \in DOMAIN bounds[t.name] |-> InBound(bounds[t.name][i])]) EXCEPT !.dims = t.dims]
         [] OTHER -> [t EXCEPT !.args = parts]
ExpandTypeName(t, methodBounds, classBounds) ==
    IF methodBounds = <<>> /\ classBounds = <<>> THEN None ELSE ExpandWithBounds(t, methodBounds @@ classBounds, {})

-----------------------------------------------------------------------------
(* Inference.                                                               *)
NoBindings == [bindings |-> <<>>, conflicted |-> {}]
BindKeepsFirst(state, name, j) ==
    IF name \in DOMAIN state.bindings THEN state ELSE [state EXCEPT !.bindings = @ @@ [x \in {name} |-> j]]
BindTypeVar(state, name, j) ==
    IF name \in state.conflicted THEN state
    ELSE IF name \notin DOMAIN state.bindings THEN [state EXCEPT !.bindings = @ @@ [x \in {name} |-> j]]
    ELSE IF state.bindings[name] # j THEN [state EXCEPT !.conflicted = @ \cup {name}] ELSE state
Settled(state) == Restrict(state.bindings, DOMAIN state.bindings \ state.conflicted)

(* A formal type is laid over an actual one.                                *)
BindMethodTypeVars(state, formal, actual, tparams) ==
    LET both == 1..(IF Len(formal.args) < Len(actual.args) THEN Len(formal.args) ELSE Len(actual.args)) IN
    CASE formal.tag = "T" -> IF formal.name \in ToSet(tparams) THEN BindTypeVar(state, formal.name, actual) ELSE state
      [] formal.tag = "[" -> IF actual.tag = "[" THEN BindMethodTypeVars(state, formal.args[1], actual.args[1], tparams) ELSE state
      [] formal.tag \in {"+", "-"} -> BindMethodTypeVars(state, formal.args[1], actual, tparams)
      [] formal.tag = "L" /\ actual.tag = "L" ->
           FoldLeft(LAMBDA s, i : BindMethodTypeVars(s, formal.args[i], actual.args[i], tparams),
                    state, [i \in both |-> i])
      [] OTHER -> state

(* The formal type of an argument: a parameter, or the element of the last. *)
FormalOf(method, index, mode) ==
    LET n == Len(method.params) IN
    IF n = 0 THEN None
    ELSE IF mode = "fixed" \/ (index < n /\ method.varargs) THEN IF index <= n THEN method.params[index] ELSE None
    ELSE IF method.varargs /\ method.params[n].tag = "[" THEN method.params[n].args[1] ELSE None

(* args[i] is [type, fun]; fun tells a lambda or method reference, of which *)
(* nothing is taken here.                                                   *)
InferFromNonLambdaArgs(method, receiver, classParams, skip, mode, args) ==
    LET AddArg(state, i) ==
          LET formal == FormalOf(method, i, mode)
              actual == TypeNameToJvmType(args[i].type)
          IN IF i = skip \/ args[i].fun # None \/ formal = None \/ actual = None THEN state
             ELSE BindMethodTypeVars(state, SubstituteReceiver(formal, classParams, receiver.args), actual, method.tparams)
    IN IF method.tparams = <<>> THEN <<>>
       ELSE Settled(FoldLeft(AddArg, NoBindings, [i \in DOMAIN args |-> i]))

(* The variable that a functional parameter returns.                        *)
ReturnedVar(param, returned) ==
    LET VarOf(a) == IF a.tag = "+" THEN IF a.args[1].tag = "T" THEN a.args[1].name ELSE None
                    ELSE IF a.tag = "T" THEN a.name ELSE None
        found == SelectSeq(param.args, LAMBDA a : VarOf(a) # None /\ VarOf(a) \in returned)
    IN IF param.tag # "L" \/ found = <<>> THEN None ELSE VarOf(found[1])

(* What a parameter tells of the return type: its argument's type when it   *)
(* is a variable of it, what the argument returns when it is functional.    *)
BindFromParam(state, param, returned, known, fun) ==
    LET var == ReturnedVar(param, returned)
    IN IF param.tag = "T" /\ param.name \in returned
       THEN IF known = None THEN state ELSE BindTypeVar(state, param.name, known)
       ELSE IF var = None \/ fun = None THEN state ELSE BindTypeVar(state, var, fun)

(* First the arguments as such, then parameter by parameter; FunReturn      *)
(* tells what a lambda or method reference returns.                         *)
InferBindings(method, receiver, classParams, args, FunReturn(_, _)) ==
    LET returned == TypeVarsOf(method.ret)
        first == InferFromNonLambdaArgs(method, receiver, classParams, 0, "fixed", args)
        AddParam(state, i) ==
          LET param == LET p == SubstituteReceiver(method.params[i], classParams, receiver.args)
                       IN SubstituteTypeVars(p, state.bindings)
              known == IF i \in DOMAIN args THEN TypeNameToJvmType(args[i].type) ELSE None
              fun == IF known # None \/ i \notin DOMAIN args THEN known ELSE FunReturn(args[i], param)
          IN BindFromParam(state, param, returned, known, fun)
    IN IF method.tparams = <<>> \/ returned = {} THEN <<>>
       ELSE Settled(FoldLeft(AddParam, [bindings |-> first, conflicted |-> {}], [i \in DOMAIN method.params |-> i]))

(* What the call returns under these bindings: None for void.               *)
ReturnType(method, receiver, classParams, bindings) ==
    LET ret == SubstituteTypeVars(method.ret, bindings)
        substituted == SubstituteType(receiver, classParams, ret)
        result == IF substituted = None THEN ToTypeName(ret) ELSE substituted
    IN IF result = Primitive("void") THEN None ELSE result
MethodReturn(method, receiver, classParams, args, FunReturn(_, _)) ==
    ReturnType(method, receiver, classParams, InferBindings(method, receiver, classParams, args, FunReturn))

(* The type of the parameter an argument goes to, and whether it is exact;  *)
(* from the signature alone, and with what the other arguments tell.        *)
ParamType(param) ==
    IF param = None THEN None
    ELSE IF param.tag = "T" THEN None ELSE [type |-> ToTypeName(param), exact |-> IsConcrete(param)]
SelectedParamType(method, receiver, classParams, index, mode) ==
    LET formal == FormalOf(method, index, mode) IN
    IF formal = None THEN None ELSE ParamType(SubstituteReceiver(formal, classParams, receiver.args))
SelectedParamTypeAtCall(method, receiver, classParams, index, mode, args) ==
    LET formal == FormalOf(method, index, mode)
        bindings == InferFromNonLambdaArgs(method, receiver, classParams, index, mode, args)
    IN IF formal = None THEN None
       ELSE ParamType(SubstituteTypeVars(SubstituteReceiver(formal, classParams, receiver.args), bindings))

(* The single abstract method of a functional interface: params and ret are *)
(* its JVM types, with the arguments of the interface type put in when it   *)
(* has as many as parameters.                                               *)
SamSignature(sam, classParams, t) ==
    LET args == [i \in DOMAIN t.args |-> TypeNameToJvmType(t.args[i])]
        Put(j) == IF classParams # <<>> /\ Len(classParams) = Len(args) THEN Substitute(j, classParams, args) ELSE j
    IN IF sam = None \/ \E i \in DOMAIN args : args[i] = None THEN None
       ELSE [params |-> [i \in DOMAIN sam.params |-> Put(sam.params[i])], ret |-> Put(sam.ret)]
NormalizeLambdaParam(j) ==
    LET RECURSIVE Unbound(_)
        Unbound(x) == IF x.tag \in {"+", "-"} THEN Unbound(x.args[1]) ELSE x
    IN Unbound(j)
(* The parameters of a lambda as locals.                                    *)
LambdaParamTypes(sam, classParams, t, count) ==
    LET signature == SamSignature(sam, classParams, t) IN
    IF signature = None THEN <<>>
    ELSE IF Len(signature.params) # count THEN <<>>
    ELSE [i \in 1..count |-> ToTypeName(NormalizeLambdaParam(signature.params[i]))]

-----------------------------------------------------------------------------
(* What must hold.                                                          *)

(* The written form of a type is read as the type it was made of, in        *)
(* signatures and in receivers, and the names of type parameters are those  *)
(* that have bounds.                                                        *)
RECURSIVE Written(_)
Written(parameters) ==
    IF parameters = <<>> THEN <<>>
    ELSE LET p == Head(parameters) IN
         <<Token("P", p.name)>>
         \o FlattenSeq([i \in DOMAIN p.bounds |-> <<Sign(":")>> \o (IF i = 1 /\ p.interface THEN <<Sign(":")>> ELSE <<>>)
                                                 \o SignatureOf(p.bounds[i])])
         \o Written(Tail(parameters))
SignaturesReadBack(j, parameters) ==
    LET split == SplitInternalName(ToInternalWithGenerics(ToTypeName(j)))
        bounds == ParseTypeParameterBounds(Written(parameters))
    IN /\ Parse(SignatureOf(j)) = [type |-> j, rest |-> <<>>]
       /\ TypeNameToJvmType(ToTypeName(j)) = j
       /\ j.tag = "L" => /\ split = [base |-> j.name, args |-> j.args]
                         /\ SplitInternalName(ToInternalForSubstitution(ToTypeName(j))) = split
       /\ ParseParameterNames(Written(parameters)) = [i \in DOMAIN parameters |-> parameters[i].name]
       /\ DOMAIN bounds = {parameters[i].name : i \in DOMAIN parameters}
       /\ \A i \in DOMAIN parameters : bounds[parameters[i].name] = parameters[i].bounds

(* A variable is expanded to bounds whose first is what Java erases it to,  *)
(* however the bounds refer to one another.                                 *)
RECURSIVE Erasure(_, _, _)
Erasure(j, bounds, seen) ==
    IF j.tag = "T" /\ j.name \in DOMAIN bounds /\ j.name \notin seen /\ bounds[j.name] # <<>>
    THEN Erasure(bounds[j.name][1], bounds, seen \cup {j.name}) ELSE j.name
ExpansionErases(bounds) ==
    \A x \in DOMAIN bounds :
        LET expanded == ExpandTypeName(ToTypeName(TypeVar(x)), bounds, <<>>) IN
        bounds[x] # <<>> => ErasedInternal(expanded) = Erasure(TypeVar(x), bounds, {})

(* Any call whose arguments have the types of the parameters under some     *)
(* instantiation of the type variables returns that instantiation of the    *)
(* return type, if the parameters tell it, and the same types are expected  *)
(* of a lambda in the place of an argument.                                 *)
RECURSIVE Unwild(_)
Unwild(j) == IF j.tag \in {"+", "-"} THEN Unwild(j.args[1])
             ELSE [j EXCEPT !.args = [i \in DOMAIN j.args |-> Unwild(j.args[i])]]
VarsOfParams(method, skip) == UNION {TypeVarsOf(method.params[i]) : i \in DOMAIN method.params \ {skip}}
InstantiationRecovered(method, receiver, classParams, sigma) ==
    LET all == sigma @@ [x \in {classParams[i] : i \in DOMAIN receiver.args} |-> receiver.args[Position(classParams, x)]]
        Actual(j) == Unwild(SubstituteTypeVars(j, all))
        args == [i \in DOMAIN method.params |-> [type |-> ToTypeName(Actual(method.params[i])), fun |-> None]]
        own == ToSet(method.tparams)
        NoFun(arg, param) == None
        With(i) == [args EXCEPT ![i] = [type |-> UnknownType, fun |-> "lambda"]]
    IN /\ TypeVarsOf(method.ret) \cap own \subseteq VarsOfParams(method, 0) =>
            MethodReturn(method, receiver, classParams, args, NoFun) =
              ToTypeName(SubstituteTypeVars(method.ret, all))
       /\ \A i \in DOMAIN args : TypeVarsOf(method.params[i]) \cap own \subseteq VarsOfParams(method, i) =>
            LET expected == SelectedParamTypeAtCall(method, receiver, classParams, i, "fixed", With(i)) IN
            expected # None => Unwild(TypeNameToJvmType(expected.type)) = Actual(method.params[i])

(* Whatever the arguments are: a variable is bound to what each argument    *)
(* that mentions it gives alone, or not at all, in any order.               *)
InferenceAgrees(method, receiver, classParams, args) ==
    LET all == InferFromNonLambdaArgs(method, receiver, classParams, 0, "fixed", args)
        Alone(i) == InferFromNonLambdaArgs(method, receiver, classParams, 0, "fixed",
                      [j \in DOMAIN args |-> IF j = i THEN args[j] ELSE [type |-> UnknownType, fun |-> None]])
        reversed == InferFromNonLambdaArgs([method EXCEPT !.params = Reverse(@)], receiver, classParams, 0, "fixed", Reverse(args))
    IN /\ \A i \in DOMAIN args : \A x \in DOMAIN all \cap DOMAIN Alone(i) : all[x] = Alone(i)[x]
       /\ reversed = all
       /\ DOMAIN all \subseteq UNION {DOMAIN Alone(i) : i \in DOMAIN args}
=============================================================================
