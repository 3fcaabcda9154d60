--------------------------- MODULE ExpressionTyping ---------------------------
(***************************************************************************)
(* The type of an expression (language/java/expression_typing.rs and the   *)
(* TypeResolver of semantic/types.rs).                                     *)
(*                                                                         *)
(* An expression is a record with an op: "id" (name), "lit" (type), "this",*)
(* "paren" (arg), "unary" (o, arg), "binary" (o, left, right), "assign"    *)
(* (left, right), "cond" (left, right), "cast" (types), "class" (type),    *)
(* "new" (type, dims), "index" (arg), "chain" (segs), "lambda" (params,    *)
(* body) or "ref" (type or None, arg, member; the member "new" is a        *)
(* constructor).  A segment of a chain is [name, args], args being None    *)
(* without a call; the name "[]" is an index.  A type in the source is a   *)
(* type expression of NameResolution, a primitive one has the kind "prim". *)
(* Types of expressions are the type names of GenericTypes.                *)
(*                                                                         *)
(* The classes of the view have their type parameters (tparams) too, their *)
(* fields a type, and their methods tparams, params, ret and varargs as in *)
(* GenericTypes, static and abstract.  A context is one of NameResolution  *)
(* whose locals are [name, type, init]: init is None unless the variable   *)
(* is declared with var; own are the methods of the class in the text.     *)
(***************************************************************************)
EXTENDS NameResolution

LOCAL INSTANCE SequencesExt

G == INSTANCE GenericTypes
O(classes) == INSTANCE Overloads WITH Supers <- classes

RECURSIVE ResolveExpression(_, _, _, _), ResolveAst(_, _, _, _), EvaluateChain(_, _, _), ArgTypes(_, _, _)
RECURSIVE SimpleResolve(_, _), ResolveChain(_, _), MethodReturn(_, _, _, _), CanonicalizeInOwner(_, _, _)
RECURSIVE EndsInIndex(_), CutIndex(_), ResolveLocal(_, _, _)

Primitives == {"byte", "short", "int", "long", "float", "double", "boolean", "char"}
Prim(n) == G!Primitive(n)
Boolean == Prim("boolean")
StringType == G!Internal(ClassNamed(JavaLang, "String"))
NullType == G!TypeName("null", G!Simple("null"), <<>>, 0)
IsPrimitive(t) == t.kind = "prim" /\ t.dims = 0
Erased(t) == G!ErasedInternal(t)
Simple(t) == Last(Erased(t)[2])
Is(t, n) == Erased(t) = G!Simple(n)
NewType(id) == IF id = None THEN None ELSE G!Internal(id)

-----------------------------------------------------------------------------
(* Operators.  Dimensions are not looked at.                                *)
NoClasses == [n \in {} |-> {}]
Promote(name) == IF name = None THEN None ELSE Prim(name)
NumericBinary(l, r) == Promote(O(NoClasses)!PromotedNumeric(Simple(l), Simple(r)))
IntegralBinary(l, r) == Promote(O(NoClasses)!PromotedIntegral(Simple(l), Simple(r)))
ShiftBinary(l, r) == Promote(O(NoClasses)!PromotedShift(Simple(l), Simple(r)))
UnaryIntegral(t) == Promote(O(NoClasses)!PromotedUnary(Simple(t)))
UnaryNumeric(t) ==
    LET n == O(NoClasses)!UnboxedPrimitive(Simple(t)) IN
    IF n \notin O(NoClasses)!Numeric THEN None ELSE Prim(IF n \in {"byte", "short", "char"} THEN "int" ELSE n)
Logical(l, r) == IF Is(l, "boolean") /\ Is(r, "boolean") THEN Boolean ELSE None
Equality(l, r) ==
    LET references == ~IsPrimitive(l) /\ ~IsPrimitive(r) IN
    IF Is(l, "null") \/ Is(r, "null") THEN IF ~IsPrimitive(l) \/ ~IsPrimitive(r) THEN Boolean ELSE None
    ELSE IF Logical(l, r) # None \/ NumericBinary(l, r) # None \/ references THEN Boolean ELSE None
BinaryResult(o, l, r) ==
    CASE o = "+" /\ StringType.name \in {Erased(l), Erased(r)} -> StringType
      [] o \in {"+", "-", "*", "/", "%"} -> NumericBinary(l, r)
      [] o \in {"<", "<=", ">", ">="} -> IF NumericBinary(l, r) = None THEN None ELSE Boolean
      [] o \in {"==", "!="} -> Equality(l, r)
      [] o \in {"&&", "||"} -> Logical(l, r)
      [] o \in {"&", "|", "^"} -> OrElse(Logical(l, r), IntegralBinary(l, r))
      [] o \in {"<<", ">>", ">>>"} -> ShiftBinary(l, r)
      [] OTHER -> None
UnaryResult(o, t) ==
    CASE o \in {"+", "-"} -> UnaryNumeric(t)
      [] o = "!" -> IF Is(t, "boolean") THEN Boolean ELSE None
      [] o = "~" -> UnaryIntegral(t)
      [] OTHER -> None
ConditionalKeepsLeft(l, r) == l
ConditionalResult(l, r) ==
    IF G!ErasedWithArrays(l) = G!ErasedWithArrays(r) THEN l
    ELSE IF Is(l, "null") /\ ~IsPrimitive(r) THEN r
    ELSE IF Is(r, "null") /\ ~IsPrimitive(l) THEN l
    ELSE IF NumericBinary(l, r) # None THEN NumericBinary(l, r)
    ELSE IF ~IsPrimitive(l) /\ ~IsPrimitive(r) THEN l ELSE None

-----------------------------------------------------------------------------
(* Types that are written.                                                  *)
Around(ctx) == [id |-> ctx.enclosing, pkg |-> ctx.pkg, tail |-> ctx.tail]
ConstructorHead(ctx, parts) ==
    LET strict == ResolveBaseInternal(ctx, parts) IN
    IF strict # None THEN strict
    ELSE IF ctx.enclosing = None \/ Len(parts) > 1 THEN None
    ELSE OrElse(OwnerFromIndex(ctx, parts[1]),
                IdOf(ResolveScopedInnerClass(ctx.view, Around(ctx), parts[1], MaxNesting)))
ResolveConstructorType(ctx, t) ==
    LET heads == [n \in DOMAIN t.name |-> ConstructorHead(ctx, SubSeq(t.name, 1, n))]
    IN OrElse(ResolveTypeNameStrict(ctx, t),
              IF t.args # <<>> THEN None ELSE NewType(IdOf(ResolveQualifiedTypePath(ctx.view, t.name, heads))))
ResolveSourceType(ctx, t) ==
    IF t.kind = "prim" THEN [Prim(t.name[1]) EXCEPT !.dims = t.dims]
    ELSE LET relaxed == ResolveTypeNameRelaxed(ctx, t)
         IN IF relaxed # None THEN relaxed.type ELSE ResolveConstructorType(ctx, t)
ResolveNew(ctx, e) ==
    LET base == IF e.type.kind = "prim" THEN Prim(e.type.name[1]) ELSE ResolveConstructorType(ctx, e.type)
    IN IF base = None THEN None ELSE [base EXCEPT !.dims = @ + e.dims]
ResolveCast(ctx, e) ==
    LET found == [i \in DOMAIN e.types |-> ResolveSourceType(ctx, e.types[i])]
    IN IF found # <<>> /\ Complete(found) THEN G!Intersection(found) ELSE None
(* Class<A> of A.class; a primitive is boxed there.                         *)
ClassOfType(arg) == G!TypeName("named", ClassNamed(JavaLang, "Class"), <<arg>>, 0)
ResolveClassLiteral(ctx, e) ==
    LET operand == ResolveSourceType(ctx, e.type)
        boxed == G!BoxJvmPrimitive(G!Jvm("prim", operand.name, <<>>))
    IN IF e.type.args # <<>> \/ operand = None THEN None
       ELSE ClassOfType(IF IsPrimitive(operand) THEN G!ToTypeName(boxed) ELSE operand)

-----------------------------------------------------------------------------
(* The type that a member has in the text of its owner.                     *)
Capitals == {"E", "R", "S", "T", "X", "Y"}
CanonicalizeInOwner(view, t, owner) ==
    LET args == [i \in DOMAIN t.args |-> CanonicalizeInOwner(view, t.args[i], owner)]
        known == [t EXCEPT !.args = args]
        Existing(id) == IF GetClass(view, id) = None THEN None ELSE id
        path == t.name[1]
        nest == t.name[2]
        plain == path = <<>> /\ Len(nest) = 1
        found == FirstFound(
          << Existing(t.name),
             IF owner # None /\ plain /\ nest[1] = Last(owner[2]) THEN owner ELSE None,
             IF owner # None /\ Len(owner[2]) > 1 /\ path = <<>> THEN Existing(<<owner[1], Front(owner[2]) \o nest>>) ELSE None,
             IF owner # None THEN Existing(<<owner[1] \o path, nest>>) ELSE None,
             Existing(<<JavaLang \o path, nest>>),
             IF plain THEN IdOf(OnlyElement(GetClassesBySimpleName(view, nest[1]))) ELSE None >>)
        placeholder == Existing(t.name) = None /\ plain /\ nest[1] \in Capitals
    IN IF t.kind \notin {"named", "source"} \/ placeholder \/ found = None THEN known
       ELSE [known EXCEPT !.name = found, !.kind = "named"]

-----------------------------------------------------------------------------
(* Calls.                                                                   *)

(* What overload selection looks at: a JVM parameter or an argument.        *)
Scored(t) ==
    [kind |-> CASE t.kind = "named" -> "class" [] t.kind \in {"prim", "var", "null"} -> t.kind [] OTHER -> "unknown",
     name |-> Simple(t), simple |-> Simple(t), dims |-> t.dims]
Candidate(m) ==
    [name |-> m.name, varargs |-> m.varargs, method |-> m, bindings |-> Len(m.tparams), clash |-> FALSE,
     params |-> [i \in DOMAIN m.params |-> Scored(G!ToTypeName(m.params[i]))]]
SelectOverload(methods, types) ==
    LET best == O(NoClasses)!SelectOverloadMatch([i \in DOMAIN methods |-> Candidate(methods[i])], Len(types),
                                                 [i \in DOMAIN types |-> Scored(types[i])])
    IN IF best = None THEN None ELSE best.method.method

IsObjectMethod(m) == m.name \in {"equals", "hashCode", "toString"}
SamOf(view, id) ==
    LET all == CollectInheritedMembers(view, id).methods
        abstract == SelectSeq(all, LAMBDA e : ~e.member.static /\ ~IsObjectMethod(e.member) /\ e.member.abstract)
    IN IF GetClass(view, id) = None \/ Len(abstract) # 1 THEN None ELSE abstract[1].member

FieldType(view, id, name) ==
    LET found == LookupFieldInHierarchy(view, id, name) IN IF found = None THEN None ELSE found.member.type

(* The owner a qualifier names, in the file or alone.                       *)
ResolveOwnerFromText(view, parts) ==
    LET Existing(id) == IF GetClass(view, id) = None THEN None ELSE id IN
    IF Len(parts) > 1 THEN Existing(Slashed(parts))
    ELSE OrElse(Existing(ClassNamed(JavaLang, parts[1])), IdOf(GetUniqueClassBySimpleName(view, parts[1])))
ResolveOwner(ctx, parts) == OrElse(ResolveBaseInternal(ctx, parts), ResolveOwnerFromText(ctx.view, parts))

Box(j) == IF j = None THEN None ELSE G!BoxJvmPrimitive(j)

(* A method without parameters, else the first that returns something.      *)
MethodRefReturn(view, owner, name) ==
    LET all == LookupMethodsInHierarchy(view, owner, name)
        returning == SelectSeq(all, LAMBDA e : e.member.ret.name # G!Simple("void"))
        bare == SelectSeq(returning, LAMBDA e : e.member.params = <<>>)
    IN IF returning = <<>> THEN None ELSE IF bare # <<>> THEN bare[1].member.ret ELSE returning[1].member.ret

(* What a constructor reference makes: of the type of its input, when the   *)
(* class has one parameter.                                                 *)
ConstructorReturn(view, owner, param) ==
    LET input == IF param.tag = "L" /\ param.args # <<>> THEN G!NormalizeLambdaParam(param.args[1]) ELSE None
        special == GetClass(view, owner) # None /\ Len(GetClass(view, owner).tparams) = 1
    IN IF input # None /\ special THEN G!Object(owner, IF G!IsConcrete(input) THEN <<input>> ELSE <<>>)
       ELSE G!Object(owner, <<>>)

LambdaLocals(view, lambda, param) ==
    LET t == G!ToTypeName(param)
        sam == SamOf(view, t.name)
        types == IF sam = None THEN <<>>
                 ELSE G!LambdaParamTypes(sam, GetClass(view, t.name).tparams, t, Len(lambda.params))
    IN [i \in DOMAIN types |-> [name |-> lambda.params[i], type |-> types[i], init |-> None]]

(* What a functional argument returns.  A body is typed by the simpler of   *)
(* the two evaluators.                                                      *)
FunctionalReturn(ctx, e, param) ==
    LET inner == [ctx EXCEPT !.locals = LambdaLocals(ctx.view, e, param) \o @]
        body == OrElse(SimpleResolve(inner, e.body),
                       IF e.body.op \in {"id", "chain"} THEN ResolveChain(inner, e.body) ELSE None)
        typed == IF body = None THEN None
                 ELSE G!TypeNameToJvmType(CanonicalizeInOwner(ctx.view, body, ctx.enclosing))
        named == ResolveOwner(ctx, e.type)
        value == SimpleResolve(ctx, e.arg)
    IN CASE e.op = "lambda" -> IF e.body = None THEN None ELSE Box(typed)
         [] e.op = "ref" /\ e.type # None ->
              IF named = None THEN None
              ELSE IF e.member = "new" THEN ConstructorReturn(ctx.view, named, param)
              ELSE Box(MethodRefReturn(ctx.view, named, e.member))
         [] e.op = "ref" ->
              IF value = None THEN None ELSE Box(MethodRefReturn(ctx.view, Erased(value), e.member))
         [] OTHER -> None

ReturnOf(ctx, method, receiver, owner, tparams, types, args) ==
    LET Fun(arg, param) == IF arg.fun = None THEN None ELSE FunctionalReturn(ctx, arg.fun, param)
        actual == [i \in DOMAIN args |->
                     [type |-> types[i], fun |-> IF args[i].op \in {"lambda", "ref"} THEN args[i] ELSE None]]
        ret == G!MethodReturn(method, receiver, tparams, actual, Fun)
    IN IF ret = None THEN None ELSE CanonicalizeInOwner(ctx.view, ret, owner)

(* The class before the first argument list is the receiver, whatever its   *)
(* dimensions.                                                              *)
MethodReturn(ctx, recv, seg, types) ==
    LET receiver == G!SplitInternalName(G!ToInternalWithGenerics(recv))
        found == LookupMethodsInHierarchy(ctx.view, receiver.base, seg.name)
        methods == [i \in DOMAIN found |-> found[i].member]
        method == SelectOverload(methods, types)
        owner == FindDeclaringMethodOwner(ctx.view, receiver.base, seg.name, method.desc)
    IN IF seg.name = "getClass" /\ seg.args = <<>>
       THEN ClassOfType(G!TypeName("extends", G!Simple("+"), <<recv>>, 0))
       ELSE IF receiver.base = None \/ methods = <<>> \/ method = None THEN None
       ELSE IF owner = None THEN None
       ELSE ReturnOf(ctx, method, receiver, owner.id, owner.tparams, types, seg.args)

-----------------------------------------------------------------------------
(* The simpler evaluator.  Type arguments of new are dropped, a class is    *)
(* known by its internal name only, and arguments have no types.            *)
SimpleName(ctx, name) ==
    LET local == SelectSeq(ctx.locals, LAMBDA v : v.name = name)
        field == IF ctx.enclosing = None THEN None ELSE FieldType(ctx.view, ctx.enclosing, name)
    IN IF name = "this" THEN NewType(ctx.enclosing)
       ELSE IF local # <<>> THEN local[1].type
       ELSE OrElse(field, NewType(IfExists(ctx, G!Simple(name))))
SimpleNew(ctx, e) ==
    LET parts == e.type.name
        heads == [n \in DOMAIN parts |->
                    IF n > 1 THEN IfExists(ctx, Slashed(SubSeq(parts, 1, n)))
                    ELSE IF ctx.enclosing = None THEN None
                    ELSE IdOf(ResolveScopedInnerClass(ctx.view, Around(ctx), parts[1], MaxNesting))]
        id == IF Len(parts) = 1 THEN heads[1] ELSE IdOf(ResolveQualifiedTypePath(ctx.view, parts, heads))
        base == IF e.type.kind = "prim" THEN Prim(parts[1])
                ELSE IF id # None THEN NewType(id) ELSE G!TypeName("source", Slashed(parts), <<>>, 0)
    IN [base EXCEPT !.dims = @ + e.dims]
SimpleResolve(ctx, e) ==
    LET array == SimpleResolve(ctx, e.arg) IN
    CASE e.op = "new" -> SimpleNew(ctx, e)
      [] e.op = "index" -> IF array = None THEN None ELSE G!ElementType(array)
      [] e.op = "this" -> SimpleName(ctx, "this")
      [] e.op = "id" -> SimpleName(ctx, e.name)
      [] e.op = "lit" -> IF e.type \in {Prim("char"), NullType} THEN None ELSE e.type
      [] OTHER -> None

AsChain(e) == IF e.op = "id" THEN <<[name |-> e.name, args |-> None]>>
              ELSE IF e.op = "this" THEN <<[name |-> "this", args |-> None]>> ELSE e.segs
Element(t) == IF t = None THEN None ELSE G!ElementType(t)
ResolveChain(ctx, e) ==
    LET segs == AsChain(e)
        Unknowns(seg) == [i \in DOMAIN seg.args |-> G!UnknownType]
        Step(current, i) ==
          LET seg == segs[i]
              recv == IF i = 1 THEN NewType(ctx.enclosing) ELSE current
          IN IF i > 1 /\ current = None THEN None
             ELSE IF seg.args # None THEN IF recv = None THEN None ELSE MethodReturn(ctx, recv, seg, Unknowns(seg))
             ELSE IF i = 1 THEN SimpleName(ctx, seg.name)
             ELSE IF seg.name = "[]" THEN Element(current)
             ELSE FieldType(ctx.view, Erased(current), seg.name)
    IN FoldLeft(Step, None, [i \in DOMAIN segs |-> i])

-----------------------------------------------------------------------------
(* The full evaluator.  resolving are the var locals whose initializers are *)
(* being typed; target is the functional type expected, or None.            *)

NeverResolving(local, resolving) == FALSE
CurrentlyResolving(local, resolving) == local.name \in resolving

ResolveLocal(ctx, name, resolving) ==
    LET found == SelectSeq(ctx.locals, LAMBDA v : v.name = name)
        local == found[1]
        init == local.init
    IN IF found = <<>> THEN None
       ELSE IF init = None THEN local.type
       ELSE IF init.op = "id" /\ init.name = name THEN local.type
       ELSE IF CurrentlyResolving(local, resolving) THEN None
       ELSE OrElse(ResolveExpression(ctx, init, resolving \cup {name}, None), local.type)

ResolveName(ctx, name, resolving) == OrElse(ResolveLocal(ctx, name, resolving), SimpleName(ctx, name))

(* The arguments of an unqualified call are typed as if nothing were being  *)
(* resolved.                                                                *)
ArgTypes(ctx, args, resolving) ==
    [i \in DOMAIN args |-> OrElse(ResolveExpression(ctx, args[i], resolving, None), G!UnknownType)]

FirstSegment(ctx, seg, resolving) ==
    LET own == NewType(ctx.enclosing)
        types == ArgTypes(ctx, seg.args, {})
        inText == SelectSeq(ctx.own, LAMBDA m : m.name = seg.name)
        name == ResolveName(ctx, seg.name, resolving)
        around == IF ctx.enclosing # None /\ Last(ctx.enclosing[2]) = seg.name THEN own
                  ELSE NewType(ResolveBaseInternal(ctx, <<seg.name>>))
    IN IF seg.args = None THEN OrElse(name, around)
       ELSE IF own = None THEN None
       ELSE OrElse(MethodReturn(ctx, own, seg, types),
                   IF inText = <<>> THEN None
                   ELSE ReturnOf(ctx, inText[1], [base |-> ctx.enclosing, args |-> <<>>], ctx.enclosing, <<>>, types, seg.args))

CanonicalizeReceiver(ctx, recv) ==
    LET strict == ResolveTypeNameStrict(ctx, [kind |-> "named", name |-> recv.name[1] \o recv.name[2], args |-> <<>>, dims |-> 0])
    IN IF G!IsExactClass(recv) \/ recv.kind = "prim" THEN recv
       ELSE IF strict = None THEN None ELSE [strict EXCEPT !.args = recv.args, !.dims = recv.dims]

SegmentOnReceiver(ctx, recv, seg, resolving) ==
    LET full == CanonicalizeReceiver(ctx, recv) IN
    IF seg.name = "[]" THEN G!ElementType(recv)
    ELSE IF full = None THEN None
    ELSE IF seg.args # None
    THEN IF seg.name = "getClass" /\ seg.args = <<>>
         THEN ClassOfType(IF full.dims > 0 THEN full ELSE G!TypeName("extends", G!Simple("+"), <<full>>, 0))
         ELSE MethodReturn(ctx, full, seg, ArgTypes(ctx, seg.args, resolving))
    ELSE IF full.dims > 0 /\ seg.name = "length" THEN Prim("int")
    ELSE FieldType(ctx.view, Erased(full), seg.name)

EvaluateChain(ctx, segs, resolving) ==
    FoldLeft(LAMBDA current, i : IF i = 1 THEN FirstSegment(ctx, segs[1], resolving)
                                 ELSE IF current = None THEN None
                                 ELSE SegmentOnReceiver(ctx, current, segs[i], resolving),
             None, [i \in DOMAIN segs |-> i])

LambdaType(ctx, e, target) ==
    LET sam == SamOf(ctx.view, target.name) IN
    IF target = None THEN None ELSE IF sam = None THEN None ELSE IF Len(e.params) # Len(sam.params) THEN None ELSE target

ResolveAst(ctx, e, resolving, target) ==
    LET Sub(x) == ResolveAst(ctx, x, resolving, target)
        Both(Result(_, _)) ==
          LET l == Sub(e.left) r == Sub(e.right) IN IF l = None \/ r = None THEN None ELSE Result(l, r)
    IN CASE e.op = "paren" -> Sub(e.arg)
         [] e.op = "id" -> ResolveName(ctx, e.name, resolving)
         [] e.op = "lit" -> e.type
         [] e.op = "cast" -> ResolveCast(ctx, e)
         [] e.op = "class" -> ResolveClassLiteral(ctx, e)
         [] e.op = "assign" -> OrElse(Sub(e.left), Sub(e.right))
         [] e.op = "cond" -> Both(ConditionalResult)
         [] e.op = "unary" -> LET t == Sub(e.arg) IN IF t = None THEN None ELSE UnaryResult(e.o, t)
         [] e.op = "binary" -> Both(LAMBDA l, r : BinaryResult(e.o, l, r))
         [] e.op = "chain" -> EvaluateChain(ctx, e.segs, resolving)
         [] e.op = "new" -> ResolveNew(ctx, e)
         [] e.op = "lambda" -> LambdaType(ctx, e, target)
         [] OTHER -> None

(* Text that ends in "]" is taken to be an access, whatever comes before.   *)
EndsInIndex(e) ==
    CASE e.op = "index" -> TRUE
      [] e.op \in {"binary", "assign", "cond"} -> EndsInIndex(e.right)
      [] e.op = "unary" -> EndsInIndex(e.arg)
      [] OTHER -> FALSE
CutIndex(e) ==
    CASE e.op = "index" -> e.arg
      [] e.op = "unary" -> [e EXCEPT !.arg = CutIndex(@)]
      [] OTHER -> [e EXCEPT !.right = CutIndex(@)]

(* The syntax tree, else the text as an array access or as a chain.         *)
ResolveExpression(ctx, e, resolving, target) ==
    LET ast == ResolveAst(ctx, e, resolving, target) IN
    IF ast # None THEN ast
    ELSE IF EndsInIndex(e) THEN Element(ResolveExpression(ctx, CutIndex(e), resolving, None))
    ELSE IF e.op \in {"id", "this", "chain"} THEN EvaluateChain(ctx, AsChain(e), resolving)
    ELSE None

-----------------------------------------------------------------------------
(* What must hold.                                                          *)

(* Typing ends: the initializers it follows, from one expression to the     *)
(* variables in it, are never the same again.  The nth level is deeper than *)
(* there are variables.                                                     *)
RECURSIVE Ends(_, _, _, _), Names(_)
Names(e) ==
    CASE e.op = "id" -> {e.name}
      [] e.op \in {"paren", "unary", "index"} -> Names(e.arg)
      [] e.op \in {"binary", "assign", "cond"} -> Names(e.left) \cup Names(e.right)
      [] e.op = "chain" ->
           UNION {IF e.segs[i].args = None THEN IF i = 1 THEN {e.segs[i].name} ELSE {}
                  ELSE UNION {Names(e.segs[i].args[k]) : k \in DOMAIN e.segs[i].args} : i \in DOMAIN e.segs}
      [] OTHER -> {}
UnqualifiedArgs(e) == IF e.op = "chain" THEN IF e.segs[1].args # None THEN e.segs[1].args ELSE <<>> ELSE <<>>
Ends(ctx, e, resolving, n) ==
    LET fresh == UNION {Names(UnqualifiedArgs(e)[i]) : i \in DOMAIN UnqualifiedArgs(e)}
        Follow(name, seen) ==
          \A i \in DOMAIN ctx.locals :
             LET local == ctx.locals[i] IN
             local.name = name /\ local.init # None /\ (\A j \in 1..(i - 1) : ctx.locals[j].name # name)
               => \/ local.init.op = "id" /\ local.init.name = name
                  \/ CurrentlyResolving(local, seen)
                  \/ n > 0 /\ Ends(ctx, local.init, seen \cup {name}, n - 1)
    IN /\ \A x \in Names(e) \ fresh : Follow(x, resolving)
       /\ \A x \in fresh : Follow(x, {})

(* The variables an initializer leads to.                                   *)
RECURSIVE Reached(_, _, _)
Reached(ctx, names, n) ==
    IF n = 0 THEN names
    ELSE Reached(ctx, names \cup UNION {IF ctx.locals[i].name \in names /\ ctx.locals[i].init # None
                                        THEN Names(ctx.locals[i].init) ELSE {} : i \in DOMAIN ctx.locals}, n - 1)
NoCycleThroughCalls(ctx) ==
    \A i \in DOMAIN ctx.locals :
        LET init == ctx.locals[i].init IN
        init # None =>
            ctx.locals[i].name \notin
              Reached(ctx, UNION {Names(UnqualifiedArgs(init)[k]) : k \in DOMAIN UnqualifiedArgs(init)}, Len(ctx.locals))
TypingEnds(ctx, e) == NoCycleThroughCalls(ctx) => Ends(ctx, e, {}, 2 * Len(ctx.locals) + 1)

(* The type of an expression in the language, of those that have one; only  *)
(* methods without type variables of their own, with java the type that a   *)
(* method returns, and map of a Box.                                        *)
RECURSIVE JavaType(_, _, _)
Unboxed(t) == IF t.dims > 0 THEN None ELSE O(NoClasses)!UnboxedPrimitive(Simple(t))
IsNumeric(t) == Unboxed(t) \in O(NoClasses)!Numeric
Rank == [n \in O(NoClasses)!Numeric |-> CASE n = "double" -> 4 [] n = "float" -> 3 [] n = "long" -> 2 [] OTHER -> 1]
Promoted(l, r) ==
    LET rank == IF Rank[Unboxed(l)] > Rank[Unboxed(r)] THEN Rank[Unboxed(l)] ELSE Rank[Unboxed(r)]
    IN Prim(CASE rank = 4 -> "double" [] rank = 3 -> "float" [] rank = 2 -> "long" [] OTHER -> "int")
BothNumeric(l, r) == IsNumeric(l) /\ IsNumeric(r)
BothIntegral(l, r) == {Unboxed(l), Unboxed(r)} \subseteq O(NoClasses)!Integral
BothBoolean(l, r) == Unboxed(l) = "boolean" /\ Unboxed(r) = "boolean"
Instantiate(view, t, j) ==
    LET params == GetClass(view, t.name).tparams
    IN G!ToTypeName(G!SubstituteTypeVars(j, [x \in ToSet(params) |->
          LET at == SelectInSeq(params, LAMBDA p : p = x)
          IN IF at \in DOMAIN t.args THEN G!TypeNameToJvmType(t.args[at]) ELSE G!TypeVar(x)]))
JavaSegment(ctx, t, seg, n) ==
    LET field == LookupFieldInHierarchy(ctx.view, t.name, seg.name)
        called == SelectSeq(LookupMethodsInHierarchy(ctx.view, t.name, seg.name),
                            LAMBDA e : Len(e.member.params) = Len(seg.args))
        lambda == seg.args[1]
        body == JavaType([ctx EXCEPT !.locals = <<[name |-> lambda.params[1], type |-> t.args[1], init |-> None]>> \o @], lambda.body, n)
    IN IF t = None THEN None
       ELSE IF seg.name = "[]" THEN IF t.dims > 0 THEN [t EXCEPT !.dims = @ - 1] ELSE None
       ELSE IF t.dims > 0 THEN IF seg.name = "length" /\ seg.args = None THEN Prim("int") ELSE None
       ELSE IF t.kind # "named" THEN None
       ELSE IF seg.args = None THEN IF field = None THEN None ELSE field.member.type
       ELSE IF Len(called) # 1 THEN None
       ELSE IF \E i \in DOMAIN seg.args : seg.args[i].op # "lambda"
                                        /\ JavaType(ctx, seg.args[i], n) # G!ToTypeName(called[1].member.params[i]) THEN None
       ELSE IF called[1].member.tparams = <<>>
       THEN IF called[1].member.ret.name = G!Simple("void") THEN None ELSE Instantiate(ctx.view, t, called[1].member.java)
       ELSE IF lambda.op # "lambda" \/ t.args = <<>> THEN None
       ELSE IF body = None THEN None
       ELSE [t EXCEPT !.args = <<IF IsPrimitive(body) THEN G!ToTypeName(G!BoxJvmPrimitive(G!Jvm("prim", body.name, <<>>))) ELSE body>>]
JavaType(ctx, e, n) ==
    LET l == JavaType(ctx, e.left, n)
        r == JavaType(ctx, e.right, n)
        a == JavaType(ctx, e.arg, n)
        If(cond, t) == IF cond THEN t ELSE None
        local == SelectSeq(ctx.locals, LAMBDA v : v.name = e.name)
        field == FieldType(ctx.view, ctx.enclosing, e.name)
        Named(x) == JavaType(ctx, [op |-> "id", name |-> x], n)
    IN CASE e.op = "lit" -> e.type
         [] e.op = "this" -> NewType(ctx.enclosing)
         [] e.op = "id" ->
              IF local = <<>> THEN field
              ELSE IF local[1].init = None THEN local[1].type
              ELSE IF n = 0 THEN None ELSE JavaType(ctx, local[1].init, n - 1)
         [] e.op = "paren" -> a
         [] e.op = "unary" ->
              IF a = None THEN None
              ELSE CASE e.o = "!" -> If(Unboxed(a) = "boolean", Boolean)
                     [] e.o = "~" -> If(BothIntegral(a, a), Promoted(a, a))
                     [] OTHER -> If(IsNumeric(a), Promoted(a, a))
         [] e.op = "binary" ->
              IF l = None \/ r = None THEN None
              ELSE CASE e.o = "+" -> IF StringType \in {l, r} THEN StringType ELSE If(BothNumeric(l, r), Promoted(l, r))
                     [] e.o = "-" -> If(BothNumeric(l, r), Promoted(l, r))
                     [] e.o = "<" -> If(BothNumeric(l, r), Boolean)
                     [] e.o = "<<" -> If(BothIntegral(l, r), Promoted(l, l))
                     [] e.o = "&&" -> If(BothBoolean(l, r), Boolean)
                     [] e.o = "&" -> IF BothBoolean(l, r) THEN Boolean ELSE If(BothIntegral(l, r), Promoted(l, r))
                     [] OTHER -> If(BothNumeric(l, r) \/ BothBoolean(l, r) \/ ~(IsPrimitive(l) \/ IsPrimitive(r)), Boolean)
         [] e.op = "assign" -> If(e.left.op = "id" /\ r # None, l)
         [] e.op = "cond" ->
              IF l = None \/ r = None THEN None
              ELSE IF l = r THEN l
              ELSE IF l = NullType THEN If(~IsPrimitive(r), r)
              ELSE IF r = NullType THEN If(~IsPrimitive(l), l)
              ELSE If(BothNumeric(l, r), Promoted(l, r))
         [] e.op = "cast" -> If(Len(e.types) = 1, ResolveSourceType(ctx, e.types[1]))
         [] e.op = "new" -> ResolveNew(ctx, e)
         [] e.op = "index" -> IF a = None THEN None ELSE If(a.dims > 0, [a EXCEPT !.dims = @ - 1])
         [] e.op = "chain" ->
              FoldLeft(LAMBDA t, i : IF i > 1 THEN JavaSegment(ctx, t, e.segs[i], n)
                                     ELSE IF e.segs[1].args # None THEN JavaSegment(ctx, NewType(ctx.enclosing), e.segs[1], n)
                                     ELSE IF e.segs[1].name = "this" THEN NewType(ctx.enclosing) ELSE Named(e.segs[1].name),
                       None, [i \in DOMAIN e.segs |-> i])
         [] OTHER -> None

(* An expression whose first operand is no access is cut only inside.       *)
CutInside(e) == e.op # "index" /\ EndsInIndex(e)

(* Whatever has a type in the language gets that type; some operators get   *)
(* none: those on boxed booleans or on an element of an array.              *)
Operation(e) == e.op \in {"unary", "binary", "cond", "assign", "paren"}
TypesByTheBook(ctx, e) ==
    LET java == JavaType(ctx, e, Len(ctx.locals))
        found == ResolveExpression(ctx, e, {}, None)
    IN Ends(ctx, e, {}, 2 * Len(ctx.locals) + 1) /\ java # None /\ ~CutInside(e)
         => found = java \/ (found = None /\ Operation(e))
=============================================================================
