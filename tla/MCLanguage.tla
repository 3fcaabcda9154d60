----------------------------- MODULE MCLanguage ------------------------------
(***************************************************************************)
(* What a request computes from a document, and how it is cached.          *)
(*                                                                         *)
(* Either the requests of SemanticCaches run, or the one step of a         *)
(* behaviour picks a small source file or another input for one of the     *)
(* algorithms of the Java support, and the invariants say what the         *)
(* algorithm makes of it.                                                  *)
(***************************************************************************)
EXTENDS SemanticCaches, FiniteSets, TLC

CONSTANTS long, short

VARIABLE input

(* Texts whose tokens share a prefix and a suffix.                          *)
MCText == {long, short}
MCTokensOf == (long :> <<1, 2, 3>>) @@ (short :> <<1, 3>>)
Sym == Permutations(Worker)

languageVars == <<vars, input>>

Scopes == INSTANCE LocalScopes
Flow == INSTANCE FlowTyping
Generic == INSTANCE GenericTypes
Expr == INSTANCE ExpressionTyping
Loc == INSTANCE LocationFiles

Term(kind, role, kids) == Scopes!Term(kind, role, kids)
Leaf(kind, role, text) == Scopes!Leaf(kind, role, text)
Token(text) == Scopes!Token(text)
In(role, term) == [term EXCEPT !.role = role]
SeqsUpTo(S, n) == UNION {[1..k -> S] : k \in 0..n}

(* The parts are initial states of their own, for TLC's workers to share.   *)
Parts == {"caches", "methods", "nested types", "conditions", "signatures", "calls", "operators", "chains", "variables",
          "locations", "unfinished"}
LanguageInit == Init /\ input \in [algo : {"none"}, part : Parts]

Pick(x) == input' = x /\ UNCHANGED vars

-----------------------------------------------------------------------------
(* Statements.                                                              *)
Name(role, x) == Leaf("identifier", role, x)
TypeName(t) == Leaf("type_identifier", "type", t)
Here == Leaf("identifier", None, Scopes!Cursor)
Use == Term("expression_statement", None, <<Here, Token(";")>>)
Block(stmts) == Term("block", None, <<Token("{")>> \o stmts \o <<Token("}")>>)
Declarator(x) == Term("variable_declarator", "declarator", <<Name("name", x)>>)
Initialised(x) == Term("variable_declarator", "declarator", <<Name("name", x), Token("="), Here>>)
Declare(x) == Term("local_variable_declaration", None, <<TypeName("T"), Declarator(x), Token(";")>>)
DeclareTwo(x, y) ==
    Term("local_variable_declaration", None, <<TypeName("T"), Initialised(x), Token(","), Initialised(y), Token(";")>>)
BadType(x) ==
    Term("local_variable_declaration", None,
         <<Term("scoped_type_identifier", "type",
                <<Leaf("type_identifier", None, "S"), Term("ERROR", None, <<Token(";")>>), Leaf("type_identifier", None, "T")>>),
           Declarator(x), Token(";")>>)
Error(stmts) == Term("ERROR", None, stmts)
Misread(x) ==
    Term("local_variable_declaration", None,
         <<TypeName("S"), Term("variable_declarator", "declarator",
             <<Error(<<Leaf("type_identifier", None, "T")>>),
               Term("assignment_expression", None, <<Name("left", x), Token("="), Name("right", "v")>>)>>), Token(";")>>)
MisreadCall(x) ==
    << Declare(x), Term("expression_statement", None,
                        <<Term("parenthesized_expression", None, <<Token("("), Here, Token(")")>>), Token(";")>>) >>
Param(x) == Term("formal_parameter", None, <<TypeName("T"), Name("name", x)>>)
Params(xs) == Term("formal_parameters", "parameters",
                   <<Token("(")>> \o [i \in DOMAIN xs |-> Param(xs[i])] \o <<Token(")")>>)
Method(kind, xs, body) == Term(kind, None, <<Leaf("void_type", "type", "void"), Name("name", "m"), Params(xs), In("body", body)>>)
Class(kind, name, members) ==
    Term(kind, None, <<Token("class"), Name("name", name),
                       Term("class_body", "body", <<Token("{")>> \o members \o <<Token("}")>>)>>)
Statement(kids) == Term("expression_statement", None, kids \o <<Token(";")>>)
Lambda(params, body) == Term("lambda_expression", None, <<In("parameters", params), Token("->"), In("body", body)>>)
Inferred(xs) == Term("inferred_parameters", "parameters", <<Token("(")>> \o [i \in DOMAIN xs |-> Name(None, xs[i])] \o <<Token(")")>>)

(* The ways to put statements inside a statement.                           *)
Nestings(ss) ==
    { Block(ss),
      Term("for_statement", None, <<Token("for"), In("init", Declare("x")), Statement(<<Here>>), In("body", Block(ss))>>),
      Term("enhanced_for_statement", None, <<Token("for"), TypeName("T"), Name("name", "x"), Here, In("body", Block(ss))>>),
      Term("try_statement", None, <<Block(ss), Term("catch_clause", None,
        <<Term("catch_formal_parameter", None, <<TypeName("T"), Name("name", "y")>>), In("body", Block(ss))>>)>>),
      Term("switch_expression", None, <<Term("switch_block_statement_group", None, ss),
                                        Term("switch_block_statement_group", None, <<Use>>)>>),
      Statement(<<Lambda(Name(None, "x"), Block(ss))>>), Statement(<<Lambda(Inferred(<<>>), Block(ss))>>),
      Statement(<<Lambda(Params(<<"x", "y">>), Lambda(Inferred(<<"z">>), Block(ss)))>>),
      Statement(<<Lambda(Name(None, "z"), Lambda(Inferred(<<>>), Block(ss)))>>),
      Error(ss), Error(<<Inferred(<<"x">>), Token("->")>> \o ss), Error(<<Name(None, "y"), Token("->")>> \o ss),
      Class("class_declaration", "L", <<Method("method_declaration", <<"y">>, Block(ss))>>) }
Simple == {Declare("x"), Declare("y"), Use}
Others == {DeclareTwo("x", "y"), BadType("x"), Misread("x"), Block(<<Declare("y"), Use>>)}

Program(members) == Term("program", None, <<Class("class_declaration", "C", members)>>)

(* A method with three statements, the second one nested, or nested twice.  *)
PickMethod ==
    \E kind \in {"method_declaration", "constructor_declaration"}, first \in {<<s>> : s \in Simple \cup Others} \cup {MisreadCall("x")},
       inner \in {<<a, b>> : a \in {Declare("x"), Declare("y"), Misread("z"), Use}, b \in {Use}}
                 \cup {<<a>> : a \in UNION {Nestings(<<Declare("y"), Use>>)}} \cup {<<Declare("x"), b>> : b \in Nestings(<<Use>>)} :
      \E nested \in Nestings(inner) :
        Pick([algo |-> "method",
              file |-> Program(<<Method(kind, <<"p">>, Block(first \o <<nested, Use>>))>>)])

(* Types in types, methods and errors, with the cursor in many places.      *)
PickNestedTypes ==
    \E inner \in {<<>>, <<Method("method_declaration", <<>>, Block(<<Use>>))>>,
                  <<Method("method_declaration", <<>>, Block(<<Class("class_declaration", "L", <<Here>>)>>))>>,
                  <<Term("method_declaration", None, <<Leaf("void_type", "type", "void"), In("name", Here)>>)>>,
                  <<[Method("method_declaration", <<>>, Block(<<>>)) EXCEPT !.kids[2].text = Scopes!Cursor]>>},
       kinds \in [1..2 -> Scopes!TypeKinds], names \in [1..2 -> {"A", "B"}] :
      Pick([algo |-> "types",
            file |-> Term("program", None,
                       <<Class(kinds[1], names[1], <<Class(kinds[2], names[2], inner \o <<Here>>), Here>> \o inner)>>)])

-----------------------------------------------------------------------------
Test(x, t) == Term("instanceof_expression", None, <<Name("left", x), Token("instanceof"), Leaf("type_identifier", "right", t)>>)
Paren(e) == Term("parenthesized_expression", None, <<Token("("), e, Token(")")>>)
Not(e) == Term("unary_expression", None, <<Token("!"), In("operand", e)>>)
Binary(op, a, b) == Term("binary_expression", None, <<In("left", a), Token(op), In("right", b)>>)
Atoms == {Test("x", "A"), Test("x", "B"), Test("y", "A"), Test("g", "B"), Here}
Conditions ==
    LET one == Atoms \cup {Not(Paren(a)) : a \in Atoms}
        two == one \cup {Paren(Binary(op, a, b)) : op \in {"&&", "||"}, a, b \in one}
    IN two \cup {Not(c) : c \in two}
If(cond, then, else) ==
    Term("if_statement", None, <<Token("if"), In("condition", Paren(cond)), In("consequence", then), In("alternative", else)>>)

(* A condition of up to four tests around the cursor, and one inside it.    *)
PickConditions ==
    \E cond \in Conditions, inner \in Atoms \cup {Binary(op, Test("y", "B"), a) : op \in {"&&", "||"}, a \in Atoms} :
      Pick([algo |-> "flow",
            file |-> If(cond, Block(<<If(inner, Use, Use)>>), Block(<<Use>>))])

-----------------------------------------------------------------------------
(* Types of one and two levels, and methods of class G<E>.                  *)
V(x) == Generic!Simple(x)
Var(x) == Generic!TypeVar(V(x))
ClassA == Generic!Object(V("A"), <<>>)
Gen(x, args) == Generic!Object(V(x), args)
Array(j) == Generic!Of("[", j)
IntType == Generic!Jvm("prim", V("int"), <<>>)
Types1 == {Var("R"), Var("S"), ClassA, IntType, Generic!Wildcard}
Arg1 == (Types1 \ {IntType}) \cup {Generic!Of(w, t) : w \in {"+", "-"}, t \in {Var("R"), ClassA}}
Types2 == Types1 \cup {Gen("G", <<t>>) : t \in Arg1} \cup {Gen("M", <<s, t>>) : s, t \in Arg1}
Arg2 == (Types2 \ {IntType}) \cup {Generic!Of(w, t) : w \in {"+", "-"}, t \in Types2 \ {IntType, Generic!Wildcard}}
Types3 == Types2 \cup {Array(t) : t \in Types2 \ {Generic!Wildcard}} \cup {Gen("M", <<s, t>>) : s \in Arg2, t \in Arg1}
ClassBounds == {ClassA, Gen("G", <<Var("R")>>), Gen("M", <<ClassA, Generic!Of("+", Var("S"))>>)}
Bounds == {<<>>, <<Var("R")>>, <<Var("S")>>} \cup (SeqsUpTo(ClassBounds, 2) \ {<<>>})
TypeParam(x, bounds, interface) == [name |-> V(x), bounds |-> bounds, interface |-> interface]

PickSignature ==
    \/ \E j \in Types3 \ {Generic!Wildcard}, interface \in BOOLEAN :
         Pick([algo |-> "signature", type |-> j, 
               params |-> IF j.tag = "L" THEN <<TypeParam("R", <<j>>, interface), TypeParam("S", <<ClassA, j>>, ~interface)>>
                          ELSE <<>>])
    \/ \E r, s \in Bounds, interface \in BOOLEAN :
         Pick([algo |-> "signature", type |-> ClassA, params |-> <<TypeParam("R", r, interface), TypeParam("S", s, ~interface)>>])

Formals == {Var("R"), Var("S"), Var("E"), ClassA, IntType, Array(Var("R")), Gen("G", <<Var("R")>>), Gen("M", <<Var("R"), Var("S")>>),
            Gen("G", <<Generic!Of("+", Var("R"))>>), Gen("M", <<Generic!Of("-", Var("E")), Gen("G", <<Var("S")>>)>>)}
Actuals == {ClassA, Gen("G", <<ClassA>>), Array(ClassA)}
Given == Actuals \cup {Gen("M", <<ClassA, Gen("G", <<ClassA>>)>>), Gen("G", <<Gen("G", <<ClassA>>)>>), IntType}
Call(params, ret) == [tparams |-> <<V("R"), V("S")>>, params |-> params, ret |-> ret, varargs |-> FALSE]
Receivers == {[base |-> V("G"), args |-> <<a>>] : a \in Actuals} \cup {[base |-> V("G"), args |-> <<>>]}

PickCall ==
    \/ \E params \in SeqsUpTo(Formals, 2), ret \in {Var("R"), Var("E"), Array(Var("R")), Gen("M", <<Var("R"), Var("S")>>), IntType},
          receiver \in Receivers, r, s \in Actuals :
         Pick([algo |-> "instantiated", method |-> Call(params, ret), receiver |-> receiver, sigma |-> <<r, s>>])
    \/ \E params \in SeqsUpTo(Formals, 2) \cup [1..3 -> {Var("R"), Gen("G", <<Var("R")>>)}],
          receiver \in {[base |-> V("G"), args |-> <<a>>] : a \in Actuals} :
         \E args \in [DOMAIN params -> Given] :
           Pick([algo |-> "called", method |-> Call(params, Var("R")), receiver |-> receiver, args |-> args])

-----------------------------------------------------------------------------
(* Expressions in class Main of package p, which has an Item next to it,    *)
(* Box<E> and the functional interface Fun<X, Y> in package q.              *)
Lang(n) == << <<"java", "lang">>, <<n>> >>
InP(n) == << <<"p">>, <<n>> >>
InQ(n) == << <<"q">>, <<n>> >>
Obj(id) == Generic!Object(id, <<>>)
Ref(id) == Generic!Internal(id)
PrimType(n) == Generic!Primitive(n)
Fn(name, tparams, params, ret) ==
    [name |-> name, desc |-> <<params, ret>>, gensig |-> None, tparams |-> tparams, params |-> params, ret |-> ret,
     java |-> ret, varargs |-> FALSE, static |-> FALSE, abstract |-> FALSE]
Unresolved(name, ret, java) == [Fn(name, <<>>, <<>>, ret) EXCEPT !.java = java]
FieldOf(name, type) == [name |-> name, type |-> type, static |-> FALSE]
ClassOf(id, tparams, parents, methods, fields) ==
    [id |-> id, tail |-> id[2][1], pkg |-> id[1], name |-> id[2][1], owner |-> None, parents |-> parents, tparams |-> tparams,
     methods |-> methods, fields |-> fields, annotation |-> FALSE, src |-> TRUE, super |-> None]
BoxOf(a) == Generic!Object(InQ("Box"), <<a>>)
World == <<<<
    ClassOf(Lang("Object"), <<>>, <<>>, <<>>, <<>>), ClassOf(Lang("Class"), <<V("T")>>, <<Lang("Object")>>, <<>>, <<>>),
    ClassOf(Lang("String"), <<>>, <<Lang("Object")>>, <<Fn("length", <<>>, <<>>, IntType)>>, <<>>),
    ClassOf(Lang("Integer"), <<>>, <<Lang("Object")>>, <<>>, <<>>),
    ClassOf(InP("Item"), <<>>, <<Lang("Object")>>,
      << Unresolved("next", Obj(V("Item")), Obj(InP("Item"))), Unresolved("label", Obj(V("String")), Obj(Lang("String"))),
         Fn("kids", <<>>, <<IntType>>, Array(Obj(InP("Item")))), Fn("stop", <<>>, <<>>, Generic!Jvm("prim", V("void"), <<>>)),
         Fn("box", <<>>, <<Obj(InP("Item"))>>, BoxOf(Obj(InP("Item")))), Fn("box", <<>>, <<>>, BoxOf(Obj(Lang("String")))) >>,
      << FieldOf("size", PrimType("int")), FieldOf("all", Generic!WrapArray(Ref(InP("Item")))) >>),
    ClassOf(InP("Main"), <<>>, <<InP("Item")>>, <<Fn("next", <<>>, <<IntType>>, Obj(Lang("String")))>>,
      <<FieldOf("box", Ref(InQ("Box")))>>),
    ClassOf(InQ("Box"), <<V("E")>>, <<Lang("Object")>>,
      << Fn("get", <<>>, <<>>, Var("E")), Fn("self", <<>>, <<>>, BoxOf(Var("E"))),
         Fn("map", <<V("R")>>, <<Generic!Object(InQ("Fun"), <<Generic!Of("-", Var("E")), Generic!Of("+", Var("R"))>>)>>, BoxOf(Var("R"))) >>,
      <<>>),
    ClassOf(InQ("Fun"), <<V("X"), V("Y")>>, <<Lang("Object")>>, <<[Fn("apply", <<>>, <<Var("X")>>, Var("Y")) EXCEPT !.abstract = TRUE]>>, <<>>)
>>>>
NameType(x) == [kind |-> "named", name |-> <<x>>, args |-> <<>>, dims |-> 0]
BoxType(x) == [NameType("Box") EXCEPT !.args = <<NameType(x)>>]
File(locals) ==
    [view |-> World, pkg |-> <<"p">>, imports |-> <<[path |-> <<"q", "Box">>, star |-> FALSE]>>, enclosing |-> InP("Main"), tail |-> "Main",
     chain |-> <<"Main">>, locals |-> locals, flow |-> <<>>, statics |-> <<>>, extends |-> None, own |-> <<>>]
Id(x) == [op |-> "id", name |-> x]
Lit(t) == [op |-> "lit", type |-> t]
Bin(o, l, r) == [op |-> "binary", o |-> o, left |-> l, right |-> r]
Chain(segs) == [op |-> "chain", segs |-> segs]
Seg(x) == [name |-> x, args |-> None]
Invoke(x, args) == [name |-> x, args |-> args]
New(t, dims) == [op |-> "new", type |-> t, dims |-> dims]
Local(x, type) == [name |-> x, type |-> type, init |-> None]
VarLocal(x, init) == [name |-> x, type |-> Generic!TypeName("source", V("var"), <<>>, 0), init |-> init]

Typed == << Local("i", PrimType("int")), Local("c", PrimType("char")), Local("l", PrimType("long")), Local("n", Ref(Lang("Integer"))),
            Local("z", PrimType("boolean")), Local("s", Ref(Lang("String"))), Local("t", Ref(InP("Item"))),
            Local("g", Generic!TypeName("named", InQ("Box"), <<Ref(InP("Item"))>>, 0)),
            Local("a", Generic!WrapArray(PrimType("int"))), Local("b", Generic!WrapArray(Generic!WrapArray(Ref(InP("Item"))))) >>
Lits == {Lit(PrimType("int")), Lit(PrimType("double")), Lit(PrimType("char")), Lit(Expr!NullType), Lit(Expr!StringType)}
Atoms1 == {Id(Typed[k].name) : k \in DOMAIN Typed} \cup Lits
          \cup {[op |-> "this"], [op |-> "index", arg |-> Id("a")], [op |-> "index", arg |-> Id("b")], Id("size"),
                 Chain(<<Seg("b"), Seg("[]"), Seg("length")>>), Chain(<<Invoke("next", <<>>), Seg("size")>>)}
Operators == {"+", "-", "<", "==", "&&", "&", "<<"}
Values == Atoms1 \cup {Bin(o, x, y) : o \in Operators, x, y \in Atoms1}
          \cup {[op |-> "unary", o |-> o, arg |-> x] : o \in {"-", "!", "~"}, x \in Atoms1}

PickOperators ==
    \E x \in Values, y \in {Id("l"), Id("z"), Id("n"), [op |-> "index", arg |-> Id("b")], Lit(Expr!StringType), Lit(Expr!NullType)}, op \in {"cond", "assign", "+", "==", "-", "!"} :
       Pick([algo |-> "expression", vars |-> <<>>,
             expr |-> IF op \in {"cond", "assign"} THEN [op |-> op, left |-> x, right |-> y]
                      ELSE IF op \in {"-", "!"} THEN [op |-> "unary", o |-> op, arg |-> [op |-> "paren", arg |-> x]]
                      ELSE Bin(op, x, y)])

(* Chains of up to four members, some with functional arguments.            *)
Bodies == {Id("x"), Chain(<<Seg("x"), Seg("size")>>), Chain(<<Seg("x"), Invoke("label", <<>>)>>),
           Chain(<<Seg("x"), Invoke("next", <<>>), Seg("all")>>), Chain(<<Seg("x"), Invoke("kids", <<Id("i")>>)>>), Id("t"), Lit(PrimType("int"))}
Functions1 == {[op |-> "lambda", params |-> <<"x">>, body |-> e] : e \in Bodies}
Heads == {Seg("t"), Seg("g"), Seg("b"), Seg("this"), Seg("all"), Seg("box"), Seg("Main"), Invoke("next", <<>>), Invoke("next", <<Id("i")>>), Invoke("box", <<Id("t")>>),
          Invoke("box", <<>>)}
Links == {Seg("size"), Seg("all"), Seg("[]"), Seg("length"), Invoke("next", <<>>), Invoke("label", <<>>), Invoke("kids", <<Id("i")>>),
          Invoke("box", <<Id("t")>>), Invoke("get", <<>>), Invoke("self", <<>>), Invoke("length", <<>>), Invoke("stop", <<>>)}
         \cup {Invoke("map", <<f>>) : f \in Functions1}
PickChain ==
    \E head \in Heads, links \in SeqsUpTo(Links, 2) \cup {<<x>> \o y : x \in {Invoke("map", <<f>>) : f \in Functions1}, y \in [1..2 -> Links]} :
       Pick([algo |-> "expression", vars |-> <<>>, expr |-> Chain(<<head>> \o links)])

(* Variables declared with var, in any order and in circles.                *)
Inits == {Id("v"), Id("w"), Id("t"), Chain(<<Seg("v"), Invoke("next", <<>>)>>), Chain(<<Seg("w"), Seg("all"), Seg("[]")>>),
          Chain(<<Seg("t"), Invoke("box", <<Id("w")>>)>>), Chain(<<Invoke("box", <<Id("v")>>)>>),
          Bin("+", Id("w"), Lit(PrimType("int"))), New(BoxType("Item"), 0), New(NameType("Item"), 2),
          [op |-> "cast", types |-> <<NameType("Item")>>], [op |-> "class", type |-> NameType("Item")],
          [op |-> "index", arg |-> Id("w")], [op |-> "cond", left |-> Id("v"), right |-> Id("w")]}
PickVars ==
    \E v, w, u \in Inits, expr \in {Id("v"), Chain(<<Seg("u"), Seg("size")>>), Chain(<<Invoke("box", <<Id("u")>>), Invoke("get", <<>>)>>)} :
       Pick([algo |-> "expression", vars |-> <<VarLocal("v", v), VarLocal("w", w), VarLocal("u", u)>>, expr |-> expr])

(* Files with the cursor in every word, and files with unfinished text.     *)
PickLocations == \E file \in Loc!WellFormed : Pick([algo |-> "location", file |-> file])
PickUnfinished ==
    \/ \E x \in Loc!Broken : Pick([algo |-> "unfinished", at |-> x])
    \/ \E file \in Loc!UnfinishedLambdas : Pick([algo |-> "unfinished lambda", file |-> file])

PickInput ==
    \/ input.part = "methods" /\ PickMethod
    \/ input.part = "nested types" /\ PickNestedTypes
    \/ input.part = "conditions" /\ PickConditions
    \/ input.part = "signatures" /\ PickSignature
    \/ input.part = "calls" /\ PickCall
    \/ input.part = "operators" /\ PickOperators
    \/ input.part = "chains" /\ PickChain
    \/ input.part = "variables" /\ PickVars
    \/ input.part = "locations" /\ PickLocations
    \/ input.part = "unfinished" /\ PickUnfinished

LanguageNext ==
    /\ input.algo = "none"
    /\ \/ input.part = "caches" /\ Next /\ UNCHANGED input
       \/ PickInput

LanguageSpec == LanguageInit /\ [][LanguageNext]_languageVars

(* The requests of SemanticCaches alone.                                    *)
CachesSpec == Init /\ input = [algo |-> "none", part |-> "caches"] /\ [][LanguageNext]_languageVars

-----------------------------------------------------------------------------
(* The locals shown at the cursor are those that Java has in scope there,   *)
(* from the tree and from the cache alike.                                  *)
LocalsFollowScopes(x) ==
    x.algo = "method" =>
        LET tree == Scopes!Parse(x.file, 0) IN
        Scopes!LocalsByTheBook(tree) /\ Scopes!CachedLocalsAgree(tree)

(* The classes around the cursor are told the same way by node and offset.  *)
ClassesAroundCursor(x) ==
    x.algo \in {"types", "method"} =>
        LET tree == Scopes!Parse(x.file, 0) IN
        Scopes!EnclosingClassesAgree(tree) /\ Scopes!MembersDeclaredInClasses(tree)

(* The cursor stands at what the place of its word in the tree says, with   *)
(* the part of the word before it; where the parser gave up, the text and   *)
(* the remains of the tree say the same.                                    *)
CursorPlaced(x) ==
    /\ x.algo = "location" => Loc!LocationsByPlace(x.file) /\ Loc!HintsByPlace(x.file)
    /\ x.algo = "unfinished" => Loc!RecoveredPlace(x.at)
    /\ x.algo = "unfinished lambda" => Loc!RecoveredLambda(x.file)

(* instanceof proves the types that it shows.                               *)
FlowFactsProved(x) ==
    x.algo = "flow" => Flow!FlowFactsProved(Flow!Parse(x.file, 0), {"x", "y"})

(* Signatures are read as written, and calls are inferred as Java does.     *)
ClassParams == <<V("E")>>
CallsInferred(x) ==
    /\ x.algo = "signature" =>
         LET bounds == [r \in {p.name : p \in {x.params[i] : i \in DOMAIN x.params}} |->
                          (CHOOSE i \in DOMAIN x.params : x.params[i].name = r)]
         IN /\ Generic!SignaturesReadBack(x.type, x.params)
            /\ Generic!ExpansionErases([r \in DOMAIN bounds |-> x.params[bounds[r]].bounds])
    /\ x.algo = "instantiated" =>
         Generic!InstantiationRecovered(x.method, x.receiver, ClassParams,
           [r \in {V("R"), V("S")} |-> IF r = V("R") THEN x.sigma[1] ELSE x.sigma[2]])
    /\ x.algo = "called" =>
         Generic!InferenceAgrees(x.method, x.receiver, ClassParams,
           [i \in DOMAIN x.args |-> [type |-> Generic!ToTypeName(x.args[i]), fun |-> None]])

(* Expressions are typed in the end, and as Java types them.                *)
ExpressionsTyped(x) ==
    x.algo = "expression" =>
        Expr!TypingEnds(File(x.vars \o Typed), x.expr) /\ Expr!TypesByTheBook(File(x.vars \o Typed), x.expr)

(* What the cursor sees of every file picked: what it stands at, the locals *)
(* in scope and the classes around it.                                      *)
ScopesSound == [][\A x \in {input'} : LocalsFollowScopes(x) /\ ClassesAroundCursor(x) /\ CursorPlaced(x)]_languageVars

(* What has which type: narrowed variables, generic calls, expressions.     *)
TypesSound == [][\A x \in {input'} : FlowFactsProved(x) /\ CallsInferred(x) /\ ExpressionsTyped(x)]_languageVars
=============================================================================
