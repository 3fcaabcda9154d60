---------------------------- MODULE LocationFiles ----------------------------
(***************************************************************************)
(* Small source files with the cursor in every word, and files that the    *)
(* parser's error recovery takes apart while a statement is being typed,   *)
(* with what the cursor stands at in them.                                 *)
(***************************************************************************)
EXTENDS CursorLocations

LOCAL INSTANCE SequencesExt
LOCAL INSTANCE FiniteSetsExt

In(role, term) == [term EXCEPT !.role = role]
Separated(terms) == FlattenSeq([i \in DOMAIN terms |-> IF i = 1 THEN <<terms[i]>> ELSE <<Token(","), terms[i]>>])
Id(x) == Leaf("identifier", None, x)
TypeId(t) == Leaf("type_identifier", None, t)
Generic(t, args) ==
    Term("generic_type", None, <<TypeId(t), Term("type_arguments", None, <<Token("<")>> \o Separated(args) \o <<Token(">")>>)>>)
ArrayOf(t) == Term("array_type", None, <<In("element", TypeId(t)), Term("dimensions", "dimensions", <<Token("["), Token("]")>>)>>)
Scoped(a, b) == Term("scoped_type_identifier", None, <<TypeId(a), Token("."), TypeId(b)>>)
Error(kids) == Term("ERROR", None, kids)

Arguments(args) == Term("argument_list", "arguments", <<Token("(")>> \o Separated(args) \o <<Token(")")>>)
Access(e, x) == Term("field_access", None, <<In("object", e), Token("."), In("field", Id(x))>>)
Call(e, x, args) ==
    Term("method_invocation", None,
         (IF e = None THEN <<>> ELSE <<In("object", e), Token(".")>>) \o <<In("name", Id(x)), Arguments(args)>>)
New(t, args) == Term("object_creation_expression", None, <<Token("new"), In("type", t), Arguments(args)>>)
InnerNew(e, t) == Term("object_creation_expression", None, <<e, Token("."), Token("new"), In("type", t), Arguments(<<>>)>>)
Binary(a, op, b) == Term("binary_expression", None, <<In("left", a), Token(op), In("right", b)>>)
Lambda(params, body) == Term("lambda_expression", None, <<In("parameters", params), Token("->"), In("body", body)>>)
Inferred(xs) == Term("inferred_parameters", None, <<Token("(")>> \o Separated(xs) \o <<Token(")")>>)
Reference(e, x) == Term("method_reference", None, <<e, Token("::"), x>>)
This == Leaf("this", None, "this")

Declarator(x, value) ==
    Term("variable_declarator", "declarator", <<In("name", Id(x))>> \o (IF value = None THEN <<>> ELSE <<Token("="), In("value", value)>>))
Declare(t, x, value) == Term("local_variable_declaration", None, <<In("type", t), Declarator(x, value), Token(";")>>)
Statement(e) == Term("expression_statement", None, <<e, Token(";")>>)
Assign(a, e) == Term("assignment_expression", None, <<In("left", a), Token("="), In("right", e)>>)
Return(e) == Term("return_statement", None, <<Token("return"), e, Token(";")>>)
Jump(word, kind) == Term(kind, None, <<Token(word), Id("lb"), Token(";")>>)

Lines(stmts) == FlattenSeq([i \in DOMAIN stmts |-> <<NewLine, stmts[i]>>])
Block(stmts) == Term("block", "body", <<Token("{")>> \o Lines(stmts) \o <<NewLine, Token("}")>>)
Param(t, x) == Term("formal_parameter", None, <<In("type", t), In("name", Id(x))>>)
Params(ps) == Term("formal_parameters", "parameters", <<Token("(")>> \o Separated(ps) \o <<Token(")")>>)
Method(mods, t, ps, stmts) ==
    Term("method_declaration", None, mods \o <<In("type", t), In("name", Id("mm")), Params(ps), Block(stmts)>>)
Marker(x) == Term("marker_annotation", None, <<Token("@"), In("name", Id(x))>>)
Pair(k, v) == Term("element_value_pair", None, <<In("key", Id(k)), Token("="), In("value", v)>>)
Annotation(x, pairs) ==
    Term("annotation", None, <<Token("@"), In("name", Id(x)),
                               Term("annotation_argument_list", "arguments", <<Token("(")>> \o Separated(pairs) \o <<Token(")")>>)>>)
Modifiers(as) == Term("modifiers", None, as)
Import(static, path) ==
    Term("import_declaration", None,
         <<Token("import")>> \o (IF static THEN <<Token("static")>> ELSE <<>>) \o <<path, Token(";")>>)
Path(a, b) == Term("scoped_identifier", None, <<In("scope", a), Token("."), In("name", Id(b))>>)
ClassOf(members) ==
    Term("class_declaration", None, <<Token("class"), In("name", Id("C")),
           Term("class_body", "body", <<Token("{")>> \o Lines(members) \o <<NewLine, Token("}")>>)>>)
Program(imports, members) == Term("program", None, imports \o <<ClassOf(members)>>)
InMethod(stmts) == Program(<<>>, <<Method(<<>>, TypeId("R"), <<>>, stmts)>>)

-----------------------------------------------------------------------------
(* Well-formed files.                                                       *)
Simple == {Id("aa"), This}
Chained == Simple \cup {Access(e, "ff") : e \in Simple} \cup {Call(e, "gg", as) : e \in Simple \cup {None}, as \in {<<>>, <<Id("aa")>>}}
Values == Chained \cup {Access(e, "hh") : e \in Chained} \cup {Call(e, "hh", <<Id("aa"), Id("bb")>>) : e \in Chained}
          \cup {Call(None, "gg", <<Id("bb"), e>>) : e \in Chained}
          \cup {Binary(Id("aa"), op, e) : op \in {"+", "=="}, e \in Chained}
          \cup {Lambda(p, e) : p \in {Id("pp"), Inferred(<<Id("pp"), Id("qq")>>), Inferred(<<>>)}, e \in Chained}
          \cup {Reference(e, x) : e \in {Id("T"), Id("aa"), This}, x \in {Id("mm"), Token("new")}}
          \cup {New(t, as) : t \in {TypeId("T"), Generic("T", <<TypeId("U")>>), Generic("T", <<TypeId("U"), Generic("T", <<TypeId("C")>>)>>)},
                             as \in {<<>>, <<Id("aa")>>}}
          \cup {InnerNew(Id("aa"), TypeId("T"))}
DeclaredTypes == {TypeId("T"), Generic("T", <<TypeId("U")>>), ArrayOf("T"), Leaf("integral_type", None, "int")}
Statements(e) ==
    (IF e.kind = "lambda_expression" THEN {} ELSE {Statement(e)}) \cup
    {Statement(Assign(Id("xx"), e)), Return(e), Statement(Call(Id("bb"), "kk", <<e>>)), Statement(Call(None, "kk", <<Id("bb"), e>>)),
     Declare(TypeId("T"), "xx", e), Declare(Generic("Fun", <<TypeId("T"), TypeId("U")>>), "xx", e)}
Neighbours == {<<>>, <<Declare(ArrayOf("T"), "yy", None)>>}
WellFormed ==
    {InMethod(before \o <<s>>) : before \in Neighbours, s \in UNION {Statements(e) : e \in Values}}
    \cup {InMethod(<<Declare(t, "xx", v), Jump(w[1], w[2])>>) : t \in DeclaredTypes, v \in {None, Id("aa")},
            w \in {<<"break", "break_statement">>, <<"continue", "continue_statement">>}}
    \cup {Program(<<Import(static, p), NewLine>>, <<Method(<<Modifiers(<<a>>)>>, t, ps, <<>>)>>) :
            static \in BOOLEAN, p \in {Id("aa"), Path(Id("aa"), "bb"), Path(Path(Id("aa"), "bb"), "cc")},
            a \in {Marker("An"), Annotation("An", <<Pair("kk", Id("aa"))>>), Annotation("An", <<Pair("kk", Id("aa")), Pair("ll", Id("bb"))>>)},
            t \in {TypeId("R")}, ps \in {<<Param(u, "pp")>> : u \in DeclaredTypes} \cup {<<Param(TypeId("U"), "pp"), Param(TypeId("T"), "qq")>>}}

-----------------------------------------------------------------------------
(* What a word is, by its place in the tree of a well-formed file.          *)
WordsOf(tree) == {n \in DOMAIN tree : tree[n].kind \in Names}
TypeParts == {"generic_type", "array_type"}
KindOfParent(tree, n) == tree[Parent(tree, n)].kind
TypeOwner(tree, w) == FirstOrNone(SelectSeq(Tail(tree[w].path), LAMBDA a : tree[a].kind \notin TypeParts))
PlaceOf(ctx, w) ==
    LET tree == ctx.tree
        parent == Parent(tree, w)
        kind == tree[parent].kind
        role == tree[w].role
        shown == CursorTruncatedText(ctx, w)
        Spelling(n) == NodeText(ctx, n)
        object == Field(tree, parent, "object")
        import == AncestorOfKinds(tree, w, {"import_declaration"})
        owner == TypeOwner(tree, w)
    IN IF import # None THEN [loc |-> {IF ChildrenWith(tree, import, "static") = <<>> THEN "Import" ELSE "ImportStatic"}, query |-> shown, of |-> None]
       ELSE IF kind = "field_access" /\ role = "field" THEN [loc |-> {"MemberAccess"}, query |-> shown, of |-> Spelling(object)]
       ELSE IF kind = "method_invocation" /\ role = "name"
       THEN [loc |-> {"MemberAccess"}, query |-> shown, of |-> IF object = None THEN <<>> ELSE Spelling(object)]
       ELSE IF kind = "variable_declarator" /\ role = "name"
       THEN [loc |-> {"VariableName"}, query |-> <<>>, of |-> Spelling(Field(tree, Parent(tree, parent), "type"))]
       ELSE IF kind = "formal_parameter" /\ role = "name" THEN [loc |-> {"VariableName"}, query |-> <<>>, of |-> Spelling(Field(tree, parent, "type"))]
       ELSE IF kind = "method_reference" /\ w # parent + 1 THEN [loc |-> {"MethodReference"}, query |-> shown, of |-> Spelling(parent + 1)]
       ELSE IF kind \in JumpStatements THEN [loc |-> {"StatementLabel"}, query |-> shown, of |-> None]
       ELSE IF kind \in {"marker_annotation", "annotation"} THEN [loc |-> {"Annotation"}, query |-> shown, of |-> None]
       ELSE IF kind = "element_value_pair" /\ role = "key" THEN [loc |-> {"AnnotationParam"}, query |-> shown, of |-> None]
       ELSE IF tree[w].kind = "type_identifier"
       THEN IF tree[owner].kind = "object_creation_expression" THEN [loc |-> {"ConstructorCall"}, query |-> shown, of |-> None]
            ELSE [loc |-> {"TypeAnnotation"}, query |-> shown, of |-> None]
       ELSE [loc |-> {"Expression", "MethodArgument"}, query |-> shown, of |-> None]

(* The receiver, the type of a declared name or the qualifier.              *)
OwnerIn(l) ==
    CASE l.loc = "MemberAccess" -> l.receiver
      [] l.loc = "VariableName" -> l.type
      [] l.loc = "MethodReference" -> l.qualifier
      [] OTHER -> None
Classified(tree, w) ==
    /\ tree[w].role # "parameters" /\ KindOfParent(tree, w) # "inferred_parameters"
    /\ ~(tree[w].role = "name" /\ KindOfParent(tree, w) \in {"class_declaration", "method_declaration"})
    /\ ~(tree[w].kind = "type_identifier" /\ tree[TypeOwner(tree, w)].kind = "method_declaration")
    /\ tree[w].role # "value" \/ KindOfParent(tree, w) # "element_value_pair"
MatchesPlace(ctx, w) ==
    \A l \in {DetermineLocation(ctx)}, place \in {PlaceOf(ctx, w)} :
      l.loc \in place.loc /\ l.query = place.query /\ OwnerIn(l) = place.of
LocationsByPlace(term) ==
    \A tree \in {Typeset(term)} : \A w \in WordsOf(tree) : Classified(tree, w) =>
      \A offset \in (tree[w].from + 1)..tree[w].to : MatchesPlace(At(tree, offset), w)

(* The call that a word is an argument of, the index of the argument, and   *)
(* the parameters of the lambda around it, by the tree.                     *)
ArgumentPlace(ctx, w) ==
    LET tree == ctx.tree
        list == AncestorOfKinds(tree, w, {"argument_list"})
        call == Parent(tree, list)
        object == Field(tree, call, "object")
        args == NamedChildren(tree, list)
    IN IF list = None THEN None
       ELSE IF tree[call].kind # "method_invocation" THEN None
       ELSE [receiver |-> IF object = None THEN <<Whole("this")>> ELSE NodeText(ctx, object), method |-> NodeText(ctx, Field(tree, call, "name")),
             index |-> Len(SelectSeq(args, LAMBDA a : tree[a].to < tree[w].from)), args |-> [i \in DOMAIN args |-> NodeText(ctx, args[i])]]
LambdaParams(tree, w) ==
    LET lambda == AncestorOfKinds(tree, w, {"lambda_expression"})
        params == Field(tree, lambda, "parameters")
    IN IF lambda = None THEN None
       ELSE IF tree[params].kind = "identifier" THEN 1 ELSE Len(NamedChildren(tree, params))
DeclaredFor(ctx, w) ==
    LET tree == ctx.tree
        holder == AncestorOfKinds(tree, w, {"variable_declarator", "return_statement"})
    IN IF holder = None \/ (tree[w].role = "name" /\ Parent(tree, w) = holder) THEN None
       ELSE IF tree[holder].kind = "return_statement" THEN <<Whole("R")>> ELSE NodeText(ctx, Field(tree, Parent(tree, holder), "type"))
HintMatches(ctx, w) ==
    \A hint \in {InferFunctionalTargetHint(ctx)}, call \in {ArgumentPlace(ctx, w)}, type \in {DeclaredFor(ctx, w)} :
      IF hint = None THEN call = None /\ type = None
      ELSE /\ hint.call = call /\ hint.type = type
           /\ LambdaParams(ctx.tree, w) # None /\ AncestorOfKinds(ctx.tree, w, {"method_reference"}) = None
                => hint.shape.params = LambdaParams(ctx.tree, w)
HintsByPlace(term) ==
    \A tree \in {Typeset(term)} : \A w \in WordsOf(tree) : HintMatches(At(tree, tree[w].to), w)

-----------------------------------------------------------------------------
(* Files with an unfinished statement, as the parser leaves them; the last  *)
(* token before the cursor, with a blank or not; and the place that is      *)
(* meant.                                                                   *)
UnfinishedFile(file, mark, blank, loc, query, of) ==
    [file |-> file, mark |-> mark, blank |-> blank, place |-> [loc |-> loc, query |-> query, of |-> of]]
Unfinished(stmts, mark, blank, loc, query, of) == UnfinishedFile(InMethod(stmts), mark, blank, loc, query, of)
TextOf(e) == LET tree == Typeset(e) IN NodeText(At(tree, 0), Root)
Values1 == {"Expression", "MethodArgument"}
NoSemicolon == Missing(";", None)

(* receiver. and receiver.na                                                *)
DottedStatements(e) ==
    { <<Term("expression_statement", None, <<e, Error(<<Token(".")>>), NoSemicolon>>)>>, <<Error(<<e, Token(".")>>)>>,
      <<Declare(TypeId("T"), "yy", None), Error(<<e, Token(".")>>)>>, <<Statement(Call(None, "kk", <<e, Error(<<Token(".")>>)>>))>> }
UnfinishedMembers ==
    UNION {{Unfinished(ss, ".", 0, {"MemberAccess"}, <<>>, TextOf(e)) : ss \in DottedStatements(e)} : e \in Chained}
    \cup {Unfinished(before \o <<Error(<<e, Token("."), Id("zz")>>)>>, "zz", 0, {"MemberAccess"}, <<Whole("zz")>>, TextOf(e)) :
            e \in Chained, before \in Neighbours}
    \cup {Unfinished(<<Term("local_variable_declaration", None, <<In("type", Scoped("aa", "zz")), NewLine, Declarator("bb", Id("cc")), Token(";")>>)>>,
                     "zz", 0, {"MemberAccess"}, <<Whole("zz")>>, <<Whole("aa")>>)}

(* new Na, alone and in a declaration.                                      *)
UnfinishedNews ==
    {Unfinished(before \o <<Error(<<Token("new"), TypeId("zz")>>)>>, "zz", 0, {"ConstructorCall"}, <<Whole("zz")>>, None) : before \in Neighbours}
    \cup {Unfinished(<<Term("local_variable_declaration", None,
                       <<In("type", t), Declarator("xx", None), Error(<<Token("="), Token("new"), TypeId("zz")>>), NoSemicolon>>)>>,
                     "zz", 0, {"ConstructorCall"}, <<Whole("zz")>>, None) : t \in {TypeId("T"), Generic("T", <<TypeId("U")>>)}}

(* A type and a blank.                                                      *)
UnfinishedNames ==
    {Unfinished(before \o <<Error(<<t>>)>>, "zz", 1, {"VariableName"}, <<>>, TextOf(t)) : t \in {TypeId("zz"), Id("zz")}, before \in Neighbours}

(* A name before a line that the parser takes for its continuation.         *)
Misread(kids) == Term("local_variable_declaration", None, <<In("type", TypeId("zz")), NewLine>> \o kids)
UnfinishedExpressions ==
    {Unfinished(before \o ss, "zz", 0, Values1, <<Whole("zz")>>, None) : before \in Neighbours, ss \in {
        <<Misread(<<Declarator("kk", None), NoSemicolon>>),
          Term("expression_statement", None, <<Term("parenthesized_expression", None, <<Token("("), Id("aa"), Token(")")>>), Token(";")>>)>>,
        <<Misread(<<Term("variable_declarator", "declarator", <<In("name", This)>>), Error(<<Token("."), Id("kk"), Token("("), Token(")")>>), Token(";")>>)>>,
        <<Misread(<<Term("variable_declarator", "declarator", <<In("name", Leaf("identifier", None, "return"))>>), NoSemicolon>>)>>,
        <<Misread(<<Term("variable_declarator", "declarator",
            <<In("name", TypeId("T")), Error(<<Id("aa")>>), Token("="), In("value", Id("bb"))>>), Token(";")>>)>>,
        <<Misread(<<Error(<<TypeId("T"), Token("."), TypeId("U")>>), Declarator("xx", Id("bb")), Token(";")>>)>>,
        <<Error(<<Id("zz")>>)>>, <<Statement(Binary(Id("aa"), "+", Id("zz")))>> }}
    \cup {Unfinished(<<Term("expression_statement", None, <<Term("binary_expression", None, <<In("left", e), Token("+"), Missing("identifier", "right")>>), NoSemicolon>>)>>,
                     "+", 1, Values1, <<>>, None) : e \in Chained}
(* An import or a member without an end.                                    *)
UnfinishedMore ==
    {UnfinishedFile(Term("program", None, <<Error(<<Token("import")>> \o static \o <<path>>), NewLine, ClassOf(<<>>)>>), "zz", 0,
                    {IF static = <<>> THEN "Import" ELSE "ImportStatic"}, <<Whole("zz")>>, None) :
       static \in {<<>>, <<Token("static")>>}, path \in {Id("zz"), Path(Id("aa"), "zz"), Path(Path(Id("aa"), "bb"), "zz")}}
    \cup {UnfinishedFile(Program(<<>>, before \o <<Error(<<Id("zz")>>)>>), "zz", 0, {"Expression"}, <<Whole("zz")>>, None) :
            before \in {<<>>, <<Method(<<>>, TypeId("R"), <<>>, <<>>)>>}}
Broken == UnfinishedMore \cup UnfinishedMembers \cup UnfinishedNews \cup UnfinishedNames \cup UnfinishedExpressions

RecoveredPlace(x) ==
    \A tree \in {Typeset(x.file)} :
    \A l \in {DetermineLocation(At(tree, tree[Max({n \in DOMAIN tree : tree[n].text = x.mark})].to + x.blank))} :
      l.loc \in x.place.loc /\ l.query = x.place.query
      /\ OwnerIn(l) = x.place.of

(* Type name = parameters -> body, in one ERROR node.                       *)
UnfinishedLambdas ==
    {InMethod(<<Error(<<t, Id("xx"), Token("="), p, Token("->"), e>>)>>) : t \in DeclaredTypes,
       p \in {Id("pp"), Inferred(<<Id("pp"), Id("qq")>>), Inferred(<<>>)}, e \in Chained}
RecoveredLambda(term) ==
    \A tree \in {Typeset(term)} : \A error \in {Min({n \in DOMAIN tree : tree[n].kind = "ERROR"})} :
    \A kids \in {Children(tree, error)} : \A ctx \in {At(tree, tree[error].to)} :
    \A hint \in {InferFunctionalTargetHint(ctx)} :
      /\ hint.type = NodeText(ctx, kids[1]) /\ hint.shape.body = NodeText(ctx, Last(kids))
      /\ hint.shape.params = IF tree[kids[4]].kind = "identifier" THEN 1 ELSE Len(NamedChildren(tree, kids[4]))
=============================================================================
