----------------------------- MODULE SourceFiles -----------------------------
(***************************************************************************)
(* Small Java files, as syntax trees: classes of all kinds, nested in one  *)
(* another and in methods, with all kinds of members, and the errors that  *)
(* the parser leaves in unfinished ones.                                   *)
(***************************************************************************)
EXTENDS SourceClasses

In(role, term) == [term EXCEPT !.role = role]
Name(role, x) == Leaf("identifier", role, x)
Error(kids) == Term("ERROR", None, kids)
Block(stmts) == Term("block", None, <<Token("{")>> \o stmts \o <<Token("}")>>)
Declarator(x) == Term("variable_declarator", "declarator", <<Name("name", x)>>)
Declare(x) == Term("local_variable_declaration", None, <<Leaf("type_identifier", "type", "T"), Declarator(x), Token(";")>>)
TypeId(t) == Leaf("type_identifier", "type", t)
IntNode == Leaf("integral_type", "type", "int")
VoidType == Leaf("void_type", "type", "void")
Arr(t) == Term("array_type", "type", <<In("element", t), Term("dimensions", "dimensions", <<Token("["), Token("]")>>)>>)
GenericOf(base, arg) == Term("generic_type", "type", <<In(None, TypeId(base)), Term("type_arguments", None, <<Token("<"), In(None, arg), Token(">")>>)>>)
ScopedType == Term("scoped_type_identifier", "type", <<In(None, TypeId("q")), Token("."), In(None, TypeId("Far"))>>)
TypeParams(x) == Term("type_parameters", "type_parameters", <<Token("<"), Term("type_parameter", None, <<In(None, TypeId(x)),
                   Term("type_bound", None, <<Token("extends"), In(None, TypeId("Base"))>>)>>), Token(">")>>)
Marker == Term("marker_annotation", None, <<Token("@"), Name("name", "Mark")>>)
Annotated == Term("annotation", None, <<Token("@"), Name("name", "Size"), Term("annotation_argument_list", "arguments",
               <<Token("("), Leaf("decimal_integer_literal", None, "1"), Token(")")>>)>>)
Mods(kids) == Term("modifiers", None, kids)
ParamOf(mods, type, x) == Term("formal_parameter", None, mods \o <<type, Name("name", x)>>)
Spread(type, x) == Term("spread_parameter", None, <<type, Token("..."), Term("variable_declarator", None, <<Name("name", x)>>)>>)
ParamList(ps) == Term("formal_parameters", "parameters",
    <<Token("(")>> \o (IF ps = <<>> THEN <<>> ELSE IF Len(ps) = 1 THEN ps ELSE <<ps[1], Token(","), ps[2]>>) \o <<Token(")")>>)
MethodOf(before, type, x, ps, stmts) ==
    Term("method_declaration", None, before \o <<type, Name("name", x), ParamList(ps), In("body", Block(stmts))>>)
Fields(type, xs) == Term("field_declaration", None,
    <<Mods(<<Token("static")>>), type>> \o [i \in DOMAIN xs |-> Declarator(xs[i])] \o <<Token(";")>>)
Body(kind, kids) == Term(kind, "body", <<Token("{")>> \o kids \o <<Token("}")>>)
Declaration(kind, x, head, body) ==
    Term(kind, None, <<Mods(<<Token("public")>>), Token(IF kind = "interface_declaration" THEN "interface" ELSE "class"),
                       Name("name", x)>> \o head \o <<body>>)
Nested(x) == Declaration("class_declaration", x, <<>>, Body("class_body", <<Fields(IntNode, <<"y">>), MethodOf(<<>>, VoidType, "run", <<>>, <<>>)>>))
NestedAnnotation(x) == Declaration("annotation_type_declaration", x, <<>>, Body("annotation_type_body",
    <<Term("annotation_type_element_declaration", None, <<IntNode, Name("name", "value"), Token("("), Token(")"), Token(";")>>)>>))
Constructor(ps) == Term("constructor_declaration", None, <<Mods(<<Token("public")>>), Name("name", "C"), ParamList(ps), Body("constructor_body", <<>>)>>)
Members(x) ==
    { Fields(IntNode, <<x, "other">>), Fields(Arr(TypeId("T")), <<x>>), Fields(ScopedType, <<x>>),
      MethodOf(<<Mods(<<Marker, Token("public"), Token("abstract")>>)>>, VoidType, x, <<ParamOf(<<>>, TypeId("T"), "p"), Spread(IntNode, "q")>>, <<>>),
      MethodOf(<<TypeParams("R")>>, In("type", TypeId("R")), x, <<ParamOf(<<>>, GenericOf("List", TypeId("R")), "p"), ParamOf(<<>>, Arr(TypeId("T")), "q")>>, <<>>),
      MethodOf(<<>>, Arr(TypeId("C")), x, <<ParamOf(<<Mods(<<Annotated>>)>>, IntNode, "p")>>, <<Nested("L")>>),
      MethodOf(<<>>, TypeId("T"), x, <<ParamOf(<<Mods(<<Token("final")>>)>>, Arr(Arr(TypeId("T"))), "p")>>, <<Declare(x)>>),
      MethodOf(<<>>, ScopedType, x, <<>>, <<>>),
      Constructor(<<>>), Constructor(<<ParamOf(<<>>, TypeId("T"), "p")>>), Nested(x), NestedAnnotation(x) }
Clause(role, kind, word, types) ==
    Term(kind, role, <<Token(word)>> \o (IF types = <<>> THEN <<>> ELSE IF Len(types) = 1 THEN <<Term("type_list", None, types)>>
                                          ELSE <<Term("type_list", None, <<types[1], Token(","), types[2]>>)>>))
SuperClause(type) == Term("superclass", "superclass", <<Token("extends"), In(None, type)>>)
Permits == Term("permits", None, <<Token("permits"), Term("type_list", None, <<In(None, TypeId("D"))>>)>>)
Interfaces == {<<In(None, TypeId("I"))>>, <<In(None, GenericOf("List", GenericOf("Map", TypeId("T")))), In(None, TypeId("I"))>>}
Implementing(word, role, kind) == {<<>>} \cup {<<Clause(role, kind, word, types)>> : types \in Interfaces}
Headers(kind) ==
    LET tparams == {<<>>, <<TypeParams("T")>>}
        supers == IF kind = "class_declaration" THEN {<<>>, <<SuperClause(TypeId("Base"))>>, <<SuperClause(GenericOf("Base", TypeId("T")))>>} ELSE {<<>>}
        inter == IF kind = "interface_declaration" THEN Implementing("extends", None, "extends_interfaces")
                 ELSE Implementing("implements", "interfaces", "super_interfaces")
    IN {t \o s \o i \o p : t \in tparams, s \in supers, i \in inter, p \in {<<>>, <<Permits>>}}
BodyOf(kind, members) ==
    IF kind = "enum_declaration"
    THEN Body("enum_body", <<Term("enum_constant", None, <<Name("name", "ONE")>>), Token(";"), Term("enum_body_declarations", None, members)>>)
    ELSE Body(IF kind = "interface_declaration" THEN "interface_body" ELSE "class_body", members)
Package == Term("package_declaration", None, <<Token("package"), Name(None, "a"), Token("."), Name(None, "b"), Token(";")>>)
FileOf(decls) == Term("program", None, <<Package>> \o decls)

(* Two members in a class or enum, one member in a class in a class.        *)
Sources ==
    {FileOf(<<Declaration(f[1], "C", f[4], BodyOf(f[1], <<f[2], f[3]>>))>>) : f \in
        {f \in {"class_declaration", "enum_declaration"} \X Members("m") \X (Members("n") \cup Members("m")) \X {<<>>, <<TypeParams("T")>>} :
           f[2] # f[3] /\ f[3] \notin {Nested("m"), NestedAnnotation("m")}}}
    \cup UNION {{FileOf(<<Declaration(kind, "C", head, BodyOf(kind, <<Declaration(kind, "D", head, BodyOf(kind, <<m>>))>>)),
                           Declaration(kind, "D", <<>>, BodyOf(kind, <<m>>))>>) :
                   head \in Headers(kind), m \in {Nested("m"), NestedAnnotation("m"), Constructor(<<>>)}} :
                kind \in {"class_declaration", "interface_declaration", "record_declaration"}}

(* Errors between the members, in the body of a method, and around a class. *)
Broken(x) ==
    { Error(<<Mods(<<Token("public")>>), Name(None, x), ParamList(<<ParamOf(<<>>, TypeId("T"), "p")>>)>>),
      Error(<<In(None, TypeId("T")), Term("method_invocation", None, <<Name("name", x), ParamList(<<>>)>>)>>),
      Error(<<Name(None, x), Token("."), Error(<<In(None, IntNode), Name(None, "deep"), ParamList(<<>>)>>)>>),
      MethodOf(<<>>, VoidType, x, <<>>, <<Declare("late"), Error(<<ParamList(<<ParamOf(<<>>, IntNode, "p")>>), Token("{")>>)>>),
      MethodOf(<<>>, VoidType, x, <<>>, <<Error(<<MethodOf(<<>>, IntNode, "inside", <<>>, <<>>)>>), Fields(IntNode, <<"lost">>)>>) }
BrokenSources ==
    {FileOf(<<Declaration(kind, "C", <<TypeParams("T")>>, BodyOf(kind, <<a, m, b>>))>>) :
        kind \in {"class_declaration", "enum_declaration"}, a \in Broken("m"), m \in Members("m") \cup Members("n"), b \in Broken("n")}
    \cup {FileOf(<<Error(<<Mods(<<Token("public")>>), Token("class"), Name(None, "C")>> \o head \o <<Token("{"), a, b>>)>>) :
             head \in Headers("class_declaration"), a \in Broken("m") \cup Members("n"), b \in {Nested("n"), Constructor(<<>>)}}

(* The classes that the files import.                                       *)
Imported == [x \in {"List", "Map", "Base"} |-> <<"java", "util", x>>]
=============================================================================
