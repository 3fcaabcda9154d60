---------------------------- MODULE SourceMembers ----------------------------
(***************************************************************************)
(* The members of a class as they are read from its syntax tree: methods,  *)
(* constructors, annotation elements and fields, with what can be had from *)
(* the broken parts of a body, their modifiers and annotations, and their  *)
(* descriptors and generic signatures.                                     *)
(*                                                                         *)
(* A text is the sequence of its tokens.  ctx has the simple names that    *)
(* resolve (ctx.known, to internal names), the type variables' names that  *)
(* are all upper case (ctx.upper) and the package.                         *)
(***************************************************************************)
EXTENDS LocalScopes

LOCAL INSTANCE Integers
LOCAL INSTANCE SequencesExt
LOCAL INSTANCE FiniteSetsExt

Generic == INSTANCE GenericTypes

TextOf(tree, n) ==
    LET leaves == SelectSeq([i \in 1..(tree[n].last - n + 1) |-> n + i - 1], LAMBDA k : tree[k].text # None)
    IN [i \in DOMAIN leaves |-> tree[leaves[i]].text]

-----------------------------------------------------------------------------
(* Types as they are written.                                               *)

(* The pieces of a text between blanks outside of angle brackets.           *)
Glued == {"<", ">", "[", "]", "...", ",", ".", "(", ")", "&"}
Depths(s) ==
    LET Step(ds, t) == Append(ds, (IF ds = <<>> THEN 0 ELSE Last(ds)) + (IF t = "<" THEN 1 ELSE IF t = ">" THEN -1 ELSE 0))
    IN FoldLeft(Step, <<>>, s)
Pieces(s) ==
    LET depth == Depths(s)
        Starts(i) == i = 1 \/ (s[i] \notin Glued /\ s[i - 1] \notin {"<", ".", "@", "(", "&"} /\ depth[i - 1] = 0)
        AddToken(ps, i) == IF Starts(i) THEN Append(ps, <<s[i]>>) ELSE [ps EXCEPT ![Len(ps)] = Append(@, s[i])]
    IN FoldLeft(AddToken, <<>>, [i \in DOMAIN s |-> i])

(* The parts between separators outside of angle brackets; an empty list    *)
(* has no parameter, and empty arguments and bounds are dropped.            *)
SplitAt(s, separator) ==
    LET depth == Depths(s)
        AddToken(ps, i) == IF s[i] = separator /\ depth[i] = 0 THEN Append(ps, <<>>)
                           ELSE [ps EXCEPT ![Len(ps)] = Append(@, s[i])]
    IN FoldLeft(AddToken, << <<>> >>, [i \in DOMAIN s |-> i])
SplitParams(s) == LET ps == SplitAt(s, ",") IN IF Last(ps) = <<>> THEN Front(ps) ELSE ps
SplitGenericArgs(s) == SelectSeq(SplitAt(s, ","), LAMBDA p : p # <<>>)
SplitIntersectionBounds(s) == SelectSeq(SplitAt(s, "&"), LAMBDA p : p # <<>>)

StripLeadingTypeModifiers(s) ==
    LET ps == Pieces(s)
        Modifies(p) == p = <<"final">> \/ p[1] = "@"
        kept == {i \in DOMAIN ps : i = Len(ps) \/ ~Modifies(ps[i])}
    IN IF ps = <<>> THEN <<>> ELSE FlattenSeq(SubSeq(ps, Min(kept), Len(ps)))

(* All but the last piece: the name of a parameter comes last.              *)
ExtractParamType(s) == LET ps == Pieces(s) IN IF Len(ps) <= 1 THEN s ELSE FlattenSeq(Front(ps))

(* A type without its dimensions, and how many there are; variable          *)
(* arguments have one more.                                                 *)
RECURSIVE WithoutBrackets(_, _)
WithoutBrackets(s, dims) ==
    IF Len(s) >= 2 /\ s[Len(s)] = "]" /\ s[Len(s) - 1] = "[" THEN WithoutBrackets(SubSeq(s, 1, Len(s) - 2), dims + 1)
    ELSE [base |-> s, dims |-> dims]
Undimensioned(s) ==
    IF s # <<>> /\ Last(s) = "..." THEN WithoutBrackets(Front(s), 1) ELSE WithoutBrackets(s, 0)

GenericBase(s) ==
    LET open == SelectInSeq(s, LAMBDA t : t = "<")
        close == {i \in DOMAIN s : s[i] = ">" /\ Depths(s)[i] = 0}
    IN IF open = 0 THEN [base |-> s, args |-> None]
       ELSE IF close = {} THEN [base |-> s, args |-> None]
       ELSE [base |-> SubSeq(s, 1, open - 1), args |-> SubSeq(s, open + 1, Min(close) - 1)]

PrimitiveNames == {"void", "boolean", "byte", "char", "short", "int", "long", "float", "double"}
ResolveName(ctx, base) == IF Len(base) = 1 /\ base[1] \in DOMAIN ctx.known THEN ctx.known[base[1]] ELSE base

(* A descriptor erases the type arguments and all bounds but the first.     *)
Descriptor(ctx, type) ==
    LET u == Undimensioned(StripLeadingTypeModifiers(type))
        bounds == SplitIntersectionBounds(u.base)
        base == GenericBase(IF bounds = <<>> THEN u.base ELSE bounds[1]).base
    IN [dims |-> u.dims,
        name |-> IF Len(base) = 1 /\ base[1] \in PrimitiveNames THEN base ELSE ResolveName(ctx, base)]
Unparenthesized(s) ==
    LET inner == {i \in DOMAIN s : \/ \E j \in 1..i : s[j] # "("} \cap {i \in DOMAIN s : \E j \in i..Len(s) : s[j] # ")"}
    IN IF inner = {} THEN <<>> ELSE SubSeq(s, Min(inner), Max(inner))
BuildDescriptor(ctx, params, ret) ==
    LET ps == SplitParams(Unparenthesized(params))
    IN [params |-> [i \in DOMAIN ps |-> Descriptor(ctx, ExtractParamType(ps[i]))], ret |-> Descriptor(ctx, ret)]

(* A signature keeps them; a name that does not resolve and is all upper    *)
(* case is a type variable.                                                 *)
RECURSIVE Dimensioned(_, _), SourceTypeToSignature(_, _)
Dimensioned(j, dims) == IF dims = 0 THEN j ELSE Dimensioned(Generic!Of("[", j), dims - 1)
SourceTypeToSignature(ctx, type) ==
    LET s == StripLeadingTypeModifiers(type)
        u == Undimensioned(s)
        bounds == SplitIntersectionBounds(u.base)
        g == GenericBase(u.base)
        name == ResolveName(ctx, g.base)
        args == IF g.args = None THEN <<>> ELSE SplitGenericArgs(g.args)
    IN IF s = <<"?">> THEN Generic!Wildcard
       ELSE IF Len(s) > 2 /\ s[1] = "?" /\ s[2] \in {"extends", "super"}
       THEN Generic!Of(IF s[2] = "extends" THEN "+" ELSE "-", SourceTypeToSignature(ctx, SubSeq(s, 3, Len(s))))
       ELSE IF Len(bounds) > 1 THEN SourceTypeToSignature(ctx, bounds[1])
       ELSE Dimensioned(IF Len(g.base) = 1 /\ g.base[1] \in PrimitiveNames THEN Generic!Jvm("prim", g.base, <<>>)
                        ELSE IF Len(name) = 1 /\ name[1] \in ctx.upper THEN Generic!TypeVar(name)
                        ELSE Generic!Object(name, [i \in DOMAIN args |-> SourceTypeToSignature(ctx, args[i])]), u.dims)

ObjectName == <<"java", "lang", "Object">>
ExtractTypeParameters(tree, ctx, n) ==
    LET OfRole == Field(tree, n, "type_parameters")
        list == IF OfRole # None THEN OfRole ELSE FirstOfKind(tree, n, {"type_parameters"})
        NameIn(p) == FirstOfKind(tree, p, {"identifier", "type_identifier"})
        params == SelectSeq(ChildrenOfKind(tree, list, {"type_parameter"}), LAMBDA p : NameIn(p) # None)
        Bounds(p) ==
          LET bound == FirstOfKind(tree, p, {"type_bound"})
              text == IF bound = None THEN <<>> ELSE TextOf(tree, bound)
              bounds == IF text = <<>> \/ text[1] # "extends" THEN <<>> ELSE SplitIntersectionBounds(Tail(text))
          IN IF bounds = <<>> THEN <<Generic!Object(ObjectName, <<>>)>>
             ELSE [i \in DOMAIN bounds |-> SourceTypeToSignature(ctx, bounds[i])]
    IN IF list = None THEN <<>>
       ELSE [i \in DOMAIN params |-> [name |-> tree[NameIn(params[i])].text, bounds |-> Bounds(params[i])]]

-----------------------------------------------------------------------------
(* Modifiers and annotations.                                               *)

FlagWords == {"public", "private", "protected", "static", "final", "abstract"}
Modifiers(text) == ToSet(text) \cap FlagWords
ModifiersNode(tree, n) == FirstOfKind(tree, n, {"modifiers"})
FlagsOf(tree, n) == IF ModifiersNode(tree, n) = None THEN {} ELSE Modifiers(TextOf(tree, ModifiersNode(tree, n)))
OrPublic(flags) == IF flags = {} THEN {"public"} ELSE flags

Annotations == {"marker_annotation", "annotation"}
AnnotationNodes(tree, n) ==
    SelectSeq([i \in 1..(tree[n].last - n + 1) |-> n + i - 1],
              LAMBDA k : tree[k].kind \in Annotations /\ Field(tree, k, "name") # None)

(* An element value; a value of a kind that is not known is None.           *)
Value(kind, value) == [kind |-> kind, value |-> value]
RECURSIVE ParseElementValue(_, _, _), ParseAnnotation(_, _, _)
ParseElementValue(tree, ctx, n) ==
    LET text == TextOf(tree, n)
        named == SelectSeq(Children(tree, n), LAMBDA c : IsNamed(tree, c))
    IN CASE tree[n].kind \in {"string_literal", "true", "false", "decimal_integer_literal"} -> Value(tree[n].kind, text)
         [] tree[n].kind \in {"field_access", "scoped_identifier"} ->
              Value("enum", <<ResolveName(ctx, SubSeq(text, 1, Len(text) - 2)), Last(text)>>)
         [] tree[n].kind = "identifier" -> Value("enum", << <<>>, text[1]>>)
         [] tree[n].kind = "class_literal" -> Value("class", SubSeq(text, 1, Len(text) - 2))
         [] tree[n].kind = "element_value_array_initializer" ->
              Value("array", [i \in DOMAIN named |-> ParseElementValue(tree, ctx, named[i])])
         [] tree[n].kind \in Annotations -> Value("nested", ParseAnnotation(tree, ctx, n))
         [] OTHER -> None
ParseAnnotation(tree, ctx, n) ==
    LET name == TextOf(tree, Field(tree, n, "name"))
        list == IF tree[n].kind = "annotation" THEN Field(tree, n, "arguments") ELSE None
        args == IF list = None THEN <<>> ELSE SelectSeq(Children(tree, list), LAMBDA c : IsNamed(tree, c))
        pairs == SelectSeq(args, LAMBDA a : tree[a].kind = "element_value_pair" /\ Field(tree, a, "value") # None)
        KeyOf(p) == LET key == Field(tree, p, "key") IN IF key = None THEN "value" ELSE tree[key].text
        LastOf(key) == CHOOSE i \in DOMAIN pairs : KeyOf(pairs[i]) = key /\ \A j \in DOMAIN pairs : KeyOf(pairs[j]) = key => j <= i
    IN [name |-> ResolveName(ctx, name),
        elements |->
          IF args = <<>> THEN <<>>
          ELSE IF \E i \in DOMAIN args : tree[args[i]].kind = "element_value_pair"
          THEN [key \in {KeyOf(pairs[i]) : i \in DOMAIN pairs} |->
                  ParseElementValue(tree, ctx, Field(tree, pairs[LastOf(key)], "value"))]
          ELSE [key \in {"value"} |->
                  IF Len(args) = 1 THEN ParseElementValue(tree, ctx, args[1])
                  ELSE Value("array", [i \in DOMAIN args |-> ParseElementValue(tree, ctx, args[i])])]]

(* All annotations in a node, those in arguments of others included.        *)
ParseAnnotations(tree, ctx, n) ==
    IF n = None THEN <<>>
    ELSE LET nodes == AnnotationNodes(tree, n) IN [i \in DOMAIN nodes |-> ParseAnnotation(tree, ctx, nodes[i])]

-----------------------------------------------------------------------------
(* Members.                                                                 *)

ReturnTypeKinds ==
    {"void_type", "integral_type", "floating_point_type", "boolean_type", "type_identifier", "scoped_type_identifier",
     "array_type", "generic_type"}
FieldTypeKinds == ReturnTypeKinds \ {"scoped_type_identifier"}
Keywords ==
    {"public", "private", "protected", "static", "final", "abstract", "synchronized", "volatile", "transient", "native",
     "strictfp", "void", "int", "long", "double", "float", "boolean", "byte", "short", "char", "class", "interface",
     "enum", "extends", "implements", "return", "new", "this", "super", "null", "true", "false", "if", "else", "for",
     "while", "do", "switch", "case", "break", "continue", "default", "try", "catch", "finally", "throw", "throws",
     "import", "package", "instanceof", "assert"}
InitName == "<init>"
IsMethodName(name) == name \notin Keywords \cup {InitName, "<clinit>", None}

MethodMember(name, params, annos, flags, generic, ret) ==
    [kind |-> "method", name |-> name, params |-> params, annos |-> annos, flags |-> flags, generic |-> generic, ret |-> ret]
FieldMember(name, desc, annos, flags) ==
    [kind |-> "field", name |-> name, desc |-> desc, annos |-> annos, flags |-> flags]
DescriptorOf(m) == [params |-> [i \in DOMAIN m.params |-> m.params[i].desc], ret |-> m.ret]

(* The type and the dimensions written after the parameters.                *)
DeclaredReturnType(tree, n, kinds, default) ==
    LET type == Field(tree, n, "type")
        found == IF type # None /\ tree[type].kind \in kinds THEN type ELSE FirstOfKind(tree, n, kinds)
        dims == Field(tree, n, "dimensions")
    IN (IF found = None THEN default ELSE TextOf(tree, found)) \o (IF dims = None THEN <<>> ELSE TextOf(tree, dims))

ParamNodes(tree, params) == ChildrenOfKind(tree, params, {"formal_parameter", "spread_parameter"})
ParamName(tree, param) ==
    LET declarator == FirstOfKind(tree, param, {"variable_declarator"})
        found == SelectSeq(<<Field(tree, param, "name"), FirstOfKind(tree, param, {"identifier"}),
                             IF declarator = None THEN None ELSE Field(tree, declarator, "name"),
                             IF declarator = None THEN None ELSE FirstOfKind(tree, declarator, {"identifier"})>>,
                           LAMBDA n : n # None)
    IN IF found = <<>> THEN None ELSE tree[found[1]].text
(* The types come from the descriptor, the names from the nodes.            *)
ParseParams(tree, ctx, descs, params) ==
    LET nodes == IF params = None THEN <<>> ELSE ParamNodes(tree, params)
        Named(i) == i \in DOMAIN nodes /\ ParamName(tree, nodes[i]) # None
        Annotated(i) == LET m == Field(tree, nodes[i], "modifiers")
                        IN ParseAnnotations(tree, ctx, IF m # None THEN m ELSE nodes[i])
    IN [i \in DOMAIN descs |-> [desc |-> descs[i], name |-> IF Named(i) THEN ParamName(tree, nodes[i]) ELSE "",
                                annos |-> IF i \in DOMAIN nodes THEN Annotated(i) ELSE <<>>]]
Varargs(tree, params) ==
    IF params # None /\ ChildrenOfKind(tree, params, {"spread_parameter"}) # <<>> THEN {"varargs"} ELSE {}
ParamsText(tree, params) == IF params = None THEN <<"(", ")">> ELSE TextOf(tree, params)

(* A method's own type parameters give it a signature of its own.           *)
MethodSignature(tree, ctx, n, params, ret) ==
    LET tparams == ExtractTypeParameters(tree, ctx, n)
        ps == SplitParams(Unparenthesized(params))
    IN IF tparams = <<>> THEN None
       ELSE [tparams |-> tparams, params |-> [i \in DOMAIN ps |-> SourceTypeToSignature(ctx, ExtractParamType(ps[i]))],
             ret |-> SourceTypeToSignature(ctx, ret)]
Void == <<"void">>
NameIn(tree, n) == LET id == FirstOfKind(tree, n, {"identifier"}) IN IF id = None THEN None ELSE tree[id].text

ParseMethod(tree, ctx, n) ==
    LET params == FirstOfKind(tree, n, {"formal_parameters"})
        text == ParamsText(tree, params)
        ret == DeclaredReturnType(tree, n, ReturnTypeKinds, Void)
        desc == BuildDescriptor(ctx, text, ret)
    IN IF ~IsMethodName(NameIn(tree, n)) THEN <<>>
       ELSE << MethodMember(NameIn(tree, n), ParseParams(tree, ctx, desc.params, params),
                            ParseAnnotations(tree, ctx, ModifiersNode(tree, n)),
                            OrPublic(FlagsOf(tree, n)) \cup Varargs(tree, params),
                            MethodSignature(tree, ctx, n, text, ret), desc.ret) >>

DeclaredName(tree, n) ==
    LET name == Field(tree, n, "name") IN IF name # None THEN name ELSE FirstOfKind(tree, n, {"identifier"})
ParseAnnotationElement(tree, ctx, n) ==
    LET name == DeclaredName(tree, n)
        ret == DeclaredReturnType(tree, n, ReturnTypeKinds, <<>>)
    IN IF name = None \/ ret = <<>> THEN <<>>
       ELSE IF tree[name].text \in Keywords THEN <<>>
       ELSE << MethodMember(tree[name].text, <<>>, ParseAnnotations(tree, ctx, ModifiersNode(tree, n)),
                            {"public", "abstract"} \cup FlagsOf(tree, n), None, Descriptor(ctx, ret)) >>

(* A compact constructor has the parameters of its record; the signature of *)
(* a constructor with type parameters ends in its descriptor.               *)
ConstructorParams(tree, n) ==
    LET record == AncestorOfKinds(tree, n, {"record_declaration"})
        list == IF record = None THEN None ELSE Field(tree, record, "parameters")
    IN IF tree[n].kind # "compact_constructor_declaration" \/ record = None THEN FirstOfKind(tree, n, {"formal_parameters"})
       ELSE IF list # None THEN list ELSE FirstOfKind(tree, record, {"formal_parameters"})
ParseConstructor(tree, ctx, n) ==
    LET params == ConstructorParams(tree, n)
        desc == BuildDescriptor(ctx, ParamsText(tree, params), Void)
        tparams == ExtractTypeParameters(tree, ctx, n)
    IN << MethodMember(InitName, ParseParams(tree, ctx, desc.params, params),
                       ParseAnnotations(tree, ctx, ModifiersNode(tree, n)),
                       OrPublic(FlagsOf(tree, n)) \cup Varargs(tree, params),
                       IF tparams = <<>> THEN None ELSE [tparams |-> tparams, params |-> desc.params, ret |-> desc.ret],
                       desc.ret) >>

ParseField(tree, ctx, n) ==
    LET types == ChildrenOfKind(tree, n, FieldTypeKinds)
        type == IF types = <<>> THEN <<"Object">> ELSE TextOf(tree, Last(types))
        declarators == SelectSeq(ChildrenOfKind(tree, n, {"variable_declarator"}),
                                 LAMBDA d : NameIn(tree, d) \notin Keywords \cup {None})
    IN [i \in DOMAIN declarators |->
          FieldMember(NameIn(tree, declarators[i]), Descriptor(ctx, type),
                      ParseAnnotations(tree, ctx, ModifiersNode(tree, n)), OrPublic(FlagsOf(tree, n)))]

-----------------------------------------------------------------------------
(* What an error still shows.                                               *)

LastBefore(tree, kids, at, kinds) ==
    LET found == SelectSeq(SubSeq(kids, 1, at - 1), LAMBDA k : tree[k].kind \in kinds)
    IN IF found = <<>> THEN None ELSE Last(found)
LastAnnotatedError(tree, kids, at) ==
    LET found == SelectSeq(SubSeq(kids, 1, at - 1), LAMBDA k : tree[k].kind = "ERROR" /\ AnnotationNodes(tree, k) # <<>>)
    IN IF found = <<>> THEN None ELSE Last(found)

(* Parameters with a name before them.                                      *)
MethodOfParams(tree, ctx, kids, at) ==
    LET name == LastBefore(tree, kids, at, {"identifier"})
        modifiers == LastBefore(tree, kids, at, {"modifiers"})
        type == LastBefore(tree, kids, at, ReturnTypeKinds)
        desc == BuildDescriptor(ctx, TextOf(tree, kids[at]), IF type = None THEN Void ELSE TextOf(tree, type))
    IN MethodMember(tree[name].text, ParseParams(tree, ctx, desc.params, kids[at]),
                    ParseAnnotations(tree, ctx, IF modifiers # None THEN modifiers ELSE LastAnnotatedError(tree, kids, at)),
                    (IF modifiers = None THEN {} ELSE Modifiers(TextOf(tree, modifiers))) \cup Varargs(tree, kids[at]),
                    None, desc.ret)

(* A call that should have been a declaration; what is before it is read    *)
(* backwards.                                                               *)
MethodOfCall(tree, ctx, kids, at) ==
    LET TypeOf(ret, n) == IF ret = Void /\ tree[n].kind \in ReturnTypeKinds THEN TextOf(tree, n) ELSE ret
        Read(state, n) ==
          CASE tree[n].kind = "identifier" -> [state EXCEPT !.annos = None, !.flags = @ \cup Modifiers(TextOf(tree, n))]
            [] tree[n].kind = "ERROR" ->
                 LET inner == Children(tree, n) IN
                 [annos |-> IF state.annos = None /\ AnnotationNodes(tree, n) # <<>> THEN n ELSE state.annos,
                  flags |-> state.flags \cup UNION {Modifiers(TextOf(tree, c)) : c \in
                              {c \in ToSet(inner) : tree[c].kind \in {"identifier", "static", "private", "public", "protected"}}},
                  ret |-> FoldLeft(TypeOf, state.ret, inner)]
            [] OTHER -> [state EXCEPT !.ret = TypeOf(@, n)]
        read == FoldLeft(Read, [annos |-> None, flags |-> {}, ret |-> Void], Reverse(SubSeq(kids, 1, at - 1)))
    IN MethodMember(tree[Field(tree, kids[at], "name")].text, <<>>, ParseAnnotations(tree, ctx, read.annos),
                    OrPublic(read.flags), None, Descriptor(ctx, read.ret))

(* Methods of names that were found already are left out.                   *)
PartialMethodsFromError(tree, ctx, error, found) ==
    LET kids == Children(tree, error)
        names == {m.name : m \in ToSet(found)}
        positions == [i \in DOMAIN kids |-> i]
        IsMethod(i) ==
          /\ tree[kids[i]].kind = "formal_parameters" /\ LastBefore(tree, kids, i, {"identifier"}) # None
          /\ tree[LastBefore(tree, kids, i, {"identifier"})].text \notin names \cup {InitName, "<clinit>"}
        IsCall(i) ==
          /\ tree[kids[i]].kind = "method_invocation" /\ Field(tree, kids[i], "name") # None
          /\ LET name == tree[Field(tree, kids[i], "name")].text IN IsMethodName(name) /\ name \notin names
        methods == SelectSeq(positions, IsMethod)
        calls == SelectSeq(positions, IsCall)
    IN [i \in DOMAIN methods |-> MethodOfParams(tree, ctx, kids, methods[i])]
       \o [i \in DOMAIN calls |-> MethodOfCall(tree, ctx, kids, calls[i])]

(* A declaration of a variable that is followed by parameters.              *)
ParseMisreadMethod(tree, ctx, decl, error) ==
    LET declarators == ChildrenOfKind(tree, decl, {"variable_declarator"})
        named == SelectSeq(declarators, LAMBDA d : Field(tree, d, "name") # None)
        name == IF named = <<>> THEN None ELSE tree[Field(tree, Last(named), "name")].text
        types == ChildrenOfKind(tree, decl, ReturnTypeKinds)
        params == FirstOfKind(tree, error, {"formal_parameters"})
        desc == BuildDescriptor(ctx, ParamsText(tree, params), IF types = <<>> THEN Void ELSE TextOf(tree, Last(types)))
    IN IF ~IsMethodName(name) THEN <<>>
       ELSE << MethodMember(name, ParseParams(tree, ctx, desc.params, params),
                            ParseAnnotations(tree, ctx, ModifiersNode(tree, decl)),
                            (FlagsOf(tree, decl) \ {"final", "abstract"}) \cup Varargs(tree, params), None, desc.ret) >>

(* A broken file may have members in the body of a method.                  *)
RECURSIVE BodyMembers(_, _, _, _, _)
BodyMembers(tree, ctx, kids, i, found) ==
    IF i > Len(kids) THEN found
    ELSE LET n == kids[i]
             MemberIn(k) == IF tree[k].kind = "method_declaration" THEN ParseMethod(tree, ctx, k)
                            ELSE IF tree[k].kind = "field_declaration" THEN ParseField(tree, ctx, k) ELSE <<>>
             inner == Children(tree, n)
             misread == IF tree[n].kind = "local_variable_declaration" /\ i < Len(kids)
                        THEN IF tree[kids[i + 1]].kind = "ERROR" /\ TextOf(tree, kids[i + 1])[1] = "("
                             THEN ParseMisreadMethod(tree, ctx, n, kids[i + 1]) ELSE <<>>
                        ELSE <<>>
         IN IF tree[n].kind = "ERROR"
            THEN BodyMembers(tree, ctx, kids, i + 1,
                   found \o PartialMethodsFromError(tree, ctx, n, found)
                         \o FlattenSeq([j \in DOMAIN inner |-> MemberIn(inner[j])]))
            ELSE BodyMembers(tree, ctx, kids, IF misread = <<>> THEN i + 1 ELSE i + 2, found \o misread \o MemberIn(n))

-----------------------------------------------------------------------------
(* The members of a body: those that are well formed, then those of names   *)
(* that were not found yet, from the errors and the errors in these.        *)
ClassDeclKinds == TypeKinds \cup {"annotation_type_declaration"}
Containers == TypeBodyKinds \cup {"enum_body_declarations", "program"}

RECURSIVE ValidMembers(_, _, _, _)
ValidMembers(tree, ctx, node, nestedTypes) ==
    LET kids == Children(tree, node)
        Body(n) == LET body == Field(tree, n, "body") IN IF body = None THEN <<>> ELSE Children(tree, body)
        MembersOf(n) ==
          CASE tree[n].kind \in {"constructor_declaration", "compact_constructor_declaration"} ->
                 IF nestedTypes THEN <<>> ELSE ParseConstructor(tree, ctx, n)
            [] tree[n].kind = "method_declaration" -> BodyMembers(tree, ctx, Body(n), 1, ParseMethod(tree, ctx, n))
            [] tree[n].kind = "annotation_type_element_declaration" -> ParseAnnotationElement(tree, ctx, n)
            [] tree[n].kind = "field_declaration" -> ParseField(tree, ctx, n)
            [] tree[n].kind \in ClassDeclKinds /\ nestedTypes -> ValidMembers(tree, ctx, n, nestedTypes)
            [] tree[n].kind \in Containers -> ValidMembers(tree, ctx, n, nestedTypes)
            [] OTHER -> <<>>
    IN FlattenSeq([i \in DOMAIN kids |-> MembersOf(kids[i])])

ErrorMembers(tree, ctx, error, found) ==
    LET inner == ChildrenOfKind(tree, error, {"ERROR"})
    IN PartialMethodsFromError(tree, ctx, error, found)
       \o FlattenSeq([i \in DOMAIN inner |-> PartialMethodsFromError(tree, ctx, inner[i], found)])

ClassMembers(tree, ctx, body) ==
    LET valid == ValidMembers(tree, ctx, body, FALSE)
        errors == ChildrenOfKind(tree, body, {"ERROR"})
    IN valid \o FlattenSeq([i \in DOMAIN errors |-> ErrorMembers(tree, ctx, errors[i], valid)])
(* Without a class around them: those in nested types too.                  *)
MembersFromNode(tree, ctx, node) ==
    LET valid == ValidMembers(tree, ctx, node, TRUE)
    IN valid \o IF tree[node].kind = "ERROR" THEN ErrorMembers(tree, ctx, node, valid) ELSE <<>>

(* The comment above a declaration, line comments in between.               *)
Javadoc(tree, n) ==
    LET before == SelectSeq(Children(tree, Parent(tree, n)), LAMBDA c : c < n /\ \A d \in Within(tree, c) : d < n)
        other == {i \in DOMAIN before : tree[before[i]].kind # "line_comment"}
        nearest == IF n = Root \/ other = {} THEN None ELSE before[Max(other)]
    IN IF nearest = None THEN None
       ELSE IF tree[nearest].kind = "block_comment" /\ tree[nearest].text = "/**" THEN nearest ELSE None
=============================================================================
