---------------------------- MODULE SourceClasses ----------------------------
(***************************************************************************)
(* The classes of a Java file: their names before anything else is known,  *)
(* what the index keeps of each class, where its members are declared, and *)
(* the way back from an indexed symbol to its place in the source          *)
(* (language/java/class_parser.rs).                                        *)
(*                                                                         *)
(* An internal name is a sequence: the package, the class, and "$" and the *)
(* name for each class inside.  Members that annotations generate are the  *)
(* subject of SyntheticMembers and are left out here.                      *)
(***************************************************************************)
EXTENDS SourceMembers

LOCAL INSTANCE Integers
LOCAL INSTANCE SequencesExt
LOCAL INSTANCE FiniteSetsExt

ExtractPackage(tree) ==
    LET decls == {n \in DOMAIN tree : tree[n].kind = "package_declaration"}
    IN IF decls = {} THEN <<>>
       ELSE SelectSeq(TextOf(tree, Min(decls)), LAMBDA t : t \notin {"package", ".", ";"})
InternalName(pkg, names) ==
    pkg \o FoldLeft(LAMBDA long, name : IF long = <<>> THEN <<name>> ELSE long \o <<"$", name>>, <<>>, names)

-----------------------------------------------------------------------------
(* The type declarations that are reached from the root, each with those    *)
(* around it.  What is found is put on a stack, so that the last body is    *)
(* searched first; nothing is looked for in a declaration without a name.   *)
RECURSIVE Reach(_, _, _, _)
Reach(tree, named, stack, found) ==
    IF stack = <<>> THEN found
    ELSE LET top == Last(stack)
             kids == Children(tree, top.node)
             IsDecl(n) == tree[n].kind \in ClassDeclKinds
             decls == SelectSeq(kids, LAMBDA n : IsDecl(n) /\ n \in named)
             Below(n) == IF ~IsDecl(n) THEN << [node |-> n, outer |-> top.outer] >>
                         ELSE IF n \in named /\ Field(tree, n, "body") # None
                         THEN << [node |-> Field(tree, n, "body"), outer |-> Append(top.outer, n)] >> ELSE <<>>
         IN Reach(tree, named, Front(stack) \o FlattenSeq([i \in DOMAIN kids |-> Below(kids[i])]),
                  found \o [i \in DOMAIN decls |-> [node |-> decls[i], outer |-> top.outer]])
TypesReached(tree, named) == Reach(tree, named, << [node |-> Root, outer |-> <<>>] >>, <<>>)

(* "class C" among the nodes of an error.                                   *)
FindTopErrorNode(tree) == FirstOfKind(tree, Root, {"ERROR"})
RecoverErrorTypeDecl(tree, error) ==
    LET kids == Children(tree, error)
        at == {i \in 1..(Len(kids) - 1) : /\ tree[kids[i]].kind \in {"class", "interface", "enum", "record"}
                                          /\ tree[kids[i + 1]].kind = "identifier"}
    IN IF at = {} THEN None ELSE [kind |-> tree[kids[Min(at)]].kind, name |-> tree[kids[Min(at) + 1]].text]
Recovered(tree) == IF FindTopErrorNode(tree) = None THEN None ELSE RecoverErrorTypeDecl(tree, FindTopErrorNode(tree))

(* The names alone, from the first identifiers.                             *)
DiscoverNames(tree) ==
    LET named == {n \in DOMAIN tree : NameIn(tree, n) # None}
        found == TypesReached(tree, named)
        Internal(f) == InternalName(ExtractPackage(tree), [i \in DOMAIN f.outer |-> NameIn(tree, f.outer[i])] \o <<NameIn(tree, f.node)>>)
    IN IF found # <<>> THEN [i \in DOMAIN found |-> Internal(found[i])]
       ELSE IF Recovered(tree) = None THEN <<>> ELSE << InternalName(ExtractPackage(tree), <<Recovered(tree).name>>) >>

(* What types are resolved with: imported classes, given by simple names,   *)
(* then the classes discovered in the file.  A class in a class is not      *)
(* found by its simple name.                                                *)
SourceTypeCtx(tree, imported, upper) ==
    LET pkg == ExtractPackage(tree)
        top == {name \in ToSet(DiscoverNames(tree)) : Len(name) = Len(pkg) + 1}
        simple == {Last(name) : name \in top} \ DOMAIN imported
    IN [pkg |-> pkg, upper |-> upper,
        known |-> [x \in DOMAIN imported \cup simple |-> IF x \in DOMAIN imported THEN imported[x] ELSE pkg \o <<x>>]]

-----------------------------------------------------------------------------
(* Superclasses and interfaces.                                             *)
DeclarationKind(tree, n, recovered) ==
    LET kind == IF recovered # None THEN recovered ELSE tree[n].kind
    IN CASE kind \in {"class", "class_declaration"} -> "class"
         [] kind \in {"interface", "interface_declaration"} -> "interface"
         [] kind \in {"enum", "enum_declaration"} -> "enum"
         [] kind \in {"record", "record_declaration"} -> "record"
         [] kind = "annotation_type_declaration" -> "annotation"
         [] OTHER -> None
DefaultSuperName(kind) ==
    CASE kind \in {"class", "annotation"} -> ObjectName
      [] kind = "enum" -> <<"java", "lang", "Enum">>
      [] kind = "record" -> <<"java", "lang", "Record">>
      [] OTHER -> None
AnnotationInterface == <<"java", "lang", "annotation", "Annotation">>
DefaultInterfaces(kind) == IF kind = "annotation" THEN <<AnnotationInterface>> ELSE <<>>

(* The types in a clause.                                                   *)
TypesInList(tree, list) ==
    LET types == SelectSeq(Children(tree, list), LAMBDA c : IsNamed(tree, c)) IN [i \in DOMAIN types |-> TextOf(tree, types[i])]
SingleTypeFromClause(tree, clause) ==
    LET first == FirstOrNone(SelectSeq(Children(tree, clause), LAMBDA c : IsNamed(tree, c)))
    IN IF tree[clause].kind = "type_list" THEN FirstOrNone(TypesInList(tree, clause))
       ELSE IF first = None THEN None
       ELSE IF tree[first].kind = "type_list" THEN FirstOrNone(TypesInList(tree, first)) ELSE TextOf(tree, first)
TypeListFromClause(tree, clause) ==
    LET list == IF tree[clause].kind = "type_list" THEN clause ELSE FirstOfKind(tree, clause, {"type_list"})
        single == SingleTypeFromClause(tree, clause)
    IN IF list # None /\ (list = clause \/ TypesInList(tree, list) # <<>>) THEN TypesInList(tree, list)
       ELSE IF single = None THEN <<>> ELSE <<single>>

(* The places of a text outside of all brackets.                            *)
TopLevel(s) ==
    LET opens == [angle |-> "<", paren |-> "(", square |-> "["]
        closes == [angle |-> ">", paren |-> ")", square |-> "]"]
        Read(state, i) ==
          [at |-> IF \A b \in DOMAIN opens : state.depth[b] = 0 THEN state.at \cup {i} ELSE state.at,
           depth |-> [b \in DOMAIN opens |-> IF s[i] = opens[b] THEN state.depth[b] + 1
                                             ELSE IF s[i] = closes[b] /\ state.depth[b] > 0 THEN state.depth[b] - 1
                                             ELSE state.depth[b]]]
    IN FoldLeft(Read, [at |-> {}, depth |-> [b \in DOMAIN opens |-> 0]], [i \in DOMAIN s |-> i]).at

(* The same from the text before the body.                                  *)
DeclarationHeaderText(tree, n) ==
    LET body == Field(tree, n, "body")
        text == TextOf(tree, n)
        brace == {i \in DOMAIN text : text[i] = "{"}
    IN IF body # None THEN SubSeq(text, 1, Len(text) - Len(TextOf(tree, body)))
       ELSE IF brace = {} THEN text ELSE SubSeq(text, 1, Min(brace) - 1)
HeaderClause(header, keyword, stops) ==
    LET starts == {i \in TopLevel(header) : header[i] = keyword}
        rest == SubSeq(header, Min(starts) + 1, Len(header))
        ends == {i \in TopLevel(rest) : rest[i] \in stops \cup {"{", ";"}}
        payload == IF ends = {} THEN rest ELSE SubSeq(rest, 1, Min(ends) - 1)
        commas == {i \in TopLevel(payload) : payload[i] = ","}
        AddToken(ps, i) == IF i \in commas THEN Append(ps, <<>>) ELSE [ps EXCEPT ![Len(ps)] = Append(@, payload[i])]
    IN IF starts = {} THEN <<>>
       ELSE SelectSeq(FoldLeft(AddToken, << <<>> >>, [i \in DOMAIN payload |-> i]), LAMBDA p : p # <<>>)
InheritanceFromHeader(header, kind) ==
    [super |-> IF kind = "class" THEN FirstOrNone(HeaderClause(header, "extends", {"implements", "permits"})) ELSE None,
     interfaces |-> CASE kind \in {"class", "enum", "record"} -> HeaderClause(header, "implements", {"permits"})
                      [] kind = "interface" -> HeaderClause(header, "extends", {"permits"})
                      [] OTHER -> <<>>]

InheritanceFromClauses(tree, n, kind) ==
    LET extends == Field(tree, n, "superclass")
        implements == CASE kind \in {"class", "enum", "record"} -> Field(tree, n, "interfaces")
                        [] kind = "interface" -> FirstOfKind(tree, n, {"extends_interfaces"})
                        [] OTHER -> None
    IN [super |-> IF kind # "class" \/ extends = None THEN None ELSE SingleTypeFromClause(tree, extends),
        interfaces |-> IF implements = None THEN <<>> ELSE TypeListFromClause(tree, implements)]
DeclaredInheritance(tree, n, kind) ==
    LET clauses == InheritanceFromClauses(tree, n, kind)
        header == InheritanceFromHeader(DeclarationHeaderText(tree, n), kind)
    IN [super |-> IF clauses.super = None THEN header.super ELSE clauses.super,
        interfaces |-> IF clauses.interfaces = <<>> THEN header.interfaces ELSE clauses.interfaces]
SuperNameAndInterfaces(tree, ctx, n, kind) ==
    LET declared == DeclaredInheritance(tree, n, kind)
        interfaces == declared.interfaces \o DefaultInterfaces(kind)
    IN [super |-> IF declared.super = None THEN DefaultSuperName(kind) ELSE ResolveName(ctx, declared.super),
        interfaces |-> [i \in DOMAIN interfaces |-> ResolveName(ctx, interfaces[i])]]

-----------------------------------------------------------------------------
(* Generic signatures.                                                      *)
ClassSignature(tree, ctx, n, internal, kind) ==
    LET tparams == ExtractTypeParameters(tree, ctx, n)
        declared == DeclaredInheritance(tree, n, kind)
        interfaces == [i \in DOMAIN declared.interfaces |-> SourceTypeToSignature(ctx, declared.interfaces[i])]
        IsGeneric(type) == type # None /\ "<" \in ToSet(type)
        DefaultSuper == IF kind = "enum" THEN Generic!Object(<<"java", "lang", "Enum">>, <<Generic!Object(internal, <<>>)>>)
                        ELSE Generic!Object(IF kind = "record" THEN DefaultSuperName(kind) ELSE ObjectName, <<>>)
    IN IF tparams = <<>> /\ \A type \in {declared.super} \cup ToSet(declared.interfaces) : ~IsGeneric(type) THEN None
       ELSE [tparams |-> tparams,
             super |-> IF declared.super = None THEN DefaultSuper ELSE SourceTypeToSignature(ctx, declared.super),
             interfaces |-> interfaces \o IF kind = "annotation" THEN <<Generic!Object(AnnotationInterface, <<>>)>> ELSE <<>>]

(* A method without a signature has one made of its descriptor, if that     *)
(* names a type variable of the class.                                      *)
TypeVarOrClass(desc, tvars) ==
    Dimensioned(IF desc.name \in {<<v>> : v \in tvars} THEN Generic!TypeVar(desc.name)
                ELSE IF desc.name \in {<<p>> : p \in PrimitiveNames} THEN Generic!Jvm("prim", desc.name, <<>>)
                ELSE Generic!Object(desc.name, <<>>), desc.dims)
ClassTypeVarMethodSignature(method, tvars) ==
    LET desc == DescriptorOf(method)
    IN IF ~\E d \in ToSet(desc.params) \cup {desc.ret} : d.name \in {<<v>> : v \in tvars} THEN None
       ELSE [tparams |-> <<>>, params |-> [i \in DOMAIN desc.params |-> TypeVarOrClass(desc.params[i], tvars)],
             ret |-> TypeVarOrClass(desc.ret, tvars)]
WithClassTypeVars(members, signature) ==
    LET tvars == IF signature = None THEN {} ELSE {p.name : p \in ToSet(signature.tparams)}
    IN [i \in DOMAIN members |->
          IF members[i].kind = "field" THEN members[i]
          ELSE [members[i] EXCEPT !.generic = IF @ # None THEN @ ELSE ClassTypeVarMethodSignature(members[i], tvars)]]

-----------------------------------------------------------------------------
(* Classes.                                                                 *)
KindFlags(kind) ==
    CASE kind \in {"class", "record"} -> {"super"}
      [] kind = "enum" -> {"enum", "super"}
      [] kind = "interface" -> {"interface"}
      [] kind = "annotation" -> {"interface", "annotation"}
      [] OTHER -> {}
AccessFlags(tree, n, kind) == (IF ModifiersNode(tree, n) = None THEN {"public"} ELSE FlagsOf(tree, n)) \cup KindFlags(kind)

(* An annotation type has the annotations of its elements as well.          *)
TargetName == <<"java", "lang", "annotation", "Target">>
ClassAnnotations(tree, ctx, n) ==
    LET all == SelectSeq(ParseAnnotations(tree, ctx, n), LAMBDA a : a.name # TargetName \/ "value" \in DOMAIN a.elements)
        inModifiers == ParseAnnotations(tree, ctx, ModifiersNode(tree, n))
        body == Field(tree, n, "body")
        direct == SelectSeq(Children(tree, n), LAMBDA c : /\ tree[c].kind \in Annotations /\ Field(tree, c, "name") # None
                                                          /\ body # None => c < body)
    IN IF tree[n].kind = "annotation_type_declaration" /\ all # <<>> THEN all
       ELSE IF inModifiers # <<>> THEN inModifiers
       ELSE [i \in DOMAIN direct |-> ParseAnnotation(tree, ctx, direct[i])]

ParseClass(tree, ctx, n, outer) ==
    LET name == NameOf(tree, n)
        internal == IF outer = None THEN ctx.pkg \o <<name>> ELSE outer \o <<"$", name>>
        kind == DeclarationKind(tree, n, None)
        inherited == SuperNameAndInterfaces(tree, ctx, n, kind)
        members == IF Field(tree, n, "body") = None THEN <<>> ELSE ClassMembers(tree, ctx, Field(tree, n, "body"))
        signature == ClassSignature(tree, ctx, n, internal, kind)
    IN [name |-> internal, outer |-> outer, super |-> inherited.super, interfaces |-> inherited.interfaces,
        members |-> WithClassTypeVars(members, signature), flags |-> AccessFlags(tree, n, kind),
        annos |-> ClassAnnotations(tree, ctx, n), signature |-> signature]

(* The class of a broken file, with all members in the error; its modifiers *)
(* are those before the keyword.                                            *)
ParseErrorClass(tree, ctx, error) ==
    LET decl == RecoverErrorTypeDecl(tree, error)
        internal == ctx.pkg \o <<decl.name>>
        inherited == SuperNameAndInterfaces(tree, ctx, error, decl.kind)
        signature == ClassSignature(tree, ctx, error, internal, decl.kind)
        first == FirstOfKind(tree, error, {"modifiers", "class", "interface", "enum", "record"})
        hasModifiers == tree[first].kind = "modifiers"
    IN [name |-> internal, outer |-> None, super |-> inherited.super, interfaces |-> inherited.interfaces,
        members |-> WithClassTypeVars(MembersFromNode(tree, ctx, error), signature),
        flags |-> (IF hasModifiers THEN FlagsOf(tree, error) ELSE {"public"}) \cup KindFlags(decl.kind),
        annos |-> IF hasModifiers THEN ParseAnnotations(tree, ctx, first) ELSE <<>>, signature |-> signature]

CollectClasses(tree, ctx) ==
    LET found == TypesReached(tree, {n \in DOMAIN tree : NameOf(tree, n) # None})
        Internal(ns) == InternalName(ctx.pkg, [i \in DOMAIN ns |-> NameOf(tree, ns[i])])
    IN [i \in DOMAIN found |->
          ParseClass(tree, ctx, found[i].node, IF found[i].outer = <<>> THEN None ELSE Internal(found[i].outer))]

(* Simple names in the descriptors are resolved once more, among the        *)
(* classes of the file; only the returned type may have many dimensions.    *)
Refined(known, desc, maxDims) ==
    IF desc.dims <= maxDims /\ Len(desc.name) = 1 /\ desc.name[1] \in DOMAIN known THEN [desc EXCEPT !.name = known[desc.name[1]]]
    ELSE desc
RefineMember(known, m) ==
    IF m.kind = "field" THEN [m EXCEPT !.desc = Refined(known, @, 0)]
    ELSE [m EXCEPT !.params = [i \in DOMAIN @ |-> [@[i] EXCEPT !.desc = Refined(known, @, 1)]],
                   !.ret = Refined(known, @, @.dims)]
RefineSourceMetadata(pkg, classes) ==
    LET top == {c \in ToSet(classes) : Len(c.name) = Len(pkg) + 1}
        known == [x \in {Last(c.name) : c \in top} |-> pkg \o <<x>>]
    IN [i \in DOMAIN classes |->
          [classes[i] EXCEPT !.members = [j \in DOMAIN @ |-> RefineMember(known, @[j])]]]

ExtractClasses(tree, ctx) ==
    LET found == CollectClasses(tree, ctx)
    IN IF found # <<>> THEN found
       ELSE IF Recovered(tree) = None THEN <<>> ELSE <<ParseErrorClass(tree, ctx, FindTopErrorNode(tree))>>

-----------------------------------------------------------------------------
(* Declarations: the place of every name.                                   *)
DeclarationReturnKinds == FieldTypeKinds
FieldTypeText(tree, n) == FirstOfKind(tree, n, FieldTypeKinds)
DeclaredMember(tree, kind, name, desc, at) == [kind |-> kind, name |-> name, desc |-> desc, at |-> at]
RECURSIVE MemberDeclarations(_, _, _)
MemberDeclarations(tree, ctx, body) ==
    LET kids == Children(tree, body)
        Return(n, default) == DeclaredReturnType(tree, n, DeclarationReturnKinds, default)
        Method(n) ==
          IF DeclaredName(tree, n) = None \/ ~IsMethodName(tree[DeclaredName(tree, n)].text) THEN <<>>
          ELSE << DeclaredMember(tree, "method", tree[DeclaredName(tree, n)].text,
                    BuildDescriptor(ctx, ParamsText(tree, FirstOfKind(tree, n, {"formal_parameters"})), Return(n, Void)),
                    DeclaredName(tree, n)) >>
        Constructor(n) ==
          IF DeclaredName(tree, n) = None THEN <<>>
          ELSE << DeclaredMember(tree, "method", InitName, BuildDescriptor(ctx, ParamsText(tree, ConstructorParams(tree, n)), Void),
                                 DeclaredName(tree, n)) >>
        Element(n) ==
          IF DeclaredName(tree, n) = None \/ Return(n, <<>>) = <<>> THEN <<>>
          ELSE IF tree[DeclaredName(tree, n)].text \in Keywords THEN <<>>
          ELSE << DeclaredMember(tree, "method", tree[DeclaredName(tree, n)].text, BuildDescriptor(ctx, <<"(", ")">>, Return(n, <<>>)),
                                 DeclaredName(tree, n)) >>
        Fields(n) ==
          LET declarators == SelectSeq(ChildrenOfKind(tree, n, {"variable_declarator"}), LAMBDA d :
                               DeclaredName(tree, d) # None /\ tree[DeclaredName(tree, d)].text \notin Keywords)
          IN IF FieldTypeText(tree, n) = None THEN <<>>
             ELSE [i \in DOMAIN declarators |->
                     DeclaredMember(tree, "field", tree[DeclaredName(tree, declarators[i])].text, None, DeclaredName(tree, declarators[i]))]
        Of(n) == CASE tree[n].kind = "method_declaration" -> Method(n)
                   [] tree[n].kind \in {"constructor_declaration", "compact_constructor_declaration"} -> Constructor(n)
                   [] tree[n].kind = "annotation_type_element_declaration" -> Element(n)
                   [] tree[n].kind = "field_declaration" -> Fields(n)
                   [] tree[n].kind \in {"enum_body_declarations", "ERROR"} -> MemberDeclarations(tree, ctx, n)
                   [] OTHER -> <<>>
    IN FlattenSeq([i \in DOMAIN kids |-> Of(kids[i])])

(* An annotation type is not among the types around a declaration, so that  *)
(* inside of another type it has the name of that.                          *)
DeclarationInternalName(tree, pkg, n, outer) ==
    LET chain == ExtractEnclosingInternalName(tree, n)
        names == [i \in DOMAIN outer |-> tree[DeclaredName(tree, outer[i])].text] \o <<tree[DeclaredName(tree, n)].text>>
    IN InternalName(pkg, IF chain # None THEN chain ELSE names)
CollectDeclarations(tree, ctx) ==
    LET found == TypesReached(tree, {n \in DOMAIN tree : DeclaredName(tree, n) # None})
    IN [i \in DOMAIN found |->
          [name |-> DeclarationInternalName(tree, ctx.pkg, found[i].node, found[i].outer), at |-> DeclaredName(tree, found[i].node),
           members |-> IF Field(tree, found[i].node, "body") = None THEN <<>>
                       ELSE MemberDeclarations(tree, ctx, Field(tree, found[i].node, "body"))]]

-----------------------------------------------------------------------------
(* From a symbol to its node.  Of several classes of one name the last, or  *)
(* the outermost, is found.                                                 *)
FindClassNode(tree, target) ==
    LET pkg == ExtractPackage(tree)
        Internal(n) == LET chain == ExtractEnclosingInternalName(tree, n)
                       IN IF chain # None THEN InternalName(pkg, chain)
                          ELSE IF NameIn(tree, n) # None THEN pkg \o <<NameIn(tree, n)>> ELSE None
        matching == {n \in DOMAIN tree : tree[n].kind \in ClassDeclKinds /\ Internal(n) = target}
        First(n) == \A m \in matching \ {n} : m \in Within(tree, n) \/ (n \notin Within(tree, m) /\ m < n)
    IN IF matching = {} THEN None ELSE CHOOSE n \in matching : First(n)

MemberKinds == MethodKinds
ActualDescriptor(tree, ctx, n) ==
    LET compact == tree[n].kind = "compact_constructor_declaration"
        types == IF compact THEN <<>> ELSE ChildrenOfKind(tree, n, DeclarationReturnKinds)
        lists == ChildrenOfKind(tree, n, {"formal_parameters"})
        params == IF compact THEN ConstructorParams(tree, n) ELSE IF lists = <<>> THEN None ELSE Last(lists)
    IN BuildDescriptor(ctx, ParamsText(tree, params), IF types = <<>> THEN Void ELSE TextOf(tree, Last(types)))
(* A method by name and descriptor, or by name alone if there is only one;  *)
(* without a descriptor what comes first, a field if its name is anywhere   *)
(* in the declaration.                                                      *)
RECURSIVE FindMemberNode(_, _, _, _, _)
FindMemberNode(tree, ctx, body, name, desc) ==
    LET kids == Children(tree, body)
        IsNamesake(n) == /\ tree[n].kind \in MemberKinds
                         /\ \/ NameOf(tree, n) = name
                            \/ tree[n].kind # "method_declaration" /\ name = InitName
        Found(n) ==
          IF IsNamesake(n) THEN IF desc = None \/ ActualDescriptor(tree, ctx, n) = desc THEN n ELSE None
          ELSE IF tree[n].kind = "field_declaration" /\ desc = None /\ name \in ToSet(TextOf(tree, n)) THEN n
          ELSE IF tree[n].kind \in {"enum_body_declarations", "ERROR"} THEN FindMemberNode(tree, ctx, n, name, desc) ELSE None
        found == SelectSeq([i \in DOMAIN kids |-> Found(kids[i])], LAMBDA n : n # None)
        namesakes == SelectSeq(kids, IsNamesake)
    IN IF found # <<>> THEN found[1]
       ELSE IF desc # None /\ Len(namesakes) = 1 THEN namesakes[1] ELSE None

FindSymbol(tree, ctx, target, name, desc) ==
    LET class == FindClassNode(tree, target)
        body == IF class = None THEN None ELSE Field(tree, class, "body")
    IN IF class = None THEN None ELSE IF name = None THEN class
       ELSE IF body = None THEN None ELSE FindMemberNode(tree, ctx, body, name, desc)
FindSymbolRange(tree, ctx, target, name, desc) ==
    LET n == FindSymbol(tree, ctx, target, name, desc)
        focus == IF n = None THEN None ELSE IF Field(tree, n, "name") # None THEN Field(tree, n, "name") ELSE n
    IN IF focus = None THEN None ELSE [from |-> tree[focus].from, to |-> tree[focus].to]
(* The comment of a symbol is looked for without the index.                 *)
JavadocOnTheFly(tree, target, name, desc) ==
    LET n == FindSymbol(tree, [pkg |-> ExtractPackage(tree), upper |-> {}, known |-> <<>>], target, name, desc)
    IN IF n = None THEN None ELSE Javadoc(tree, n)
-----------------------------------------------------------------------------
(* What is true of the classes that are read from a file.                   *)
DeclsByTheBook(tree) == {n \in DOMAIN tree : tree[n].kind \in ClassDeclKinds /\ NameOf(tree, n) # None}
NameByTheBook(tree, n) ==
    LET decls == SelectSeq(tree[n].path, LAMBDA a : tree[a].kind \in ClassDeclKinds)
    IN InternalName(ExtractPackage(tree), Reverse([i \in DOMAIN decls |-> NameOf(tree, decls[i])]))
NearAnnotationType(tree, n) == Enclosing(tree, n, {"annotation_type_declaration"}) # None
HasError(tree, n) == \E k \in Within(tree, n) : tree[k].kind = "ERROR"

(* The names that are discovered, the classes that are indexed and the      *)
(* types that are declared are the same, those of the source, and lead back *)
(* to it; annotation types do not if there are others around or in them.    *)
ClassNamesAgree(tree, ctx, classes) ==
    LET declared == CollectDeclarations(tree, ctx)
        names == [i \in DOMAIN classes |-> classes[i].name]
        decls == DeclsByTheBook(tree)
    IN /\ DiscoverNames(tree) = names
       /\ decls # {} => ToSet(names) = {NameByTheBook(tree, n) : n \in decls}
       /\ \A n \in decls : ~NearAnnotationType(tree, n) =>
            /\ \E i \in DOMAIN declared : declared[i].name = NameByTheBook(tree, n) /\ declared[i].at = Field(tree, n, "name")
            /\ LET found == FindSymbol(tree, ctx, NameByTheBook(tree, n), None, None)
               IN found \in decls /\ NameByTheBook(tree, found) = NameByTheBook(tree, n)
       /\ \A i \in DOMAIN classes : classes[i].outer # None => classes[i].outer \in ToSet(names)

(* The members of a declaration as it stands in the source, by their nodes. *)
MemberNodes(tree, body) ==
    LET Direct(n) == \A a \in ToSet(Tail(tree[n].path)) : a > body => tree[a].kind = "enum_body_declarations"
    IN {n \in Within(tree, body) :
          /\ n > body /\ Direct(n)
          /\ tree[n].kind \in MethodKinds \cup {"field_declaration", "annotation_type_element_declaration"}}
NamesByNode(tree, n) ==
    LET declarators == ChildrenOfKind(tree, n, {"variable_declarator"})
    IN CASE tree[n].kind = "field_declaration" -> [i \in DOMAIN declarators |-> NameOf(tree, declarators[i])]
         [] tree[n].kind \in {"constructor_declaration", "compact_constructor_declaration"} -> <<InitName>>
         [] OTHER -> <<NameOf(tree, n)>>
ClassFor(tree, classes, n) == classes[CHOOSE i \in DOMAIN classes : classes[i].name = NameByTheBook(tree, n)]

(* Of a body without errors exactly its members are read, in their order,   *)
(* with their parameters' names; an error hides no other member, and what   *)
(* an error between members still shows comes last and has no name that     *)
(* one of them has.                                                         *)
MembersByTheBook(tree, class, n) ==
    LET body == Field(tree, n, "body")
        nodes == SetToSortSeq(MemberNodes(tree, body), LAMBDA a, b : a < b)
        expected == FlattenSeq([i \in DOMAIN nodes |-> NamesByNode(tree, nodes[i])])
        names == [i \in DOMAIN class.members |-> class.members[i].name]
    IN /\ ~HasError(tree, body) => names = expected
       /\ IF \A m \in ToSet(nodes) : ~HasError(tree, m)
          THEN /\ SelectSeq(names, LAMBDA x : x \in ToSet(expected)) = expected
               /\ IsPrefix(expected, names)
          ELSE ToSet(expected) \subseteq ToSet(names)

(* Every method read is declared where it stands, found again there by its  *)
(* descriptor, and has the parameters that are written.                     *)
HasScopedType(tree, n) == FirstOfKind(tree, n, {"scoped_type_identifier"}) # None
HasDimensions(tree, n) == Field(tree, n, "dimensions") # None
Repeated(tree, n, nodes) ==
    \E m \in nodes \ {n} : NamesByNode(tree, m) = NamesByNode(tree, n)
                          /\ TextOf(tree, Field(tree, m, "parameters")) = TextOf(tree, Field(tree, n, "parameters"))
ManyArguments(tree, n) == \E a \in Within(tree, n) : tree[a].kind = "annotation_argument_list" /\ "," \in ToSet(TextOf(tree, a))
MembersFoundAgain(tree, ctx, class, n) ==
    LET declared == MemberDeclarations(tree, ctx, Field(tree, n, "body"))
        methods == {m \in MemberNodes(tree, Field(tree, n, "body")) : tree[m].kind \in MethodKinds}
    IN \A m \in methods :
         LET params == IF ConstructorParams(tree, m) = None THEN <<>> ELSE ParamNodes(tree, ConstructorParams(tree, m))
             same == {i \in DOMAIN class.members : /\ class.members[i].kind = "method" /\ class.members[i].name = NamesByNode(tree, m)[1]
                                                   /\ Len(class.members[i].params) = Len(params)}
         IN ManyArguments(tree, m) \/ HasScopedType(tree, m) \/ Repeated(tree, m, methods) \/ \E i \in same :
              LET read == class.members[i] IN
              /\ \A p \in DOMAIN params :
                   /\ read.params[p].name = ParamName(tree, params[p])
                   /\ read.params[p].desc = Descriptor(ctx, TextOf(tree, Field(tree, params[p], "type"))
                        \o IF tree[params[p]].kind = "spread_parameter" THEN <<"...">> ELSE <<>>)
              /\ \E d \in ToSet(declared) : d.name = read.name /\ d.desc = DescriptorOf(read) /\ d.at = Field(tree, m, "name")
              /\ HasDimensions(tree, m) \/
                 FindSymbolRange(tree, ctx, class.name, read.name, DescriptorOf(read))
                   = [from |-> tree[Field(tree, m, "name")].from, to |-> tree[Field(tree, m, "name")].to]

(* The header says of superclasses and interfaces what the clauses say.     *)
HeaderAgrees(tree, n) ==
    LET kind == DeclarationKind(tree, n, None)
    IN InheritanceFromHeader(DeclarationHeaderText(tree, n), kind) = InheritanceFromClauses(tree, n, kind)

(* A class' type parameter is one in the methods' signatures, unless a      *)
(* class of its name is known.                                              *)
ClassTypeVarsKept(ctx, class) ==
    LET tvars == IF class.signature = None THEN {} ELSE {p.name : p \in ToSet(class.signature.tparams)} \ DOMAIN ctx.known
    IN \A m \in ToSet(class.members) :
         m.kind = "method" /\ m.name # InitName =>
           \A i \in DOMAIN m.params : m.params[i].desc.name \in {<<v>> : v \in tvars \cap ctx.upper} =>
             /\ m.generic # None
             /\ m.generic.params[i] = Dimensioned(Generic!TypeVar(m.params[i].desc.name), m.params[i].desc.dims)

(* Classes in different methods may have the same name.                     *)
IsOnlyOne(tree, n) == \A other \in DeclsByTheBook(tree) \ {n} : NameByTheBook(tree, other) # NameByTheBook(tree, n)

SourceRead(tree, ctx) ==
    LET classes == ExtractClasses(tree, ctx) IN
    /\ ClassNamesAgree(tree, ctx, classes)
    /\ RefineSourceMetadata(ctx.pkg, classes) = classes
    /\ \A n \in DeclsByTheBook(tree) :
         /\ HeaderAgrees(tree, n)
         /\ Field(tree, n, "body") # None /\ IsOnlyOne(tree, n) =>
              \A class \in {ClassFor(tree, classes, n)} :
                /\ MembersByTheBook(tree, class, n) /\ ClassTypeVarsKept(ctx, class)
                /\ ~NearAnnotationType(tree, n) => MembersFoundAgain(tree, ctx, class, n)
=============================================================================
