--------------------------- MODULE CursorLocations ---------------------------
(***************************************************************************)
(* What the cursor stands at: the place of the node under it in the syntax *)
(* tree decides what is completed, and with which prefix.  Each ancestor   *)
(* of the node is asked by its kind, up to the block, class body or file   *)
(* around it.                                                              *)
(***************************************************************************)
EXTENDS LocationRecovery

LOCAL INSTANCE SequencesExt
LOCAL INSTANCE FiniteSetsExt

FindCursorNode(ctx) ==
    LET tree == ctx.tree
        before == NamedDescendant(tree, IF ctx.offset = 0 THEN 0 ELSE ctx.offset - 1, ctx.offset)
        after == NamedDescendant(tree, ctx.offset, ctx.offset + 1)
        forward == IF ctx.offset < tree[Root].to /\ ~LineBreakAt(ctx, ctx.offset) /\ ~IsExtra(tree, after) THEN after ELSE None
    IN IF IsExtra(tree, before) \/ tree[before].to < ctx.offset THEN forward
       ELSE IF tree[before].kind = "program" THEN forward
       ELSE IF tree[before].kind = "lambda_expression" THEN OrElse(forward, before)
       ELSE before

JumpKind(stmt) == IF stmt.kind = "break_statement" THEN "Break" ELSE "Continue"
JumpStatements == {"break_statement", "continue_statement"}
Containers == {"block", "class_body", "program"}
MembersOf == {"method_invocation", "field_access"}
IdentifierKinds == Names \cup {"this", "super"}

ExtractStringPrefix(ctx, str) == CursorTruncatedText(ctx, str)

(* A label after break or continue, in the tree or in the text.             *)
JumpStatementLocation(ctx, stmt) ==
    LET tree == ctx.tree
        label == FirstOfKind(tree, stmt, {"identifier"})
        keyword == FirstToken(tree, stmt)
    IN IF label # None
       THEN IF ctx.offset < tree[label].from \/ ctx.offset > tree[label].to THEN None
            ELSE StatementLabel(JumpKind(tree[stmt]), CursorTruncatedText(ctx, label))
       ELSE IF ctx.offset < tree[keyword].to \/ ctx.offset >= tree[stmt].to THEN None
       ELSE StatementLabel(JumpKind(tree[stmt]), Trim(Slice(ctx, tree[keyword].to, ctx.offset)))
DetectPartialJumpLabel(ctx, node) ==
    LET tree == ctx.tree
        scope == Enclosing(tree, node, {"block", "switch_block_statement_group", "switch_rule", "program", "method_declaration",
                   "constructor_declaration", "compact_constructor_declaration", "lambda_expression", "class_body"})
        lower == IF scope = None THEN 0 ELSE tree[scope].from
        Jump(text) == IF EndsWith(text, "break") THEN "Break" ELSE IF EndsWith(text, "continue") THEN "Continue" ELSE None
        before == TrimEnd(Slice(ctx, lower, ctx.offset))
        prefix == ExtractIdentifierPrefixNearCursor(ctx, lower)
        head == TrimEnd(Front(before))
    IN IF Jump(before) # None THEN StatementLabel(Jump(before), <<>>)
       ELSE IF prefix = <<>> THEN None
       ELSE IF Jump(head) = None THEN None
       ELSE StatementLabel(Jump(head), prefix)
DetectStatementLabel(ctx, node) ==
    LET stmt == Enclosing(ctx.tree, node, JumpStatements)
    IN IF stmt # None THEN JumpStatementLocation(ctx, stmt) ELSE DetectPartialJumpLabel(ctx, node)
HandleJumpStatement(ctx, stmt) ==
    LET tree == ctx.tree
        label == FirstOfKind(tree, stmt, {"identifier"})
    IN IF label # None
       THEN IF ctx.offset < tree[label].from \/ ctx.offset > tree[label].to THEN None
            ELSE StatementLabel(JumpKind(tree[stmt]), CursorTruncatedText(ctx, label))
       ELSE IF ctx.offset <= tree[FirstToken(tree, stmt)].to THEN None
       ELSE StatementLabel(JumpKind(tree[stmt]), <<>>)

-----------------------------------------------------------------------------
(* Annotations and imports.                                                 *)
TargetOfKind(tree, n) ==
    LET kind == tree[n].kind IN
    CASE kind \in {"class_declaration", "interface_declaration", "enum_declaration", "annotation_type_declaration", "record_declaration"} -> "TYPE"
      [] kind = "method_declaration" -> "METHOD"
      [] kind = "field_declaration" -> "FIELD"
      [] kind \in {"formal_parameter", "spread_parameter"} ->
           IF n # Root /\ tree[Parent(tree, n)].kind = "record_declaration" THEN "RECORD_COMPONENT" ELSE "PARAMETER"
      [] kind \in {"constructor_declaration", "compact_constructor_declaration"} -> "CONSTRUCTOR"
      [] kind = "local_variable_declaration" -> "LOCAL_VARIABLE"
      [] OTHER -> None
InferAnnotationTarget(tree, annotation) ==
    LET path == Tail(tree[annotation].path)
        ends == {i \in DOMAIN path : TargetOfKind(tree, path[i]) # None \/ tree[path[i]].kind \in {"ERROR"} \cup Containers}
    IN IF ends = {} THEN None ELSE TargetOfKind(tree, path[Min(ends)])
HandleAnnotation(ctx, n) ==
    LET name == Field(ctx.tree, n, "name")
    IN [Location("Annotation", IF name = None THEN <<>> ELSE CursorTruncatedText(ctx, name))
          EXCEPT !.about = <<"target", InferAnnotationTarget(ctx.tree, n)>>]

Pairs(tree, list) == ChildrenOfKind(tree, list, {"element_value_pair"})
Key(tree, pair) == Field(tree, pair, "key")
CollectAnnotationParamKeys(ctx, list, skip) ==
    LET Add(keys, pair) ==
          LET key == Key(ctx.tree, pair) IN
          IF pair = skip \/ key = None THEN keys
          ELSE IF NodeText(ctx, key) \in ToSet(keys) THEN keys ELSE Append(keys, NodeText(ctx, key))
    IN FoldLeft(Add, <<>>, Pairs(ctx.tree, list))
AnnotationParam(ctx, list, prefix, skip, fresh) ==
    LET name == Field(ctx.tree, Parent(ctx.tree, list), "name")
    IN [Location("AnnotationParam", prefix) EXCEPT
          !.about = << IF name = None THEN None ELSE NodeText(ctx, name), CollectAnnotationParamKeys(ctx, list, skip), fresh >>]
(* After a comma or an open bracket.                                        *)
IsFreshPosition(ctx, list) ==
    LET text == TrimEnd(Slice(ctx, ctx.tree[list].from, ctx.offset)) IN text # <<>> /\ Last(text)[1] \in {",", "("}
DetectAnnotationParam(ctx, list, orig) ==
    LET tree == ctx.tree
        pair == AncestorOfKinds(tree, orig, {"element_value_pair"})
        typed == CursorTruncatedText(ctx, orig)
        around == SelectSeq(NamedChildren(tree, list), LAMBDA c : tree[c].from <= ctx.offset /\ ctx.offset <= tree[c].to + 1)
        own == around[1]
    IN IF tree[Parent(tree, list)].kind # "annotation" THEN None
       ELSE IF orig # None /\ (IF pair = None THEN FALSE ELSE Parent(tree, pair) = list)
       THEN IF Key(tree, pair) = None THEN None
            ELSE IF ~Descends(tree, orig, Key(tree, pair)) THEN None
            ELSE AnnotationParam(ctx, list, CursorTruncatedText(ctx, Key(tree, pair)), pair, FALSE)
       ELSE IF orig # None
       THEN IF Pairs(tree, list) = <<>> \/ typed = <<>> \/ \E i \in DOMAIN typed : ~IsWord(typed[i]) THEN None
            ELSE AnnotationParam(ctx, list, typed, None, TRUE)
       ELSE IF IsFreshPosition(ctx, list) THEN AnnotationParam(ctx, list, <<>>, None, TRUE)
       ELSE IF around = <<>> THEN None
       ELSE IF tree[own].kind # "element_value_pair" \/ Key(tree, own) = None THEN None
       ELSE IF ctx.offset > tree[Key(tree, own)].to THEN None
       ELSE AnnotationParam(ctx, list, CursorTruncatedText(ctx, Key(tree, own)), own, FALSE)
HandleAnnotationArgumentList(ctx, list) == OrElse(DetectAnnotationParam(ctx, list, None), Expression(<<>>))

HandleImport(ctx, n) ==
    LET tree == ctx.tree
        shown == SelectSeq([i \in 1..(tree[n].last - n) |-> n + i], LAMBDA t : tree[t].text # None /\ tree[t].from < ctx.offset
                   /\ tree[t].kind \notin {"import", "static", ";"} /\ ~IsExtra(tree, t))
    IN ImportOf(ChildrenOfKind(tree, n, {"static"}) # <<>>,
                FlattenSeq([i \in DOMAIN shown |-> CursorTruncatedText(ctx, shown[i])]))

-----------------------------------------------------------------------------
(* Members, method references and constructors.                             *)
HandleMemberAccess(ctx, n) ==
    LET tree == ctx.tree
        kids == Children(tree, n)
        dots == {i \in DOMAIN kids : tree[kids[i]].kind = "."}
        dot == Min(dots)
        list == IF tree[n].kind = "method_invocation" THEN Field(tree, n, "arguments") ELSE None
        arguments == IF list = None THEN None ELSE NodeText(ctx, list)
        FirstName(s) == FirstOrNone(SelectSeq(s, LAMBDA c : tree[c].kind \in Names))
        Shown(c) == IF c = None THEN <<>> ELSE CursorTruncatedText(ctx, c)
        left == IF dot = 1 THEN None ELSE kids[dot - 1]
    IN IF dots = {} THEN IF arguments # None THEN MemberAccess(<<>>, Shown(FirstName(kids)), arguments)
                         ELSE Expression(Shown(FirstName(kids)))
       ELSE IF ctx.offset <= tree[kids[dot]].from THEN Expression(Shown(left))
       ELSE MemberAccess(IF left = None THEN <<>> ELSE NodeText(ctx, left), Shown(FirstName(From(kids, dot + 1))), arguments)

StripLeadingTypeArguments(text) ==
    LET Depth(i) == Cardinality(Positions(UpTo(text, i), {"<"})) - Cardinality(Positions(UpTo(text, i), {">"}))
        ends == {i \in Positions(text, {">"}) : Depth(i) = 0}
    IN IF StartsWith(text, "<") /\ ends # {} THEN TrimStart(From(text, Min(ends) + 1)) ELSE text
HandleMethodReference(ctx, n) ==
    LET raw == CursorTruncatedText(ctx, n)
        at == {i \in DOMAIN raw : raw[i] = Whole("::")}
        qualifier == Trim(UpTo(raw, Min(at) - 1))
        member == Trim(StripLeadingTypeArguments(TrimStart(From(raw, Min(at) + 1))))
        constructor == StartsWith(member, "new")
    IN IF raw = <<>> THEN Unknown
       ELSE IF at = {} THEN Expression(Trim(raw))
       ELSE [Location("MethodReference", member) EXCEPT
               !.qualifier = qualifier, !.about = <<"constructor", constructor>>, !.query = IF constructor THEN qualifier ELSE member]

ConstructorQualifier(ctx, n, type) ==
    LET tree == ctx.tree
        owners == SelectSeq(NamedChildren(tree, n), LAMBDA c : tree[c].to <= tree[type].from /\ tree[c].kind
                    \notin {"type_identifier", "generic_type", "scoped_type_identifier"})
    IN IF type = None THEN None ELSE IF owners = <<>> THEN None ELSE NodeText(ctx, owners[1])
InferExpectedTypeFromLhs(ctx, n) ==
    LET decl == AncestorOfKinds(ctx.tree, n, {"local_variable_declaration"})
        type == FirstUnmodified(ctx.tree, decl)
    IN IF decl = None THEN None ELSE IF type = None THEN None ELSE NodeText(ctx, type)
NormalizeTopLevelGenericBase(text) ==
    LET open == Positions(text, {"<"}) IN Trim(IF open = {} THEN text ELSE UpTo(text, Min(open) - 1))
HandleConstructor(ctx, n) ==
    LET tree == ctx.tree
        type == Field(tree, n, "type")
        qualifier == ConstructorQualifier(ctx, n, type)
        new == FirstOfKind(tree, n, {"new"})
        shown == Slice(ctx, tree[n].from, ctx.offset)
        ends == {l.to : l \in {l \in ToSet(ctx.lex) : l.text = ";" /\ l.from >= tree[n].from /\ l.to <= ctx.offset}}
        dots == SelectSeq(Children(tree, n), LAMBDA c : tree[c].kind = "." /\ c < new)
        between == IF type = None THEN <<>> ELSE Slice(ctx, ctx.offset, tree[type].from)
        expected == InferExpectedTypeFromLhs(ctx, n)
    IN IF ends # {} /\ Trim(AfterLast(shown, {";"})) # <<>> THEN Expression(ExtractIdentifierPrefixNearCursor(ctx, Max(ends)))
       ELSE IF new # None /\ ctx.offset <= tree[new].from
       THEN IF qualifier # None /\ dots # <<>> /\ ctx.offset >= tree[Last(dots)].to
            THEN MemberAccess(qualifier, ExtractIdentifierPrefixNearCursor(ctx, tree[Last(dots)].to), None)
            ELSE Expression(ExtractIdentifierPrefixNearCursor(ctx, tree[n].from))
       ELSE IF Has(between, "nl")
       THEN IF new # None /\ ctx.offset >= tree[new].to THEN ConstructorCall(<<>>, expected, qualifier) ELSE Unknown
       ELSE ConstructorCall(IF type = None THEN <<>> ELSE NormalizeTopLevelGenericBase(CursorTruncatedText(ctx, type)),
                            expected, qualifier)

(* Type arguments of the class that is constructed.                         *)
FindInnermostConstructorTypeArguments(ctx, n) ==
    LET tree == ctx.tree
        type == Field(tree, n, "type")
        around == {t \in Within(tree, type) : tree[t].kind = "type_arguments" /\ tree[t].from < ctx.offset /\ ctx.offset <= tree[t].to - 1}
    IN IF type = None THEN None
       ELSE IF around = {} THEN None
       ELSE Max(around)
FindPrefixInTypeArgumentsHole(ctx, list) ==
    LET to == IF ctx.tree[list].to - 1 < ctx.offset THEN ctx.tree[list].to - 1 ELSE ctx.offset
        text == Slice(ctx, ctx.tree[list].from + 1, to)
        Depth(i) == Cardinality(Positions(UpTo(text, i), {"<", "(", "[", "{"})) - Cardinality(Positions(UpTo(text, i), {">", ")", "]", "}"}))
        commas == {i \in Positions(text, {","}) : Depth(i) = 0}
    IN Trim(IF commas = {} THEN text ELSE From(text, Max(commas) + 1))
IsInConstructorTypeArguments(tree, id, constructor) ==
    LET type == Field(tree, constructor, "type")
        list == AncestorOfKinds(tree, id, {"type_arguments"})
    IN IF type = None \/ list = None THEN FALSE ELSE Descends(tree, list, type)
FindObjectCreationAtCursor(ctx, n) ==
    LET tree == ctx.tree
        Around(c) == tree[c].from <= ctx.offset /\ ctx.offset <= tree[c].to
        found == {c \in Within(tree, n) : /\ tree[c].kind = "object_creation_expression"
                                          /\ \A i \in DOMAIN tree[c].path : tree[c].path[i] > n => Around(tree[c].path[i])}
    IN IF found = {} THEN None ELSE Min(found)
ConstructorOrTypeArgument(ctx, n) ==
    LET list == FindInnermostConstructorTypeArguments(ctx, n)
    IN IF list = None THEN HandleConstructor(ctx, n) ELSE TypeAnnotation(FindPrefixInTypeArgumentsHole(ctx, list))

-----------------------------------------------------------------------------
(* Arguments.                                                               *)
Near(ctx, c) == ctx.tree[c].from <= ctx.offset /\ ctx.offset <= ctx.tree[c].to + 1
EndsInOperator(text) ==
    LET t == TrimEnd(text) IN
    t = <<>> \/ Last(t)[1] \in {"+", "-", "&", "&&", "||", "<", ">", "->", "=", "==", "!", "?", ":", "::", "(", "[", "{", ","}
RECURSIVE FindPrefixInExprSubtree(_, _)
FindPrefixInExprSubtree(ctx, n) ==
    LET near == SelectSeq(NamedChildren(ctx.tree, n), LAMBDA c : Near(ctx, c) /\ FindPrefixInExprSubtree(ctx, c) # <<>>)
    IN IF ~Near(ctx, n) THEN <<>>
       ELSE IF ctx.tree[n].kind \in IdentifierKinds THEN CursorTruncatedText(ctx, n)
       ELSE IF near # <<>> THEN FindPrefixInExprSubtree(ctx, near[1])
       ELSE ExtractIdentifierPrefixNearCursor(ctx, ctx.tree[n].from)
FindPrefixInArgumentList(ctx, list) ==
    LET near == SelectSeq(NamedChildren(ctx.tree, list), LAMBDA c : Near(ctx, c))
        nested == FindPrefixInExprSubtree(ctx, near[1])
        shown == CursorTruncatedText(ctx, near[1])
    IN IF near = <<>> THEN <<>>
       ELSE IF nested # <<>> THEN nested
       ELSE IF EndsInOperator(shown) THEN <<>> ELSE shown
DetectMemberAccessInArgList(ctx, list) ==
    LET tree == ctx.tree
        After(c) == TrimStart(Slice(ctx, tree[c].to, ctx.offset))
        dotted == SelectSeq(NamedChildren(tree, list), LAMBDA c : tree[c].to <= ctx.offset /\ StartsWith(After(c), "."))
    IN IF dotted = <<>> THEN None
       ELSE MemberAccess(NodeText(ctx, dotted[1]), Trim(Tail(After(dotted[1]))), None)
HandleArgumentList(ctx, list) ==
    OrElse(DetectMemberAccessInArgList(ctx, list),
           MethodArgument(IF IsFreshPosition(ctx, list) THEN <<>> ELSE FindPrefixInArgumentList(ctx, list)))

(* An expression and a lonely dot, or an operator without a right operand.  *)
IsDotError(tree, n) == LET kids == Children(tree, n) IN tree[n].kind = "ERROR" /\ Len(kids) = 1 /\ tree[kids[1]].kind = "."
HandleExpressionStatement(ctx, stmt) ==
    LET tree == ctx.tree
        named == NamedChildren(tree, stmt)
        dot == FirstOrNone(SelectSeq(named, LAMBDA c : IsDotError(tree, c)))
        receiver == LastOrNone(SelectSeq(named, LAMBDA c : tree[c].kind # "ERROR" /\ tree[c].to <= tree[dot].from))
        Right(c) == OrElse(Field(tree, c, "right"), Field(tree, c, "value"))
        Unfinished(c) == /\ tree[c].kind \in {"binary_expression", "ternary_expression", "assignment_expression"}
                         /\ IF Right(c) = None THEN FALSE ELSE tree[Right(c)].text = ""
                         /\ ctx.offset >= tree[c].from
    IN IF dot # None
       THEN IF receiver = None THEN None
            ELSE MemberAccess(NodeText(ctx, receiver), TakeWhileWords(TrimStart(Slice(ctx, tree[dot].from + 1, ctx.offset)), {}), None)
       ELSE IF \E i \in DOMAIN named : Unfinished(named[i]) THEN Expression(<<>>) ELSE None

-----------------------------------------------------------------------------
(* A name, by what it is part of.                                           *)
IsInNamePosition(tree, id, decl) ==
    \E i \in DOMAIN Children(tree, decl) : LET d == Children(tree, decl)[i] IN
      tree[d].kind = "variable_declarator" /\ Field(tree, d, "name") = id
NameInLocalDecl(ctx, id, decl) ==
    LET tree == ctx.tree
        text == CursorTruncatedText(ctx, id)
        type == FirstUnmodified(tree, decl)
        TypeText == IF type = None THEN <<>> ELSE NodeText(ctx, type)
        tail == DetectMemberTail(ctx, id, decl)
    IN IF IsMisreadExpression(ctx, id, decl) THEN Expression(text)
       ELSE IF IsVariableNameAfterCompleteType(ctx, decl) THEN VariableName(TypeText)
       ELSE IF tail # None THEN DotTo(tail)
       ELSE IF type = id THEN TypeAnnotation(text)
       ELSE IF IsInNamePosition(tree, id, decl) THEN VariableName(TypeText)
       ELSE IF (IF type = None THEN FALSE ELSE Descends(tree, id, type)) THEN TypeAnnotation(text)
       ELSE Expression(text)
NameInParameter(ctx, id, param) ==
    LET type == Field(ctx.tree, param, "type") IN
    IF Field(ctx.tree, param, "name") = id THEN VariableName(IF type = None THEN <<>> ELSE NodeText(ctx, type))
    ELSE TypeAnnotation(CursorTruncatedText(ctx, id))
NameInError(ctx, id, error) ==
    LET before == Before(ctx) IN
    OrElse(RecoverErrorLocation(ctx, error),
    IF IsImportContext(before) THEN ImportFromText(before)
    ELSE OrElse(DotTo(DetectTrailingDot(before)),
         OrElse(NewTo(DetectNewKeyword(before), None), Expression(CursorTruncatedText(ctx, id)))))
HandleName(ctx, id, n) ==
    LET tree == ctx.tree
        kind == tree[n].kind
        name == Field(tree, n, "name")
    IN CASE kind \in {"marker_annotation", "annotation"} ->
              IF (IF name = None THEN FALSE ELSE Descends(tree, id, name)) THEN HandleAnnotation(ctx, n) ELSE None
         [] kind \in MembersOf -> HandleMemberAccess(ctx, n)
         [] kind = "method_reference" -> HandleMethodReference(ctx, n)
         [] kind = "import_declaration" -> HandleImport(ctx, n)
         [] kind = "object_creation_expression" ->
              IF IsInConstructorTypeArguments(tree, id, n) THEN TypeAnnotation(CursorTruncatedText(ctx, id)) ELSE HandleConstructor(ctx, n)
         [] kind = "local_variable_declaration" -> NameInLocalDecl(ctx, id, n)
         [] kind \in {"formal_parameter", "spread_parameter"} -> NameInParameter(ctx, id, n)
         [] kind = "annotation_argument_list" -> DetectAnnotationParam(ctx, n, id)
         [] kind = "argument_list" ->
              IF tree[Parent(tree, id)].kind = "method_invocation" /\ ctx.offset <= tree[n].from
              THEN HandleMemberAccess(ctx, Parent(tree, id)) ELSE HandleArgumentList(ctx, n)
         [] kind = "ERROR" -> NameInError(ctx, id, n)
         [] kind = "class_body" -> Expression(CursorTruncatedText(ctx, id))
         [] OTHER -> None
RECURSIVE ClimbFromName(_, _, _)
ClimbFromName(ctx, id, n) ==
    IF n = None THEN None
    ELSE OrElse(HandleName(ctx, id, n),
                IF ctx.tree[n].kind \in Containers THEN None ELSE ClimbFromName(ctx, id, Parent(ctx.tree, n)))
HandleIdentifier(ctx, id) ==
    LET type == IsVariableNameAfterPreviousDecl(ctx, id)
        error == AncestorOfKinds(ctx.tree, id, {"ERROR"})
    IN OrElse(NameOf(type),
       OrElse(IF error = None THEN None ELSE RecoverErrorLocation(ctx, error),
       OrElse(ClimbFromName(ctx, id, Parent(ctx.tree, id)),
              Expression(CursorTruncatedText(ctx, id)))))

-----------------------------------------------------------------------------
(* Errors and blocks.                                                       *)
HandleErrorInClassBody(ctx, error, cursor) ==
    LET id == IF ctx.tree[cursor].kind \in Names THEN cursor ELSE FirstOfKind(ctx.tree, error, Names)
    IN Expression(IF id = None THEN <<>> ELSE CursorTruncatedText(ctx, id))
HandleError(ctx, error, cursor) ==
    LET tree == ctx.tree
        parent == Parent(tree, error)
        kind == IF parent = None THEN "" ELSE tree[parent].kind
        receiver == LastOrNone(SelectSeq(NamedChildren(tree, parent), LAMBDA c : c < error))
        param == DetectAnnotationParam(ctx, parent, None)
        before == Before(ctx)
    IN IF kind = "argument_list"
       THEN IF IsDotError(tree, error) /\ receiver # None THEN MemberAccess(NodeText(ctx, receiver), <<>>, None)
            ELSE HandleArgumentList(ctx, parent)
       ELSE IF kind = "annotation_argument_list" /\ param # None THEN param
       ELSE IF kind = "class_body" THEN HandleErrorInClassBody(ctx, error, cursor)
       ELSE OrElse(RecoverErrorLocation(ctx, error),
            IF IsImportContext(before) THEN ImportFromText(before)
            ELSE OrElse(DotTo(DetectTrailingDot(before)),
                 OrElse(NewTo(DetectNewKeyword(before), None),
                 IF tree[cursor].kind \in Names THEN HandleIdentifier(ctx, cursor) ELSE Expression(<<>>))))

HandleBlockAsCursor(ctx, block) ==
    LET last == LastOrNone(SelectSeq(NamedChildren(ctx.tree, block), LAMBDA c : ctx.tree[c].to <= ctx.offset))
        before == Before(ctx)
    IN IF (IF last = None THEN FALSE ELSE ctx.tree[last].kind = "ERROR")
       THEN OrElse(RecoverErrorLocation(ctx, last), OrElse(NewTo(DetectNewKeyword(before), None), Expression(<<>>)))
       ELSE OrElse(DetectVariableNamePosition(ctx, block), OrElse(NameOf(DetectVariableNameAfterType(ctx)),
            OrElse(DotTo(DetectTrailingDot(before)), Expression(<<>>))))

-----------------------------------------------------------------------------
IsMemberPartOfScopedType(tree, n) ==
    n # Root /\ tree[Parent(tree, n)].kind = "scoped_type_identifier" /\ NamedChildren(tree, Parent(tree, n))[1] # n
Handle(ctx, cursor, n) ==
    LET tree == ctx.tree
        kind == tree[n].kind
    IN CASE kind \in JumpStatements -> HandleJumpStatement(ctx, n)
         [] kind = "annotation_argument_list" -> HandleAnnotationArgumentList(ctx, n)
         [] kind \in {"marker_annotation", "annotation"} -> HandleAnnotation(ctx, n)
         [] kind = "import_declaration" -> HandleImport(ctx, n)
         [] kind \in MembersOf -> HandleMemberAccess(ctx, n)
         [] kind = "method_reference" -> HandleMethodReference(ctx, n)
         [] kind = "object_creation_expression" -> ConstructorOrTypeArgument(ctx, n)
         [] kind = "argument_list" -> HandleArgumentList(ctx, n)
         [] kind \in IdentifierKinds -> IF IsMemberPartOfScopedType(tree, n) THEN None ELSE HandleIdentifier(ctx, n)
         [] kind = "scoped_type_identifier" -> DetectScopedMember(ctx, n)
         [] kind = "local_variable_declaration" ->
              LET new == FindObjectCreationAtCursor(ctx, n) IN
              IF new # None THEN ConstructorOrTypeArgument(ctx, new)
              ELSE OrElse(DetectMemberInLocalDecl(ctx, n), DetectConstructorInLocalDecl(ctx, n))
         [] kind = "expression_statement" -> HandleExpressionStatement(ctx, n)
         [] kind = "dimensions" -> Expression(<<>>)
         [] kind = "ERROR" -> HandleError(ctx, n, cursor)
         [] kind = "block" /\ n = cursor -> HandleBlockAsCursor(ctx, n)
         [] kind = "class_body" /\ n = cursor -> Expression(<<>>)
         [] OTHER -> None
RECURSIVE ClimbFrom(_, _, _)
ClimbFrom(ctx, cursor, n) ==
    IF n = None THEN None
    ELSE OrElse(Handle(ctx, cursor, n),
                IF ctx.tree[n].kind \in Containers \cup JumpStatements THEN None ELSE ClimbFrom(ctx, cursor, Parent(ctx.tree, n)))

LocationImpl(ctx, cursor) ==
    LET tree == ctx.tree
        before == Before(ctx)
        str == Enclosing(tree, cursor, {"string_literal", "text_block"})
        dot == DotTo(DetectTrailingDot(before))
        name == NameOf(DetectVariableNameAfterType(ctx))
    IN IF cursor = None THEN OrElse(dot, OrElse(NewTo(DetectNewKeyword(before), None), OrElse(name, Expression(<<>>))))
       ELSE IF IsExtra(tree, cursor) THEN Unknown
       ELSE IF str # None THEN Location("StringLiteral", ExtractStringPrefix(ctx, str))
       ELSE OrElse(DetectStatementLabel(ctx, cursor), OrElse(ClimbFrom(ctx, cursor, cursor),
            IF tree[cursor].kind \in IdentifierKinds THEN Expression(CursorTruncatedText(ctx, cursor))
            ELSE OrElse(dot, OrElse(name, Expression(<<>>)))))
(* A location with a line break in it is not one.                           *)
HasNewline(l) ==
    \/ l.loc \notin {"VariableName", "StatementLabel", "ImportStatic"} /\ Has(l.prefix, "nl")
    \/ l.loc = "MethodReference" /\ Has(l.qualifier, "nl")
DetermineLocation(ctx) ==
    LET l == LocationImpl(ctx, FindCursorNode(ctx)) IN IF HasNewline(l) THEN Unknown ELSE l

-----------------------------------------------------------------------------
(* What the place of the cursor says about the type that is expected there: *)
(* the declared type of the variable it initialises, the return type, the   *)
(* left side of an assignment, or the call it is an argument of; and the    *)
(* shape of the lambda or method reference around it.                       *)

(* The last line of a recovered type that is not empty, after a semicolon.  *)
NormalizeRecoveredType(text) ==
    LET lineEnds == {i \in DOMAIN text : ~IsBlank(text[i])}
        tail == IF lineEnds = {} THEN text ELSE Trim(StripTrailingLineComment(LastLine(UpTo(text, Max(lineEnds)))))
    IN Trim(AfterLast(tail, {";"}))

DeclTypes == {"generic_type", "type_identifier", "scoped_type_identifier", "array_type", "integral_type", "floating_point_type",
              "boolean_type", "void_type"}
FirstTypeLikeDescendant(tree, n) ==
    LET types == {t \in Within(tree, n) : tree[t].kind \in DeclTypes} IN IF types = {} THEN None ELSE Min(types)
ExtractTypeFromDecl(ctx, decl) ==
    LET tree == ctx.tree
        kids == NamedChildren(tree, decl)
        TypeIn(c) == IF tree[c].kind \in DeclTypes THEN c ELSE IF tree[c].kind = "ERROR" THEN FirstTypeLikeDescendant(tree, c) ELSE None
        ends == {i \in DOMAIN kids : tree[kids[i]].kind = "variable_declarator" \/ TypeIn(kids[i]) # None}
    IN IF ends = {} THEN <<>>
       ELSE IF tree[kids[Min(ends)]].kind = "variable_declarator" THEN <<>>
       ELSE NormalizeRecoveredType(NodeText(ctx, TypeIn(kids[Min(ends)])))

InitialiserType(ctx, n) ==
    LET tree == ctx.tree
        declarator == AncestorOfKinds(tree, n, {"variable_declarator"})
        value == Field(tree, declarator, "value")
        decl == Parent(tree, declarator)
    IN IF declarator = None THEN None
       ELSE IF value = None THEN None
       ELSE IF ~Descends(tree, n, value) \/ tree[decl].kind \notin {"local_variable_declaration", "field_declaration"} THEN None
       ELSE ExtractTypeFromDecl(ctx, decl)
ReturnType(ctx, n) ==
    LET tree == ctx.tree
        ret == AncestorOfKinds(tree, n, {"return_statement"})
        method == AncestorOfKinds(tree, ret, {"method_declaration"})
        kids == SelectSeq(NamedChildren(tree, method), LAMBDA c : tree[c].kind \notin {"modifiers", "type_parameters"})
    IN IF ret = None THEN None
       ELSE IF NamedChildren(tree, ret) = <<>> \/ method = None THEN None
       ELSE IF kids = <<>> THEN None
       ELSE IF tree[kids[1]].kind \in {"identifier", "formal_parameters"} THEN None
       ELSE NodeText(ctx, kids[1])
AssignmentLhs(ctx, n) ==
    LET tree == ctx.tree
        assign == AncestorOfKinds(tree, n, {"assignment_expression"})
        right == Field(tree, assign, "right")
    IN IF assign = None THEN None
       ELSE IF right = None THEN None
       ELSE IF ~Descends(tree, n, right) \/ Field(tree, assign, "left") = None THEN None
       ELSE NodeText(ctx, Field(tree, assign, "left"))

(* Commas outside of brackets; a closing one too many is ignored.           *)
BracketDepth(text, i) ==
    LET Step(depth, piece) ==
          IF piece[1] \in {"(", "<", "[", "{"} THEN depth + 1
          ELSE IF piece[1] \in {")", ">", "]", "}"} /\ depth > 0 THEN depth - 1 ELSE depth
    IN FoldLeft(Step, 0, UpTo(text, i))
TopLevelCommas(text) == {i \in Positions(text, {","}) : BracketDepth(text, i) = 0}
SplitTopLevelArgs(text) ==
    LET commas == SetToSortSeq(TopLevelCommas(text), <)
        parts == [i \in 1..(Len(commas) + 1) |->
                    Trim(SubSeq(text, IF i = 1 THEN 1 ELSE commas[i - 1] + 1, IF i > Len(commas) THEN Len(text) ELSE commas[i] - 1))]
    IN SelectSeq(parts, LAMBDA p : p # <<>>)
MethodArgumentHint(ctx, n) ==
    LET tree == ctx.tree
        list == AncestorOfKinds(tree, n, {"argument_list"})
        call == Parent(tree, list)
        object == Field(tree, call, "object")
        name == Field(tree, call, "name")
        last == tree[list].to - 1
        cut == IF last < ctx.offset THEN last ELSE ctx.offset
    IN IF list = None THEN None
       ELSE IF tree[call].kind # "method_invocation" \/ name = None THEN None
       ELSE [receiver |-> IF object = None THEN <<Whole("this")>> ELSE NodeText(ctx, object), method |-> NodeText(ctx, name),
             index |-> Cardinality(TopLevelCommas(Slice(ctx, tree[list].from + 1, cut))),
             args |-> SplitTopLevelArgs(Slice(ctx, tree[list].from + 1, last))]

-----------------------------------------------------------------------------
(* The shape of the functional expression around the cursor.                *)
UpperNames == {"T", "U", "C", "Fun"}
LambdaShape(params, body) == [kind |-> "lambda", params |-> params, body |-> body, qualifier |-> None, member |-> None]
ParseLambdaParamCount(text) ==
    LET inner == Trim(SubSeq(text, 2, Len(text) - 1)) IN
    IF text = <<>> THEN None
    ELSE IF StartsWith(text, "(") /\ EndsWith(text, ")") THEN Len(SplitTopLevelArgs(inner))
    ELSE IF Has(text, ",") THEN None ELSE 1
BodyOrNone(text) == IF text = <<>> \/ StartsWith(text, "{") THEN None ELSE text
InferFunctionalExprShape(ctx, n) ==
    LET tree == ctx.tree
        ref == AncestorOfKinds(tree, n, {"method_reference"})
        lambda == AncestorOfKinds(tree, n, {"lambda_expression"})
        text == NodeText(ctx, IF ref # None THEN ref ELSE lambda)
        colons == Min(Positions(text, {"::"}))
        arrow == Min(Positions(text, {"->"}))
        qualifier == Trim(UpTo(text, colons - 1))
        member == Trim(StripLeadingTypeArguments(TrimStart(From(text, colons + 1))))
        count == ParseLambdaParamCount(Trim(UpTo(text, arrow - 1)))
    IN IF ref # None
       THEN IF Positions(text, {"::"}) = {} THEN None
            ELSE IF qualifier = <<>> \/ member = <<>> THEN None
            ELSE [kind |-> IF qualifier \in {<<Whole("this")>>, <<Whole("super")>>} THEN "expr"
                           ELSE IF qualifier[1][1] \in UpperNames THEN "type" ELSE "unknown",
                  params |-> None, body |-> None, qualifier |-> qualifier, member |-> member]
       ELSE IF lambda = None THEN None
       ELSE IF Positions(text, {"->"}) = {} THEN None
       ELSE IF count = None THEN None
       ELSE LambdaShape(count, BodyOrNone(Trim(From(text, arrow + 1))))

(* Type name = params -> ... in an ERROR node or in the file.               *)
HintFromErrorArrow(ctx, n) ==
    LET tree == ctx.tree
        Arrows(c) == {i \in DOMAIN Children(tree, c) : LET a == Children(tree, c)[i] IN tree[a].kind = "->" /\ tree[a].to <= ctx.offset}
        holder == FirstOrNone(SelectSeq(tree[n].path, LAMBDA c : tree[c].kind \in {"ERROR", "program"} /\ Arrows(c) # {}))
        kids == Children(tree, holder)
        LastBefore(i, kinds) == LET at == {j \in 1..(i - 1) : tree[kids[j]].kind \in kinds} IN IF at = {} THEN 0 ELSE Max(at)
        arrow == Max(Arrows(holder))
        params == LastBefore(arrow, {"identifier", "inferred_parameters", "formal_parameters"})
        eq == LastBefore(params, {"="})
        name == LastBefore(eq, Names)
        type == LastBefore(name, DeclTypes)
        count == IF tree[kids[params]].kind = "identifier" THEN 1
                 ELSE Len(ChildrenOfKind(tree, kids[params], {"identifier", "formal_parameter", "spread_parameter"}))
    IN IF holder = None THEN None
       ELSE IF arrow <= 3 \/ params = 0 \/ eq = 0 \/ name = 0 \/ type = 0 THEN None
       ELSE [type |-> NormalizeRecoveredType(NodeText(ctx, kids[type])),
             shape |-> LambdaShape(count, BodyOrNone(Trim(Slice(ctx, tree[kids[arrow]].to, ctx.offset))))]

InferFunctionalTargetHint(ctx) ==
    LET n == FindCursorNode(ctx)
        declared == InitialiserType(ctx, n)
        returned == ReturnType(ctx, n)
        lhs == AssignmentLhs(ctx, n)
        call == MethodArgumentHint(ctx, n)
        shape == InferFunctionalExprShape(ctx, n)
        type == OrElse(declared, returned)
        recovered == IF type # None /\ shape # None THEN None ELSE HintFromErrorArrow(ctx, n)
        source == IF declared # None THEN "initializer" ELSE IF returned # None THEN "return" ELSE IF lhs # None THEN "assignment"
                  ELSE IF recovered # None THEN "initializer" ELSE None
        known == OrElse(type, IF recovered = None THEN None ELSE recovered.type)
    IN IF n = None THEN None
       ELSE IF known = None /\ lhs = None /\ call = None THEN None
       ELSE [type |-> known, source |-> source, lhs |-> lhs, call |-> call,
             shape |-> OrElse(shape, IF recovered = None THEN None ELSE recovered.shape)]
=============================================================================
