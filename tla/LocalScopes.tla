----------------------------- MODULE LocalScopes -----------------------------
(***************************************************************************)
(* The local variables, lambda parameters, labels and classes around the   *)
(* cursor (salsa_queries/semantic.rs, language/java/scope.rs): extracted   *)
(* from the tree, and from the cache of a method's locals by the hash of   *)
(* its text.                                                               *)
(*                                                                         *)
(* A local is [name, type, start, scope]: its declared type is the text of *)
(* a type, "var" or None, where it is not known.  A type that is no token  *)
(* is one that error recovery has spoiled, with an implausible text.       *)
(***************************************************************************)
EXTENDS SyntaxTree

LOCAL INSTANCE SequencesExt
LOCAL INSTANCE FiniteSetsExt

MethodKinds == {"method_declaration", "constructor_declaration", "compact_constructor_declaration"}
TypeKinds == {"class_declaration", "interface_declaration", "enum_declaration", "record_declaration"}
TypeBodyKinds == {"class_body", "interface_body", "enum_body"}
ExecutableKinds == MethodKinds \cup {"lambda_expression", "static_initializer", "instance_initializer", "block"}
LocalScopeOwners ==
    MethodKinds \cup {"block", "for_statement", "enhanced_for_statement", "catch_clause",
                      "switch_block_statement_group", "switch_rule", "lambda_expression",
                      "static_initializer", "instance_initializer"}
TypeLikeKinds == {"type_identifier", "scoped_type_identifier", "integral_type", "floating_point_type",
                  "boolean_type", "void_type", "array_type", "generic_type", "annotated_type"}

-----------------------------------------------------------------------------
(* Where a local is visible.                                                *)
NodeScopeRange(tree, n) == [start |-> tree[n].from, end |-> tree[n].to]
ScopeRangeOfNode(tree, owner) == NodeScopeRange(tree, owner)
ScopeRangeForOwner(tree, owner) ==
    LET hasBody == MethodKinds \cup {"lambda_expression", "catch_clause", "enhanced_for_statement"}
        scope == IF tree[owner].kind \in hasBody THEN Field(tree, owner, "body") ELSE owner
    IN IF scope = None THEN None ELSE NodeScopeRange(tree, scope)
NearestLocalScopeOwner(tree, n) == AncestorOfKinds(tree, n, LocalScopeOwners)
LocalVisibilityScope(tree, decl, fallback) ==
    LET owner == NearestLocalScopeOwner(tree, decl)
        scope == IF owner = None THEN None ELSE ScopeRangeForOwner(tree, owner)
    IN IF scope = None THEN fallback ELSE scope
OwnerScope(tree, owner, fallback) ==
    IF ScopeRangeForOwner(tree, owner) = None THEN fallback ELSE ScopeRangeForOwner(tree, owner)
FallbackVisibilityScope(offset) == [start |-> 0, end |-> offset + 1]
LambdaParamVisibilityScope(tree, params, offset) ==
    LET parent == Parent(tree, params)
        arrow == NextSibling(tree, params)
        body == Field(tree, parent, "body")
    IN IF tree[parent].kind = "lambda_expression"
       THEN IF body = None THEN FallbackVisibilityScope(offset) ELSE NodeScopeRange(tree, body)
       ELSE IF arrow # None /\ tree[arrow].kind = "->"
            THEN [start |-> tree[arrow].to, end |-> tree[parent].to]
            ELSE FallbackVisibilityScope(offset)

-----------------------------------------------------------------------------
(* The locals of a method, wherever the cursor is.                          *)
Local(tree, name, type, scope) ==
    [name |-> tree[name].text, type |-> type, start |-> tree[name].from, scope |-> scope]

IsPlausibleLocalTypeText(text) == text # None
RecoveredDeclaredTypeText(tree, decl, type) ==
    LET boundary == tree[Field(tree, decl, "declarator")].from
        typeLike == {n \in Within(tree, decl) : tree[n].kind \in TypeLikeKinds /\ tree[n].to <= boundary}
        found == IF typeLike = {} THEN None ELSE tree[Max(typeLike)].text
    IN IF IsPlausibleLocalTypeText(tree[type].text) THEN tree[type].text
       ELSE IF IsPlausibleLocalTypeText(found) THEN found ELSE None

(* The declarators of the declarations below a node, with their types.      *)
DeclaredBelow(tree, root, fallback) ==
    {[decl |-> tree[n].path[2], declarator |-> n,
      local |-> Local(tree, Field(tree, n, "name"),
                      RecoveredDeclaredTypeText(tree, tree[n].path[2], Field(tree, tree[n].path[2], "type")),
                      LocalVisibilityScope(tree, tree[n].path[2], fallback))] :
        n \in {n \in Within(tree, root) :
                 /\ tree[n].kind = "variable_declarator" /\ n # root
                 /\ tree[tree[n].path[2]].kind = "local_variable_declaration"
                 /\ Field(tree, tree[n].path[2], "type") # None
                 /\ Field(tree, n, "name") # None /\ tree[Field(tree, n, "name")].kind = "identifier"}}
Typed(found) == {f.local : f \in {f \in found : f.local.type # None}}

(* A declaration that a call follows is a call misread.                     *)
IsMisreadCall(tree, f) ==
    LET next == NextSibling(tree, f.decl) IN
    \/ FirstOfKind(tree, f.declarator, {"argument_list"}) # None
    \/ next # None /\ tree[FirstToken(tree, next)].text = "("
ExtractDeclaredLocals(tree, root, fallback) ==
    Typed({f \in DeclaredBelow(tree, root, fallback) : ~IsMisreadCall(tree, f)})

ExtractEnhancedForLocals(tree, root, fallback) ==
    {Local(tree, Field(tree, n, "name"),
           IF Field(tree, n, "type") = None THEN "Object" ELSE tree[Field(tree, n, "type")].text,
           OwnerScope(tree, n, fallback)) :
        n \in {n \in Within(tree, root) :
                 tree[n].kind = "enhanced_for_statement" /\ Field(tree, n, "name") # None}}

(* The walk does not look below a node where it gives up.                   *)
Reached(tree, root, GivesUp(_)) ==
    {n \in Within(tree, root) :
        \A i \in 2..Len(tree[n].path) : tree[n].path[i] >= root => ~GivesUp(tree[n].path[i])}

CatchParam(tree, n) == FirstOfKind(tree, n, {"catch_formal_parameter"})
ExtractCatchParams(tree, root, fallback) ==
    LET IsCatch(n) == tree[n].kind = "catch_clause" /\ CatchParam(tree, n) # None
        Nameless(n) == IsCatch(n) /\ Field(tree, CatchParam(tree, n), "name") = None
    IN {Local(tree, Field(tree, CatchParam(tree, n), "name"),
              IF Field(tree, CatchParam(tree, n), "type") = None THEN "Object"
              ELSE tree[Field(tree, CatchParam(tree, n), "type")].text,
              OwnerScope(tree, n, fallback)) :
          n \in {n \in Reached(tree, root, Nameless) : IsCatch(n) /\ ~Nameless(n)}}

(* "T x = e" read as an assignment in a declarator after an error.          *)
FindTypeInErrorSibling(tree, declarator) ==
    LET error == FirstOfKind(tree, declarator, {"ERROR"})
        type == IF error = None THEN None
                ELSE FirstOfKind(tree, error, {"type_identifier", "integral_type", "void_type"})
    IN IF type = None THEN "Object" ELSE tree[type].text
ExtractMisreadVarDecls(tree, root, fallback) ==
    LET Assignment(n) == FirstOfKind(tree, n, {"assignment_expression"})
        IsMisread(n) == /\ tree[n].kind = "variable_declarator" /\ Assignment(n) # None
                        /\ Field(tree, Assignment(n), "left") # None /\ Field(tree, Assignment(n), "right") # None
        NotAName(n) == IsMisread(n) /\ tree[Field(tree, Assignment(n), "left")].kind # "identifier"
    IN {Local(tree, Field(tree, Assignment(n), "left"), FindTypeInErrorSibling(tree, n),
              LocalVisibilityScope(tree, n, fallback)) :
          n \in {n \in Reached(tree, root, NotAName) : IsMisread(n) /\ ~NotAName(n)}}

ExtractLocalsFromErrorNodes(tree, root, fallback) ==
    UNION {Typed(DeclaredBelow(tree, n, fallback)) : n \in {n \in Within(tree, root) : tree[n].kind = "ERROR"}}

ExtractMethodParams(tree, method, fallback) ==
    LET record == AncestorOfKinds(tree, method, {"record_declaration"})
        owner == IF tree[method].kind = "compact_constructor_declaration" THEN record ELSE method
        params == IF owner = None THEN None ELSE Field(tree, owner, "parameters")
        named == IF params = None THEN <<>>
                 ELSE SelectSeq(ChildrenOfKind(tree, params, {"formal_parameter", "spread_parameter"}),
                                LAMBDA p : Field(tree, p, "name") # None)
    IN {Local(tree, Field(tree, named[i], "name"),
              LET type == tree[Field(tree, named[i], "type")].text IN
              IF tree[named[i]].kind = "spread_parameter" THEN <<type, "[]">> ELSE type,
              OwnerScope(tree, method, fallback)) : i \in DOMAIN named}

CollectMethodLocals(tree, method, fallback) ==
    ExtractDeclaredLocals(tree, method, fallback) \cup ExtractEnhancedForLocals(tree, method, fallback)
    \cup ExtractCatchParams(tree, method, fallback) \cup ExtractMisreadVarDecls(tree, method, fallback)
    \cup ExtractLocalsFromErrorNodes(tree, method, fallback) \cup ExtractMethodParams(tree, method, fallback)

-----------------------------------------------------------------------------
(* The parameters of the lambdas around the cursor.                         *)
ExtractLambdaParamsFromNode(tree, params, offset) ==
    LET scope == LambdaParamVisibilityScope(tree, params, offset)
        names == ChildrenOfKind(tree, params, {"identifier"})
        formals == SelectSeq(ChildrenOfKind(tree, params, {"formal_parameter", "spread_parameter"}),
                             LAMBDA p : Field(tree, p, "name") # None)
        TypeOf(p) == IF Field(tree, p, "type") = None \/ tree[Field(tree, p, "type")].text = "var" THEN None
                     ELSE tree[Field(tree, p, "type")].text
    IN CASE tree[params].kind = "identifier" -> << Local(tree, params, None, scope) >>
         [] tree[params].kind = "inferred_parameters" ->
              [i \in DOMAIN names |-> Local(tree, names[i], None, scope)]
         [] tree[params].kind = "formal_parameters" ->
              [i \in DOMAIN formals |-> Local(tree, Field(tree, formals[i], "name"), TypeOf(formals[i]), scope)]
         [] OTHER -> <<>>

(* A lambda that the parser did not see as one: the last arrow before the   *)
(* cursor and what stands before it.                                        *)
ExtractLambdaParamsFromErrorArrowNode(tree, container, offset) ==
    LET kids == Children(tree, container)
        arrows == {i \in DOMAIN kids : tree[kids[i]].kind = "->" /\ tree[kids[i]].to <= offset}
    IN IF arrows = {} \/ Max(arrows) = 1 THEN <<>>
       ELSE ExtractLambdaParamsFromNode(tree, kids[Max(arrows) - 1], offset)
ErrorContainers == {"ERROR", "block", "program"}
ExtractLambdaParamsFromErrorNodesInAncestry(tree, cursor, offset) ==
    LET found == SelectSeq([i \in DOMAIN tree[cursor].path |->
                              IF tree[tree[cursor].path[i]].kind \notin ErrorContainers THEN <<>>
                              ELSE ExtractLambdaParamsFromErrorArrowNode(tree, tree[cursor].path[i], offset)],
                           LAMBDA ps : ps # <<>>)
    IN IF found = <<>> THEN <<>> ELSE found[1]

(* The parameters of a lambda whose body the cursor is in.                  *)
ParamsInBody(tree, lambda, offset) ==
    LET body == Field(tree, lambda, "body")
        params == Field(tree, lambda, "parameters")
    IN IF body = None \/ params = None \/ offset < tree[body].from \/ offset > tree[body].to THEN <<>>
       ELSE ExtractLambdaParamsFromNode(tree, params, offset)

ExtractActiveLambdaParams(tree, cursor, offset) ==
    LET lambdas == IF cursor = None THEN <<>>
                   ELSE SelectSeq(tree[cursor].path, LAMBDA n : tree[n].kind = "lambda_expression")
    IN IF cursor = None THEN <<>>
       ELSE IF lambdas = <<>> THEN ExtractLambdaParamsFromErrorNodesInAncestry(tree, cursor, offset)
       ELSE FlattenSeq([i \in DOMAIN lambdas |-> ParamsInBody(tree, Reverse(lambdas)[i], offset)])

(* The names alone, of the nearest lambda only.                             *)
ExtractActiveLambdaParamNames(tree, cursor, offset) ==
    LET At(n) == IF tree[n].kind = "lambda_expression" THEN ParamsInBody(tree, n, offset)
                 ELSE IF tree[n].kind \in ErrorContainers
                      THEN ExtractLambdaParamsFromErrorArrowNode(tree, n, offset) ELSE <<>>
        decisive == IF cursor = None THEN None
                    ELSE FirstOrNone(SelectSeq(tree[cursor].path,
                           LAMBDA n : tree[n].kind = "lambda_expression" \/ At(n) # <<>>))
    IN IF decisive = None THEN <<>> ELSE [i \in DOMAIN At(decisive) |-> At(decisive)[i].name]

ExtractActiveLambdaParamsIncremental(tree, cursor, offset) ==
    IF ExtractActiveLambdaParamNames(tree, cursor, offset) = <<>> THEN <<>>
    ELSE ExtractActiveLambdaParams(tree, cursor, offset)

-----------------------------------------------------------------------------
(* The locals that are visible at the cursor.                               *)
ScopeContainsOffset(scope, offset) == scope.start <= offset /\ offset < scope.end
FilterInScope(locals, offset) == {l \in locals : ScopeContainsOffset(l.scope, offset)}
FilterVisibleLocals(locals, offset) ==
    {l \in locals : l.start < offset /\ ScopeContainsOffset(l.scope, offset)}

(* One local of a name, the one declared last, last ones first.             *)
NormalizeVisibleLocals(locals) ==
    LET Later(a, b) == \/ a.start > b.start
                       \/ a.start = b.start /\ a.scope.start > b.scope.start
                       \/ a.start = b.start /\ a.scope.start = b.scope.start /\ a.scope.end > b.scope.end
        best == {l \in locals : \A other \in locals : other.name = l.name => ~Later(other, l)}
    IN SetToSortSeq(best, Later)

FindCursorNode(tree, offset) ==
    LET before == NamedDescendant(tree, IF offset = 0 THEN 0 ELSE offset - 1, offset)
        after == NamedDescendant(tree, offset, offset + 1)
    IN IF tree[before].kind \notin {"program", "lambda_expression"} THEN before
       ELSE IF offset < tree[Root].to THEN after
       ELSE IF tree[before].kind = "program" THEN None ELSE before

FindDeepestNodeAtOffset(tree, offset) ==
    Max({Root} \cup {n \in DOMAIN tree : \A i \in 1..(Len(tree[n].path) - 1) :
                       tree[tree[n].path[i]].from <= offset /\ offset < tree[tree[n].path[i]].to})

(* The methods the cursor may be found in: one for every node at the offset *)
(* that the lookup may return.                                              *)
NodesAtCursor(tree, offset) ==
    IF NodesByOffset(tree, "identifier", offset) # {} THEN NodesByOffset(tree, "identifier", offset)
    ELSE IF NodesByOffset(tree, "block", offset) # {} THEN NodesByOffset(tree, "block", offset)
    ELSE {FindDeepestNodeAtOffset(tree, offset)}
FindEnclosingMethodNodeInTree(tree, offset) ==
    {AncestorOfKinds(tree, n, MethodKinds) : n \in NodesAtCursor(tree, offset)}

ExtractVisibleLocalsInTree(tree, method, offset) ==
    LET cursor == FindCursorNode(tree, offset)
        locals == IF method = None
                  THEN CollectMethodLocals(tree, Root, FallbackVisibilityScope(offset))
                  ELSE CollectMethodLocals(tree, method, FallbackVisibilityScope(tree[method].to))
    IN NormalizeVisibleLocals(FilterVisibleLocals(locals, offset)
                              \cup ToSet(ExtractActiveLambdaParams(tree, cursor, offset)))

(* The node of the method for its offset: methods are looked for first.     *)
FindNodeAtOffset(tree, offset) ==
    LET ofKind(kind) == NodesByOffset(tree, kind, offset) IN
    IF ofKind("method_declaration") # {} THEN ofKind("method_declaration")
    ELSE IF ofKind("constructor_declaration") # {} THEN ofKind("constructor_declaration")
    ELSE ofKind("compact_constructor_declaration")
ParseMethodLocals(tree, node, method) ==
    CollectMethodLocals(tree, node, FallbackVisibilityScope(tree[method].to))

(* The tokens of the method are what its hash is taken of; a cache maps     *)
(* such texts to locals.                                                    *)
ContentHash(tree, method) == [i \in 1..(tree[method].last - method + 1) |-> tree[method + i - 1].text]
GetOrParseMethodLocals(tree, node, method, cache) ==
    IF ContentHash(tree, method) \in DOMAIN cache THEN cache[ContentHash(tree, method)]
    ELSE ParseMethodLocals(tree, node, method)
CacheMethodLocals(tree, node, method) ==
    [hash \in {ContentHash(tree, method)} |-> ParseMethodLocals(tree, node, method)]

ExtractRootRecoveryLocals(tree, offset) == ExtractVisibleLocalsInTree(tree, None, offset)
ExtractVisibleMethodLocalsIncremental(tree, node, method, offset, cache) ==
    IF method = None THEN ExtractRootRecoveryLocals(tree, offset)
    ELSE NormalizeVisibleLocals(
           FilterVisibleLocals(GetOrParseMethodLocals(tree, node, method, cache), offset)
           \cup ToSet(ExtractActiveLambdaParamsIncremental(tree, FindCursorNode(tree, offset), offset)))

-----------------------------------------------------------------------------
(* The classes around the cursor.                                           *)
NearestTypeDeclaration(tree, n) == Enclosing(tree, n, TypeKinds)
NameOf(tree, n) == IF Field(tree, n, "name") = None THEN None ELSE tree[Field(tree, n, "name")].text
TypesAround(tree, n) ==
    IF n = None THEN <<>> ELSE SelectSeq(tree[n].path, LAMBDA a : tree[a].kind \in TypeKinds)

ExtractChainInsideOut(tree, cursor) ==
    LET types == TypesAround(tree, cursor)
    IN IF types = <<>> THEN None ELSE [i \in DOMAIN types |-> NameOf(tree, types[i])]
(* From the cursor outwards up to a class without a name.                   *)
ExtractEnclosingClassChain(tree, cursor) ==
    LET types == TypesAround(tree, cursor)
        nameless == {i \in DOMAIN types : NameOf(tree, types[i]) = None}
        named == SubSeq(types, 1, IF nameless = {} THEN Len(types) ELSE Min(nameless) - 1)
    IN IF types = <<>> THEN None ELSE Reverse([i \in DOMAIN named |-> NameOf(tree, named[i])])
ExtractEnclosingClass(tree, cursor) ==
    IF NearestTypeDeclaration(tree, cursor) = None THEN None ELSE NameOf(tree, NearestTypeDeclaration(tree, cursor))

(* The nodes that contain the offset, from the root.                        *)
PathByOffset(tree, offset) ==
    IF ~(tree[Root].from <= offset /\ offset < tree[Root].to) THEN <<>>
    ELSE Reverse(tree[FindDeepestNodeAtOffset(tree, offset)].path)
ExtractEnclosingClassChainByOffset(tree, offset) ==
    LET types == SelectSeq(PathByOffset(tree, offset),
                           LAMBDA n : tree[n].kind \in TypeKinds /\ NameOf(tree, n) # None)
    IN IF types = <<>> THEN None ELSE [i \in DOMAIN types |-> NameOf(tree, types[i])]

(* The last "class C" among the nodes of an error.                          *)
KeywordAndName(tree, error, keywords) ==
    LET kids == Children(tree, error)
        at == {i \in 1..(Len(kids) - 1) :
                 tree[kids[i]].kind \in keywords /\ tree[kids[i + 1]].kind = "identifier"}
    IN IF at = {} THEN None ELSE tree[kids[Max(at) + 1]].text
ExtractEnclosingClassByOffset(tree, offset) ==
    LET NameAt(n) == IF tree[n].kind = "class_declaration" THEN NameOf(tree, n)
                     ELSE IF tree[n].kind = "ERROR" THEN KeywordAndName(tree, n, {"class"}) ELSE None
        path == PathByOffset(tree, offset)
        names == SelectSeq([i \in DOMAIN path |-> NameAt(path[i])], LAMBDA name : name # None)
    IN IF names = <<>> THEN None ELSE Last(names)
RecoverEnclosingTypeFromError(tree, offset) ==
    LET errors == SelectSeq(PathByOffset(tree, offset), LAMBDA n : tree[n].kind = "ERROR"
                    /\ KeywordAndName(tree, n, {"class", "interface", "enum", "record"}) # None)
    IN IF errors = <<>> THEN None
       ELSE [name |-> KeywordAndName(tree, Last(errors), {"class", "interface", "enum", "record"}),
             range |-> NodeScopeRange(tree, Last(errors))]
FindEnclosingClassBounds(tree, offset) ==
    {LET class == AncestorOfKinds(tree, n, TypeKinds) IN
     IF class = None THEN RecoverEnclosingTypeFromError(tree, offset)
     ELSE [name |-> IF NameOf(tree, class) = None THEN "Unknown" ELSE NameOf(tree, class),
           range |-> NodeScopeRange(tree, class)] : n \in NodesAtCursor(tree, offset)}
ExtractEnclosingInternalName(tree, cursor) ==
    LET names == SelectSeq([i \in DOMAIN TypesAround(tree, cursor) |-> NameOf(tree, TypesAround(tree, cursor)[i])],
                           LAMBDA name : name # None)
    IN IF names = <<>> THEN None ELSE Reverse(names)

(* Whether a member can be declared at the cursor.                          *)
IsMemberDeclarationNameContext(tree, cursor, decl, body) ==
    /\ Parent(tree, decl) = body
    /\ tree[decl].kind \in MethodKinds \cup TypeKinds
    /\ Field(tree, decl, "name") # None /\ cursor \in Within(tree, Field(tree, decl, "name"))
IsCursorInClassMemberPosition(tree, cursor) ==
    LET body == Enclosing(tree, cursor, TypeBodyKinds)
        owner == Parent(tree, body)
    IN /\ body # None
       /\ \A i \in DOMAIN tree[cursor].path :
            LET n == tree[cursor].path[i] IN
            n > body /\ tree[n].kind \in ExecutableKinds => IsMemberDeclarationNameContext(tree, cursor, n, body)
       /\ tree[owner].kind \in TypeKinds
       /\ AncestorOfKinds(tree, owner, ExecutableKinds) = None

(* The labels of the statements around the cursor, nearest first; a label   *)
(* of a label is one of the statement they name.                            *)
LabelTarget(tree, n) ==
    LET target == SelectSeq(Children(tree, n), LAMBDA c : IsNamed(tree, c) /\ tree[c].kind # "identifier")
    IN IF target = <<>> THEN n ELSE target[1]
ExtractEnclosingStatementLabels(tree, cursor) ==
    LET RECURSIVE Target(_)
        Target(n) == IF tree[n].kind = "labeled_statement" /\ LabelTarget(tree, n) # n
                     THEN Target(LabelTarget(tree, n)) ELSE n
        labelled == SelectSeq(tree[cursor].path, LAMBDA n :
                      tree[n].kind = "labeled_statement" /\ FirstOfKind(tree, n, {"identifier"}) # None)
    IN [i \in DOMAIN labelled |->
          [name |-> tree[FirstOfKind(tree, labelled[i], {"identifier"})].text,
           target |-> tree[Target(labelled[i])].kind]]

-----------------------------------------------------------------------------
(* What the language says: the names declared by what stands before the     *)
(* cursor in the blocks around it, and by the heads of the statements whose *)
(* bodies it is in.                                                         *)
DeclaratorNames(tree, decl) ==
    LET declarators == ChildrenOfKind(tree, decl, {"variable_declarator"})
        misread(d) == FirstOfKind(tree, d, {"assignment_expression"})
    IN {IF misread(declarators[i]) = None THEN Field(tree, declarators[i], "name")
        ELSE Field(tree, misread(declarators[i]), "left") : i \in DOMAIN declarators}
(* A statement, or the statements among the nodes of an error.              *)
NamesOfStatement(tree, s) ==
    UNION {DeclaratorNames(tree, d) :
             d \in {d \in Within(tree, s) :
                      /\ tree[d].kind = "local_variable_declaration"
                      /\ \A a \in ToSet(Tail(tree[d].path)) : a >= s => tree[a].kind = "ERROR"}}
ParamNames(tree, params) ==
    IF tree[params].kind = "identifier" THEN {params}
    ELSE {n \in Within(tree, params) : tree[n].kind = "identifier"}
NamesOfHead(tree, q) ==
    IF tree[q].kind \in MethodKinds \cup {"lambda_expression"} THEN ParamNames(tree, Field(tree, q, "parameters"))
    ELSE IF tree[q].kind = "catch_clause" THEN {Field(tree, CatchParam(tree, q), "name")}
    ELSE IF tree[q].kind = "enhanced_for_statement" THEN {Field(tree, q, "name")} ELSE {}
(* What looks like a lambda in an error.                                    *)
NamesOfArrow(tree, q, p) ==
    LET arrows == {s \in ToSet(ChildrenOfKind(tree, q, {"->"})) : s < p} IN
    IF tree[q].kind # "ERROR" \/ arrows = {} THEN {}
    ELSE ParamNames(tree, Max({s \in ToSet(Children(tree, q)) : s < Max(arrows)}))
NamesByTheBook(tree, use) ==
    UNION {LET p == tree[use].path[i]
               q == tree[use].path[i + 1]
               before == {s \in ToSet(Children(tree, q)) : s < p}
           IN (IF tree[q].kind = "local_variable_declaration" THEN {n \in DeclaratorNames(tree, q) : n < use}
               ELSE UNION {NamesOfStatement(tree, s) : s \in before})
              \cup (IF tree[p].role = "body" THEN NamesOfHead(tree, q) ELSE {})
              \cup NamesOfArrow(tree, q, p) :
           i \in 1..(Len(tree[use].path) - 1)}

(* A declaration of one group of a switch is visible in the groups after    *)
(* it, and one of a method in the classes inside; both are not shown, nor   *)
(* is the parameter of an unfinished lambda in a lambda inside, or a         *)
(* declaration before a statement that begins with a parenthesis.           *)
NamesShown(tree, use) ==
    LET method == Enclosing(tree, use, MethodKinds)
        groups(n) == {a \in ToSet(tree[n].path) : tree[a].kind = "switch_block_statement_group"}
        arrows == SelectSeq([i \in 1..(Len(tree[use].path) - 1) |->
                               NamesOfArrow(tree, tree[use].path[i + 1], tree[use].path[i])], LAMBDA ns : ns # {})
        outer == UNION (ToSet(arrows)
                        \ IF Enclosing(tree, use, {"lambda_expression"}) = None THEN {arrows[1]} ELSE {})
    IN {n \in NamesByTheBook(tree, use) :
          /\ method = None \/ (n > method /\ groups(n) \subseteq groups(use))
          /\ arrows # <<>> => n \notin outer
          /\ \A a \in ToSet(tree[n].path) : tree[a].kind = "local_variable_declaration" =>
               NextSibling(tree, a) = None \/ tree[FirstToken(tree, NextSibling(tree, a))].text # "("}

LocalsOf(tree, use) ==
    {ExtractVisibleLocalsInTree(tree, method, tree[use].to) :
        method \in FindEnclosingMethodNodeInTree(tree, tree[use].to)}

(* At an identifier only the locals are shown that Java has in scope there, *)
(* and, of those that the method itself declares, each name's last one.     *)
LocalsByTheBook(tree) ==
    \A use \in Uses(tree) : \A locals \in LocalsOf(tree, use) :
        /\ \A i \in DOMAIN locals : \E n \in NamesByTheBook(tree, use) :
             locals[i].start = tree[n].from /\ locals[i].name = tree[n].text
        /\ \A n \in NamesShown(tree, use) : \E i \in DOMAIN locals :
             locals[i].name = tree[n].text /\ locals[i].start >= tree[n].from

(* A second query for the locals is answered from the cache as the first    *)
(* was from the tree, when the method is where it was, and the lambda       *)
(* around the cursor, if any, has parameters.                               *)
CachedLocalsAgree(tree) ==
    \A use \in Uses(tree) :
        LET method == Enclosing(tree, use, MethodKinds)
            cursor == FindCursorNode(tree, tree[use].to)
            lambda == Enclosing(tree, cursor, {"lambda_expression"})
        IN method # None /\ (lambda = None \/ ParamsInBody(tree, lambda, tree[use].to) # <<>>) =>
             ExtractVisibleMethodLocalsIncremental(tree, method, method, tree[use].to,
                                                   CacheMethodLocals(tree, method, method))
               = ExtractVisibleLocalsInTree(tree, method, tree[use].to)

(* The locals from the cache are the locals from the source, wherever the   *)
(* method was when the cache was filled.                                    *)
IncrementalLocalsAgree(before, after) ==
    \A use \in Uses(after) :
        LET method == Enclosing(after, use, MethodKinds) IN
        method # None =>
          ExtractVisibleMethodLocalsIncremental(after, method, method, after[use].to,
                                                CacheMethodLocals(before, method, method))
            = ExtractVisibleLocalsInTree(after, method, after[use].to)

(* The classes around the cursor are the same by node and by offset, the    *)
(* internal name is made of the same names as the chain, the nearest class  *)
(* is the last of the chain and its bounds hold the cursor.                 *)
EnclosingClassesAgree(tree) ==
    \A use \in Uses(tree) :
        LET offset == tree[use].from + 1
            chain == ExtractEnclosingClassChain(tree, use)
        IN /\ chain = ExtractEnclosingClassChainByOffset(tree, offset)
           /\ chain = ExtractEnclosingInternalName(tree, use)
           /\ ExtractEnclosingClass(tree, use) = IF chain = None THEN None ELSE Last(chain)
           /\ chain # None => \A bounds \in FindEnclosingClassBounds(tree, offset) :
                                bounds.name = Last(chain) /\ ScopeContainsOffset(bounds.range, offset)
           /\ NearestTypeDeclaration(tree, use) # None /\ tree[NearestTypeDeclaration(tree, use)].kind = "class_declaration"
                => ExtractEnclosingClassByOffset(tree, offset) = Last(chain)

(* A member can be declared where no method, lambda or block is between the *)
(* cursor and a class that is not itself in one.                            *)
MembersDeclaredInClasses(tree) ==
    \A use \in Uses(tree) :
        IsCursorInClassMemberPosition(tree, use) <=>
          LET types == TypesAround(tree, use) IN
          /\ types # <<>> /\ use \in Within(tree, Field(tree, types[1], "body"))
          /\ \A a \in ToSet(tree[use].path) : tree[a].kind \in ExecutableKinds =>
               tree[a].path[2] \in {Field(tree, types[1], "body")} /\ Field(tree, a, "name") = use
=============================================================================
