-------------------------- MODULE LocationRecovery ---------------------------
(***************************************************************************)
(* What the cursor stands at where the parser could not make sense of the  *)
(* source: told from the text before the cursor, and from the shapes that  *)
(* the parser's error recovery is known to leave behind.                   *)
(*                                                                         *)
(* The text of a file stands next to its syntax tree.  A text is a         *)
(* sequence of pieces <<token, n>>: the first n characters of a token, a   *)
(* blank or a line break.  A name is two characters long, so that the      *)
(* cursor can stand in it; a line ends in a blank and begins with one.     *)
(*                                                                         *)
(* A location has its kind (loc), the prefix typed so far and the query to *)
(* match candidates with; a member access its receiver and arguments, a    *)
(* constructor call the expected type and a qualifier, a variable name its *)
(* type; about has what else there is to say.                              *)
(***************************************************************************)
EXTENDS SyntaxTree

LOCAL INSTANCE SequencesExt
LOCAL INSTANCE FiniteSetsExt

OrElse(a, b) == IF a # None THEN a ELSE b
OrEmpty(text) == IF text = None THEN <<>> ELSE text

Blanks == {" ", "nl"}
Narrow == {".", ",", ";", "(", ")", "{", "}", "<", ">", "[", "]", "=", "@", ":", "!", "&", "?", "+", "-"} \cup Blanks
Punctuation == Narrow \cup {"::", "->", "==", "&&", "||", "..."}
Comments == {"//", "/*"}
Quotes == {"\"s\""}
Width(token) == IF token = "" THEN 0 ELSE IF token \in Narrow THEN 1 ELSE 2
Whole(token) == <<token, Width(token)>>

(* Where a tree's tokens stand: no blank next to dots and brackets.  A term *)
(* NewLine among the kids of a node ends the line; a missing token has no   *)
(* text.                                                                    *)
NewLine == Leaf("newline", None, "nl")
Missing(kind, role) == Leaf(kind, role, "")
Gap(prev, next) ==
    IF prev \in {"", ".", "(", "[", "@", "::", "!", "<"} \/ next \in {".", "(", ")", "[", "]", ",", ";", "::", "<", ">", ""}
    THEN 0 ELSE 1

RECURSIVE Write(_, _, _)
Write(page, term, path) ==
    LET id == Len(page.nodes) + 1
        Node(from, to) == [kind |-> term.kind, role |-> term.role, text |-> term.text, path |-> <<id>> \o path,
                           from |-> from, to |-> to, last |-> id, line |-> page.line]
        WriteKid(p, kid) == Write(p, kid, <<id>> \o path)
        from == page.at + (IF term.text = "" THEN 0 ELSE IF page.fresh THEN 3 ELSE Gap(page.prev, term.text))
        inner == FoldLeft(WriteKid, [page EXCEPT !.nodes = Append(@, Node(0, 0))], term.kids)
    IN IF term.kind = "newline" THEN [page EXCEPT !.line = @ + 1, !.fresh = TRUE]
       ELSE IF term.kids # <<>> THEN
            [inner EXCEPT !.nodes[id].from = inner.nodes[id + 1].from, !.nodes[id].line = inner.nodes[id + 1].line,
                          !.nodes[id].to = inner.at, !.nodes[id].last = Len(inner.nodes)]
       ELSE IF term.text = "" THEN [page EXCEPT !.nodes = Append(@, Node(from, from))]
       ELSE [page EXCEPT !.nodes = Append(@, Node(from, from + Width(term.text))), !.at = from + Width(term.text),
                         !.prev = term.text, !.fresh = FALSE]
Typeset(term) == Write([nodes |-> <<>>, at |-> 0, prev |-> "", line |-> 1, fresh |-> FALSE], term, <<>>).nodes

(* The tokens and what is between them.                                     *)
Lexemes(tree) ==
    LET AddToken(lex, node) ==
          LET at == IF lex = <<>> THEN 0 ELSE Last(lex).to
              Blank(text, i) == [text |-> text, from |-> at + i, to |-> at + i + 1]
              gap == IF node.from - at = 3 THEN <<Blank(" ", 0), Blank("nl", 1), Blank(" ", 2)>>
                     ELSE IF node.from > at THEN <<Blank(" ", 0)>> ELSE <<>>
          IN lex \o gap \o << [text |-> node.text, from |-> node.from, to |-> node.to] >>
    IN FoldLeft(AddToken, <<>>, SelectSeq(tree, LAMBDA n : n.text \notin {None, ""}))

(* A file with the cursor: ctx has tree, lex and offset.                    *)
At(tree, offset) == [tree |-> tree, lex |-> Lexemes(tree), offset |-> offset]
Slice(ctx, from, to) ==
    LET inside == SelectSeq(ctx.lex, LAMBDA l : l.from < to /\ l.to > from)
    IN [i \in DOMAIN inside |-> <<inside[i].text, (IF inside[i].to < to THEN inside[i].to ELSE to) - inside[i].from>>]
Before(ctx) == Slice(ctx, 0, ctx.offset)
NodeText(ctx, n) == Slice(ctx, ctx.tree[n].from, ctx.tree[n].to)
CursorTruncatedText(ctx, n) ==
    Slice(ctx, ctx.tree[n].from, IF ctx.tree[n].to < ctx.offset THEN ctx.tree[n].to ELSE ctx.offset)
LineBreakAt(ctx, at) == \E i \in DOMAIN ctx.lex : ctx.lex[i].from = at /\ ctx.lex[i].text = "nl"

(* Texts.                                                                   *)
IsBlank(piece) == piece[1] \in Blanks
IsWord(piece) == piece[1] \notin Punctuation \cup Quotes \cup Comments
Has(text, token) == \E i \in DOMAIN text : text[i][1] = token
HasBlank(text) == \E i \in DOMAIN text : IsBlank(text[i])
Positions(text, tokens) == {i \in DOMAIN text : text[i][1] \in tokens}
From(text, i) == SubSeq(text, i, Len(text))
UpTo(text, i) == SubSeq(text, 1, i)
TrimStart(text) == LET ink == {i \in DOMAIN text : ~IsBlank(text[i])} IN IF ink = {} THEN <<>> ELSE From(text, Min(ink))
TrimEnd(text) == LET ink == {i \in DOMAIN text : ~IsBlank(text[i])} IN IF ink = {} THEN <<>> ELSE UpTo(text, Max(ink))
Trim(text) == TrimStart(TrimEnd(text))
StartsWith(text, token) == text # <<>> /\ text[1] = Whole(token)
EndsWith(text, token) == text # <<>> /\ Last(text) = Whole(token)
AfterLast(text, tokens) == LET at == Positions(text, tokens) IN IF at = {} THEN text ELSE From(text, Max(at) + 1)
LastLine(text) == AfterLast(text, {"nl"})
NonEmpty(text) == IF text = <<>> THEN None ELSE text
StripTrailingLineComment(line) ==
    LET at == Positions(line, {"//"}) IN IF at = {} THEN line ELSE UpTo(line, Min(at) - 1)
(* The longest start of the text that is made of words and these tokens.    *)
TakeWhileWords(text, tokens) ==
    LET ends == {i \in DOMAIN text : ~IsWord(text[i]) /\ text[i][1] \notin tokens}
    IN IF ends = {} THEN text ELSE UpTo(text, Min(ends) - 1)

(* The part of a word that stands before the cursor.                        *)
ExtractIdentifierPrefixNearCursor(ctx, lower) ==
    LET at == {i \in DOMAIN ctx.lex : LET l == ctx.lex[i] IN
                 l.from >= lower /\ l.from < ctx.offset /\ ctx.offset <= l.to /\ IsWord(<<l.text>>)}
    IN IF at = {} THEN <<>> ELSE LET l == ctx.lex[Max(at)] IN << <<l.text, ctx.offset - l.from>> >>

JavaKeywords ==
    {"public", "static", "final", "abstract", "void", "int", "boolean", "class", "interface", "enum", "extends",
     "implements", "return", "new", "this", "super", "null", "if", "else", "for", "while", "do", "switch", "case", "break",
     "continue", "default", "try", "catch", "throw", "throws", "import", "package", "instanceof"}
IsJavaKeyword(text) == Len(text) = 1 /\ text[1] = Whole(text[1][1]) /\ text[1][1] \in JavaKeywords

NamedChildren(tree, n) == SelectSeq(Children(tree, n), LAMBDA c : IsNamed(tree, c))
LastOrNone(s) == IF s = <<>> THEN None ELSE Last(s)
Descends(tree, n, ancestor) == ancestor <= n /\ n <= tree[ancestor].last
IsExtra(tree, n) == tree[n].kind \in {"line_comment", "block_comment"}

-----------------------------------------------------------------------------
(* Locations.                                                               *)

Location(loc, prefix) ==
    [loc |-> loc, prefix |-> prefix, query |-> prefix, receiver |-> None, arguments |-> None, type |-> None,
     qualifier |-> None, about |-> <<>>]
Unknown == Location("Unknown", <<>>)
Expression(prefix) == Location("Expression", prefix)
TypeAnnotation(prefix) == Location("TypeAnnotation", prefix)
MethodArgument(prefix) == Location("MethodArgument", prefix)
StatementLabel(kind, prefix) == [Location("StatementLabel", prefix) EXCEPT !.about = <<kind>>]
VariableName(type) == [Location("VariableName", <<>>) EXCEPT !.type = type]
MemberAccess(receiver, prefix, arguments) ==
    [Location("MemberAccess", prefix) EXCEPT !.receiver = receiver, !.arguments = arguments]
ConstructorCall(prefix, expected, qualifier) ==
    [Location("ConstructorCall", prefix) EXCEPT !.type = expected, !.qualifier = qualifier]
ImportOf(static, prefix) ==
    [Location(IF static THEN "ImportStatic" ELSE "Import", prefix) EXCEPT !.query = AfterLast(prefix, {"."})]
DotTo(found) == IF found = None THEN None ELSE MemberAccess(found.receiver, found.prefix, None)
NewTo(found, expected) == IF found = None THEN None ELSE ConstructorCall(found.prefix, expected, found.qualifier)
NameOf(type) == IF type = None THEN None ELSE VariableName(type)

-----------------------------------------------------------------------------
(* From the text.                                                           *)

(* The expression at the end of a text: back to an open bracket, the end of *)
(* a statement, an arrow or an assignment.                                  *)
ExtractLastExpr(text) ==
    LET s == TrimEnd(text)
        Open(i, open, close) ==
            Cardinality({j \in (i + 1)..Len(s) : s[j][1] = close}) <= Cardinality({j \in (i + 1)..Len(s) : s[j][1] = open})
        stops == {i \in DOMAIN s : \/ s[i][1] = "(" /\ Open(i, "(", ")")
                                   \/ s[i][1] = "{" /\ Open(i, "{", "}")
                                   \/ s[i][1] \in {";", "nl", "->", "="} /\ Open(i, "(", ")") /\ Open(i, "{", "}")}
    IN NonEmpty(Trim(IF stops = {} THEN s ELSE From(s, Max(stops) + 1)))

(* receiver.prefix at the end of the last line.                             *)
DetectTrailingDot(before) ==
    LET line == TrimEnd(StripTrailingLineComment(LastLine(TrimEnd(before))))
        prefix == IF line # <<>> /\ IsWord(Last(line)) THEN <<Last(line)>> ELSE <<>>
        head == UpTo(line, Len(line) - Len(prefix))
        receiver == ExtractLastExpr(Front(head))
    IN IF head = <<>> \/ ~EndsWith(head, ".") \/ receiver = None THEN None
       ELSE [receiver |-> receiver, prefix |-> prefix]

(* new Prefix, or qualifier.new Prefix, on the cursor's line.               *)
DetectNewKeyword(before) ==
    LET line == Trim(LastLine(before))
        at == {i \in DOMAIN line : line[i] = Whole("new")}
        after == TrimStart(From(line, Min(at) + 1))
        dot == DetectTrailingDot(UpTo(line, Min(at) - 1))
    IN IF at = {} \/ (after # <<>> /\ ~IsWord(after[1])) THEN None
       ELSE [prefix |-> TakeWhileWords(after, {"."}),
             qualifier |-> IF dot = None \/ dot.prefix # <<>> THEN None ELSE dot.receiver]

LastStatement(before) == TrimStart(AfterLast(before, {";", "{", "}"}))
IsImportContext(before) == StartsWith(LastStatement(before), "import")
ImportFromText(before) ==
    LET rest == TrimStart(Tail(LastStatement(before)))
        static == StartsWith(rest, "static") /\ Len(rest) > 1 /\ rest[2][1] = " "
    IN ImportOf(static, IF static THEN TrimStart(Tail(rest)) ELSE rest)

(* A line of nothing but a type and a blank: the name of a variable is next.*)
DetectVariableNameAfterType(ctx) ==
    LET line == LastLine(Before(ctx))
        trimmed == TrimEnd(line)
        words == SelectSeq(trimmed, IsWord)
    IN IF \/ Before(ctx) = <<>> \/ ~IsBlank(Last(Before(ctx))) \/ words = <<>>
          \/ \E i \in DOMAIN trimmed : ~(IsWord(trimmed[i]) \/ trimmed[i][1] \in {".", "<", ">", ",", "?", "[", "]", " ", "&"})
          \/ IsJavaKeyword(<<words[1]>>) \/ IsJavaKeyword(<<Last(words)>>)
       THEN None ELSE Trim(trimmed)

-----------------------------------------------------------------------------
(* Declarations that were expressions.                                      *)
TypeLike == {"type_identifier", "identifier", "generic_type", "array_type", "scoped_type_identifier", "integral_type",
             "floating_point_type", "boolean_type", "void_type", "annotated_type"}
CompleteTypes == TypeLike \ {"identifier", "void_type", "annotated_type"}
Names == {"identifier", "type_identifier"}
ChildrenWith(tree, n, kind) == ChildrenOfKind(tree, n, {kind})
GapText(ctx, from, to) == Slice(ctx, ctx.tree[from].to, ctx.tree[to].from)
FirstUnmodified(tree, decl) == FirstOrNone(SelectSeq(NamedChildren(tree, decl), LAMBDA c : tree[c].kind # "modifiers"))

LocalDeclParts(tree, decl) ==
    LET type == FirstOrNone(SelectSeq(NamedChildren(tree, decl), LAMBDA c : tree[c].kind \notin {"modifiers", "variable_declarator"}))
        declarator == FirstOfKind(tree, decl, {"variable_declarator"})
        name == OrElse(Field(tree, declarator, "name"), FirstOfKind(tree, declarator, Names))
    IN IF type = None \/ declarator = None THEN None
       ELSE IF name = None THEN None ELSE [type |-> type, declarator |-> declarator, name |-> name]

IsRecoveredQualifiedTypeTail(ctx, error, parts) ==
    LET tree == ctx.tree  named == NamedChildren(tree, error) IN
    /\ tree[error].from > tree[parts.type].to /\ tree[error].to <= tree[parts.declarator].from
    /\ Has(GapText(ctx, parts.type, error), "nl")
    /\ ChildrenWith(tree, error, ".") # <<>>
    /\ Len(named) >= 2 /\ \A i \in DOMAIN named : tree[named[i]].kind \in TypeLike

(* An expression on a line of its own, read as the type of a declaration    *)
(* together with the next line.                                             *)
IsMisreadExpression(ctx, node, decl) ==
    LET tree == ctx.tree
        next == NextSibling(tree, decl)
        parts == LocalDeclParts(tree, decl)
        name == NodeText(ctx, parts.name)
        selfNamed == name \in {<<Whole("this")>>, <<Whole("super")>>}
        error == FirstOfKind(tree, decl, {"ERROR"})
        inError == SelectSeq(Children(tree, error), LAMBDA c : ~IsExtra(tree, c))
        inner == FirstOfKind(tree, parts.declarator, {"ERROR"})
    IN \/ next # None /\ tree[FirstToken(tree, next)].text = "("
       \/ /\ parts # None /\ Descends(tree, node, parts.type)
          /\ selfNamed \/ Has(GapText(ctx, parts.type, parts.name), "nl")
          /\ \/ IsJavaKeyword(name)
             \/ /\ error # None
                /\ \/ selfNamed /\ inError # <<>> /\ tree[inError[1]].kind = "."
                   \/ IsRecoveredQualifiedTypeTail(ctx, error, parts)
             \/ /\ inner # None /\ ChildrenWith(tree, parts.declarator, "=") # <<>>
                /\ ChildrenOfKind(tree, inner, Names) # <<>>

(* receiver.member read as type and name.                                   *)
DetectMemberTail(ctx, node, decl) ==
    LET tree == ctx.tree
        error == AncestorOfKinds(tree, node, {"ERROR"})
        parts == LocalDeclParts(tree, decl)
        gap == SelectSeq(GapText(ctx, parts.type, parts.name), LAMBDA p : ~IsBlank(p))
        raw == TrimEnd(Slice(ctx, tree[decl].from, ctx.offset))
        dots == Positions(raw, {"."})
        receiver == Trim(UpTo(raw, Max(dots) - 1))
    IN IF error = None THEN None
       ELSE IF ~Descends(tree, error, decl) THEN None
       ELSE IF parts # None /\ gap = <<Whole(".")>> /\ ctx.offset >= tree[parts.name].from THEN
            [receiver |-> NodeText(ctx, parts.type), prefix |-> CursorTruncatedText(ctx, parts.name)]
       ELSE IF ctx.offset <= tree[decl].from \/ dots = {} THEN None
       ELSE IF receiver = <<>> THEN None
       ELSE [receiver |-> receiver, prefix |-> Trim(From(raw, Max(dots) + 1))]

(* A qualified name where a type was expected.                              *)
DetectScopedMember(ctx, scoped) ==
    LET tree == ctx.tree
        parts == NamedChildren(tree, scoped)
        receiver == Trim(Slice(ctx, tree[scoped].from, tree[Last(parts)].from - 1))
    IN IF \/ ctx.offset < tree[scoped].from \/ ctx.offset > tree[scoped].to \/ Len(parts) < 2
          \/ receiver = <<>> \/ Has(receiver, " ") THEN None
       ELSE MemberAccess(receiver, CursorTruncatedText(ctx, Last(parts)), None)
DetectMemberInLocalDecl(ctx, decl) ==
    LET type == FirstOfKind(ctx.tree, decl, {"scoped_type_identifier"})
    IN IF type = None THEN None ELSE DetectScopedMember(ctx, type)

-----------------------------------------------------------------------------
(* Inside of an ERROR node, between the semicolons around the cursor.       *)
SemicolonPositions(tree, error) ==
    {n \in (error + 1)..tree[error].last :
       tree[n].kind = ";" /\ ~\E i \in 2..Len(tree[n].path) : tree[n].path[i] > error /\ tree[tree[n].path[i]].kind = "for_statement"}
LastSemicolonBefore(tree, error, limit) ==
    LET ends == {tree[n].to : n \in {n \in SemicolonPositions(tree, error) : tree[n].to <= limit}}
    IN IF ends = {} THEN None ELSE Max(ends)
SegmentStart(ctx, error) == OrElse(LastSemicolonBefore(ctx.tree, error, ctx.offset), ctx.tree[error].from)
SegmentEnd(ctx, error) ==
    LET starts == {ctx.tree[n].from : n \in {n \in SemicolonPositions(ctx.tree, error) : ctx.tree[n].from >= ctx.offset}}
    IN IF starts = {} THEN ctx.tree[error].to ELSE Min(starts)
InSegment(ctx, error, n) ==
    ctx.tree[n].from >= SegmentStart(ctx, error) /\ ctx.tree[n].to <= SegmentEnd(ctx, error)

DetectConstructorInError(ctx, error) ==
    LET tree == ctx.tree
        kids == Children(tree, error)
        Seen(c) == InSegment(ctx, error, c) /\ tree[c].from < ctx.offset
        news == {i \in DOMAIN kids : tree[kids[i]].kind = "new" /\ Seen(kids[i])}
        new == Max(news)
        class == FirstOrNone(SelectSeq(From(kids, new + 1), LAMBDA c : Seen(c) /\ tree[c].kind
                   \in {"identifier", "type_identifier", "generic_type", "scoped_type_identifier", "annotated_type"}))
        owner == LastOrNone(SelectSeq(UpTo(kids, new - 2), LAMBDA c : IsNamed(tree, c) /\ ~IsExtra(tree, c)))
    IN IF news = {} THEN None
       ELSE IF class = None THEN None
       ELSE [prefix |-> CursorTruncatedText(ctx, class),
             qualifier |-> IF new >= 3 /\ tree[kids[new - 1]].kind = "." /\ owner # None THEN NodeText(ctx, owner) ELSE None]

DetectConstructorInLocalDecl(ctx, decl) ==
    LET tree == ctx.tree
        error == FirstOrNone(SelectSeq(ChildrenWith(tree, decl, "ERROR"), LAMBDA c : tree[c].from <= ctx.offset))
        type == FirstOrNone(SelectSeq(NamedChildren(tree, decl), LAMBDA c : tree[c].kind \notin {"variable_declarator", "ERROR"}))
    IN IF error = None THEN None
       ELSE IF ChildrenWith(tree, error, "new") = <<>> THEN None
       ELSE NewTo(OrElse(DetectConstructorInError(ctx, error), DetectNewKeyword(Before(ctx))),
                  IF type = None THEN None ELSE NodeText(ctx, type))

DetectVariableNameInError(ctx, error) ==
    LET tree == ctx.tree
        named == SelectSeq(NamedChildren(tree, error), LAMBDA c : InSegment(ctx, error, c))
        type == named[1]
        signs == SelectSeq(ChildrenOfKind(tree, error, {"=", ";"}), LAMBDA c : InSegment(ctx, error, c))
    IN IF ctx.offset < tree[error].to \/ Len(named) # 1 \/ SegmentEnd(ctx, error) < tree[error].to THEN None
       ELSE IF \/ tree[type].kind \notin TypeLike \/ ctx.offset <= tree[type].to
               \/ ~HasBlank(Slice(ctx, tree[type].to, ctx.offset)) \/ signs # <<>>
               \/ tree[type].kind = "identifier" /\ IsJavaKeyword(NodeText(ctx, type)) THEN None
       ELSE NodeText(ctx, type)
DetectVariableNamePosition(ctx, block) ==
    LET before == LastOrNone(SelectSeq(NamedChildren(ctx.tree, block), LAMBDA c : ctx.tree[c].to <= ctx.offset))
    IN IF before = None THEN None
       ELSE IF ctx.tree[before].kind # "ERROR" THEN None ELSE NameOf(DetectVariableNameInError(ctx, before))

DetectDotAfterExpression(ctx, error) ==
    LET tree == ctx.tree
        expr == LastOrNone(SelectSeq(Children(tree, error), LAMBDA c : tree[c].to <= ctx.offset /\ tree[c].kind
                  \in {"method_invocation", "object_creation_expression", "field_access", "identifier", "this", "super"}))
        after == TrimStart(Slice(ctx, tree[expr].to, ctx.offset))
    IN IF expr = None THEN None
       ELSE IF ~StartsWith(after, ".") THEN None
       ELSE MemberAccess(NodeText(ctx, expr), TakeWhileWords(TrimStart(Tail(after)), {}), None)

RecoverErrorLocation(ctx, error) ==
    LET tree == ctx.tree
        scoped == SelectSeq(ChildrenWith(tree, error, "scoped_type_identifier"),
                            LAMBDA c : tree[c].from <= ctx.offset /\ DetectScopedMember(ctx, c) # None)
    IN OrElse(IF scoped = <<>> THEN None ELSE DetectScopedMember(ctx, scoped[1]),
       OrElse(DetectDotAfterExpression(ctx, error),
       OrElse(NewTo(DetectConstructorInError(ctx, error), None),
              NameOf(DetectVariableNameInError(ctx, error)))))

-----------------------------------------------------------------------------
(* A line with one word and a blank after the declaration of an array: the  *)
(* word is a type.                                                          *)
IsCompleteDecl(tree, n) ==
    tree[n].kind \in {"local_variable_declaration", "field_declaration"} /\ ChildrenWith(tree, n, "variable_declarator") # <<>>
LinePrefixIsSimpleIdentifier(ctx) ==
    LET line == Trim(LastLine(Before(ctx))) IN
    IF line # <<>> THEN Len(line) = 1 /\ IsWord(line[1])
    ELSE \E i \in DOMAIN ctx.lex : ctx.lex[i].from <= ctx.offset /\ ctx.offset < ctx.lex[i].to /\ IsWord(<<ctx.lex[i].text>>)
HasSemicolonAfterCursor(ctx, stmt) ==
    LET tree == ctx.tree IN
    IF tree[stmt].kind = "ERROR" THEN \E n \in SemicolonPositions(tree, stmt) : tree[n].from >= ctx.offset
    ELSE \E n \in Within(tree, stmt) : Parent(tree, n) = stmt /\ tree[n].kind = ";" /\ tree[n].from >= ctx.offset

IsVariableNameAfterPreviousDecl(ctx, node) ==
    LET tree == ctx.tree
        path == tree[node].path
        up == {i \in 2..Len(path) : tree[path[i]].kind \in {"block", "class_body", "program"}}
        container == path[Min(up)]
        stmt == path[Min(up) - 1]
        before == {n \in Within(tree, container) : n < stmt /\ n > container /\ IsCompleteDecl(tree, n)}
        limit == LastSemicolonBefore(tree, stmt, tree[node].from)
        within == {n \in Within(tree, stmt) : IsCompleteDecl(tree, n) /\ tree[n].to <= limit}
        decl == IF before # {} THEN Max(before)
                ELSE IF tree[stmt].kind # "ERROR" \/ limit = None THEN None
                ELSE IF within = {} THEN None ELSE Max(within)
        type == FirstUnmodified(tree, stmt)
        declType == IF tree[stmt].kind \notin {"local_variable_declaration", "field_declaration"} \/ type = None THEN None
                    ELSE IF IsJavaKeyword(NodeText(ctx, type)) THEN None ELSE NodeText(ctx, type)
        text == NodeText(ctx, decl)
    IN IF \/ ~LinePrefixIsSimpleIdentifier(ctx) \/ ~HasBlank(Slice(ctx, tree[node].to, ctx.offset)) \/ up = {} THEN None
       ELSE IF HasSemicolonAfterCursor(ctx, stmt) \/ decl = None THEN None
       ELSE IF \/ ~\E i \in 1..(Len(text) - 1) : text[i] = Whole("[") /\ text[i + 1] = Whole("]")
               \/ ~Has(GapText(ctx, decl, node), "nl")
               \/ tree[stmt].kind \notin {"local_variable_declaration", "field_declaration", "ERROR", "expression_statement"} THEN None
       ELSE IF declType # None THEN declType
       ELSE IF IsJavaKeyword(NodeText(ctx, node)) THEN None ELSE NodeText(ctx, node)

(* A type without a declarator, and a blank.                                *)
IsVariableNameAfterCompleteType(ctx, decl) ==
    LET tree == ctx.tree  type == FirstUnmodified(tree, decl) IN
    /\ ChildrenWith(tree, decl, "variable_declarator") = <<>> /\ type # None
    /\ ctx.offset > tree[type].to /\ HasBlank(Slice(ctx, tree[type].to, ctx.offset))
    /\ ~IsJavaKeyword(NodeText(ctx, type)) /\ tree[type].kind \in CompleteTypes
=============================================================================
