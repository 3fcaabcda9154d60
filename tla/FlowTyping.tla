----------------------------- MODULE FlowTyping ------------------------------
(***************************************************************************)
(* The types that instanceof tests around the cursor prove for local       *)
(* variables (language/java/flow.rs), and what the tests prove by their    *)
(* meaning.  Facts map names of locals to types.                           *)
(***************************************************************************)
EXTENDS SyntaxTree

LOCAL INSTANCE SequencesExt
LOCAL INSTANCE Functions

NoFacts == <<>>

MergeFactsKeepFirst(dst, src) ==
    [x \in DOMAIN dst \cup DOMAIN src |-> IF x \in DOMAIN dst THEN dst[x] ELSE src[x]]
(* Facts that contradict one another are dropped.                           *)
MergeFacts(dst, src) ==
    LET conflicts == {x \in DOMAIN dst \cap DOMAIN src : dst[x] # src[x]}
        names == (DOMAIN dst \cup DOMAIN src) \ conflicts
    IN [x \in names |-> IF x \in DOMAIN dst THEN dst[x] ELSE src[x]]

NodeContainsOffset(tree, n, offset) == tree[n].from <= offset /\ offset <= tree[n].to

RECURSIVE PeelWrappers(_, _)
PeelWrappers(tree, n) ==
    IF tree[n].kind \in {"parenthesized_expression", "expression_statement"}
    THEN PeelWrappers(tree, SelectSeq(Children(tree, n), LAMBDA c : IsNamed(tree, c))[1]) ELSE n

Operator(tree, n, operators) == FirstOfKind(tree, n, operators)
BinaryLeft(tree, n) == Field(tree, n, "left")
BinaryRight(tree, n) == Field(tree, n, "right")
UnaryOperand(tree, n) == Field(tree, n, "operand")

ParseInstanceofNarrowing(tree, n, locals) ==
    LET left == Field(tree, n, "left")
        right == Field(tree, n, "right")
    IN IF /\ tree[n].kind = "instanceof_expression" /\ left # None /\ right # None
          /\ tree[left].kind = "identifier" /\ tree[left].text \in locals
       THEN [x \in {tree[left].text} |-> tree[right].text] ELSE NoFacts

(* What is known when the condition is true, and when it is false.          *)
RECURSIVE FactsForExpr(_, _, _)
FactsForExpr(tree, expr, locals) ==
    LET n == PeelWrappers(tree, expr)
        both == [true |-> NoFacts, false |-> NoFacts]
        left == FactsForExpr(tree, BinaryLeft(tree, n), locals)
        right == FactsForExpr(tree, BinaryRight(tree, n), locals)
        operand == FactsForExpr(tree, UnaryOperand(tree, n), locals)
    IN CASE tree[n].kind = "instanceof_expression" ->
              [both EXCEPT !.true = ParseInstanceofNarrowing(tree, n, locals)]
         [] tree[n].kind = "unary_expression" /\ Operator(tree, n, {"!"}) # None ->
              [true |-> operand.false, false |-> operand.true]
         [] tree[n].kind = "binary_expression" /\ Operator(tree, n, {"&&"}) # None ->
              [both EXCEPT !.true = MergeFacts(left.true, right.true)]
         [] tree[n].kind = "binary_expression" /\ Operator(tree, n, {"||"}) # None ->
              [both EXCEPT !.false = MergeFacts(left.false, right.false)]
         [] OTHER -> both

(* What the operands to the left of the cursor prove inside a condition.    *)
RECURSIVE FactsAvailableAtExprPosition(_, _, _, _)
FactsAvailableAtExprPosition(tree, expr, offset, locals) ==
    LET n == PeelWrappers(tree, expr)
        In(part) == part # None /\ NodeContainsOffset(tree, part, offset)
        Inside(part) == FactsAvailableAtExprPosition(tree, part, offset, locals)
        left == FactsForExpr(tree, BinaryLeft(tree, n), locals)
    IN IF ~NodeContainsOffset(tree, n, offset) THEN NoFacts
       ELSE IF tree[n].kind = "binary_expression" /\ In(BinaryRight(tree, n))
       THEN MergeFacts(Inside(BinaryRight(tree, n)),
                       IF Operator(tree, n, {"&&"}) # None THEN left.true
                       ELSE IF Operator(tree, n, {"||"}) # None THEN left.false ELSE NoFacts)
       ELSE IF tree[n].kind = "binary_expression" /\ In(BinaryLeft(tree, n)) THEN Inside(BinaryLeft(tree, n))
       ELSE IF tree[n].kind = "unary_expression" /\ In(UnaryOperand(tree, n)) THEN Inside(UnaryOperand(tree, n))
       ELSE NoFacts

ExtractInstanceofTrueBranchOverrides(tree, cursor, offset, locals) ==
    LET AddIf(out, n) ==
          LET condition == Field(tree, n, "condition")
              then == Field(tree, n, "consequence")
              branch == IF then # None /\ NodeContainsOffset(tree, then, offset)
                        THEN MergeFacts(out, FactsForExpr(tree, condition, locals).true) ELSE out
          IN IF condition # None /\ NodeContainsOffset(tree, condition, offset)
             THEN MergeFacts(branch, FactsAvailableAtExprPosition(tree, condition, offset, locals))
             ELSE branch
    IN FoldLeft(AddIf, NoFacts, SelectSeq(tree[cursor].path, LAMBDA n : tree[n].kind = "if_statement"))

-----------------------------------------------------------------------------
(* The meaning of a condition, given which tests (pairs of a variable and a *)
(* type) succeed; other tests are true or false as one likes.               *)
RECURSIVE IsTrue(_, _, _)
IsTrue(tree, expr, passed) ==
    LET n == PeelWrappers(tree, expr) IN
    CASE tree[n].kind = "instanceof_expression" -> <<tree[Field(tree, n, "left")].text, tree[Field(tree, n, "right")].text>> \in passed
      [] tree[n].kind = "unary_expression" -> ~IsTrue(tree, UnaryOperand(tree, n), passed)
      [] tree[n].kind = "binary_expression" /\ Operator(tree, n, {"&&"}) # None ->
           IsTrue(tree, BinaryLeft(tree, n), passed) /\ IsTrue(tree, BinaryRight(tree, n), passed)
      [] tree[n].kind = "binary_expression" ->
           IsTrue(tree, BinaryLeft(tree, n), passed) \/ IsTrue(tree, BinaryRight(tree, n), passed)
      [] OTHER -> <<tree[n].kind, n>> \in passed

(* The cursor is reached: in a branch, and behind && and ||.                *)
IsReached(tree, use, passed) ==
    \A i \in 1..(Len(tree[use].path) - 1) :
        LET p == tree[use].path[i]
            q == tree[use].path[i + 1]
        IN /\ tree[q].kind = "if_statement" /\ tree[p].role = "consequence" =>
                IsTrue(tree, Field(tree, q, "condition"), passed)
           /\ tree[q].kind = "if_statement" /\ tree[p].role = "alternative" =>
                ~IsTrue(tree, Field(tree, q, "condition"), passed)
           /\ tree[q].kind = "binary_expression" /\ tree[p].role = "right" =>
                (IsTrue(tree, BinaryLeft(tree, q), passed) <=> Operator(tree, q, {"&&"}) # None)

Conditions == {"parenthesized_expression", "unary_expression", "binary_expression"}
Others(tree) ==
    {<<tree[n].kind, n>> : n \in {n \in Uses(tree) : tree[tree[n].path[2]].kind \in Conditions}}
Tests(tree) ==
    {<<tree[Field(tree, n, "left")].text, tree[Field(tree, n, "right")].text>> :
        n \in {n \in DOMAIN tree : tree[n].kind = "instanceof_expression"}}

(* A type is shown for a local only if every run that reaches the cursor    *)
(* passes the test for it.  And when no test and no variable occurs twice   *)
(* and the cursor is in no else branch, every such type of a local is       *)
(* shown.                                                                   *)
FlowFactsProved(tree, locals) ==
    \A use \in Uses(tree) :
        LET facts == ExtractInstanceofTrueBranchOverrides(tree, use, tree[use].to, locals)
            proved == {t \in Tests(tree) : \A passed \in SUBSET (Tests(tree) \cup Others(tree)) :
                                              IsReached(tree, use, passed) => t \in passed}
            tested == SelectSeq([n \in DOMAIN tree |-> n], LAMBDA n : tree[n].kind = "instanceof_expression")
            once == \A i, j \in DOMAIN tested :
                      tree[Field(tree, tested[i], "left")].text = tree[Field(tree, tested[j], "left")].text => i = j
            inElse == \E i \in DOMAIN tree[use].path : tree[tree[use].path[i]].role = "alternative"
        IN /\ \A x \in DOMAIN facts : x \in locals /\ <<x, facts[x]>> \in proved
           /\ once /\ ~inElse => \A t \in proved : t[1] \in locals => t[1] \in DOMAIN facts
=============================================================================
