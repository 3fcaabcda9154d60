----------------------------- MODULE SyntaxTree ------------------------------
(***************************************************************************)
(* The syntax trees that the parser builds, as the Java support uses them: *)
(* a tree is the sequence of its nodes in the order in which they begin, a *)
(* node is its index.  A node has a kind, the role (field name) it has in  *)
(* its parent, the text of a token, the offsets where it begins and ends,  *)
(* its path to the root, itself first, and the index of the last node in   *)
(* it.  Tokens are two characters long and one apart.                      *)
(*                                                                         *)
(* The parser and the crate tree_sitter_utils are not in the repository:   *)
(* this module is what the code in src/ relies on.                         *)
(***************************************************************************)
EXTENDS Naturals, Sequences

CONSTANT None

LOCAL INSTANCE SequencesExt
LOCAL INSTANCE FiniteSetsExt

(* A tree is laid out from nested terms.                                    *)
Term(kind, role, kids) == [kind |-> kind, role |-> role, text |-> None, kids |-> kids]
Leaf(kind, role, text) == [kind |-> kind, role |-> role, text |-> text, kids |-> <<>>]
Token(text) == Leaf(text, None, text)

RECURSIVE Lay(_, _, _, _)
Lay(term, path, id, at) ==
    LET AddKid(laid, kid) ==
          laid \o Lay(kid, <<id>> \o path, id + 1 + Len(laid), IF laid = <<>> THEN at ELSE Last(laid).to + 1)
        kids == FoldLeft(AddKid, <<>>, term.kids)
    IN << [kind |-> term.kind, role |-> term.role, text |-> term.text, path |-> <<id>> \o path,
           from |-> at, to |-> IF kids = <<>> THEN at + 2 ELSE Last(kids).to, last |-> id + Len(kids)] >> \o kids

(* The tree of a file that starts with so many blanks.                      *)
Parse(term, blanks) == Lay(term, <<>>, 1, blanks)

Root == 1
Within(tree, n) == n..tree[n].last
Parent(tree, n) == IF n = Root THEN None ELSE tree[n].path[2]
Children(tree, n) ==
    SelectSeq([i \in 1..(tree[n].last - n) |-> n + i], LAMBDA c : tree[c].path[2] = n)
ChildrenOfKind(tree, n, kinds) == SelectSeq(Children(tree, n), LAMBDA c : tree[c].kind \in kinds)
FirstOrNone(s) == IF s = <<>> THEN None ELSE s[1]
FirstOfKind(tree, n, kinds) == FirstOrNone(ChildrenOfKind(tree, n, kinds))
Field(tree, n, role) == FirstOrNone(SelectSeq(Children(tree, n), LAMBDA c : tree[c].role = role))
NextSibling(tree, n) ==
    FirstOrNone(SelectSeq(Children(tree, Parent(tree, n)), LAMBDA c : c > n))
(* The first token of a node: where its text begins.                        *)
FirstToken(tree, n) == CHOOSE t \in Within(tree, n) : tree[t].text # None /\ \A u \in Within(tree, n) : tree[u].text # None => t <= u

(* The nearest of the node's ancestors, and of the node and its ancestors,  *)
(* of one of the kinds.                                                     *)
AncestorOfKinds(tree, n, kinds) ==
    FirstOrNone(SelectSeq(Tail(tree[n].path), LAMBDA a : tree[a].kind \in kinds))
Enclosing(tree, n, kinds) ==
    IF n = None THEN None ELSE FirstOrNone(SelectSeq(tree[n].path, LAMBDA a : tree[a].kind \in kinds))

(* Punctuation and keywords are nodes without a name.                       *)
Anonymous == {"{", "}", "(", ")", ";", ",", ".", "->", "=", "class", "interface", "enum", "record", "if", "for",
              "catch", "new", "@", "::", ":", "!", "&&", "||", "instanceof", "[", "]", "<", ">", "import", "package",
              "extends", "implements", "permits", "public", "static", "abstract", "final", "@interface", "...", "&", "?", "+", "-", "==",
              "break", "continue", "return"}
IsNamed(tree, n) == tree[n].kind \notin Anonymous

(* The smallest named node that spans the range.                            *)
NamedDescendant(tree, from, to) ==
    LET spanning == {n \in DOMAIN tree : IsNamed(tree, n) /\ tree[n].from <= from /\ to <= tree[n].to}
    IN IF spanning = {} THEN Root ELSE Max(spanning)

(* The identifiers where the cursor is put.                                 *)
Cursor == "cursor"
Uses(tree) == {n \in DOMAIN tree : tree[n].text = Cursor}

(* find_node_by_offset returns a node of the kind at the offset, if there   *)
(* is one; the code does not say which.                                     *)
NodesByOffset(tree, kind, offset) ==
    {n \in DOMAIN tree : tree[n].kind = kind /\ tree[n].from <= offset /\ offset <= tree[n].to}
=============================================================================
