-------------------------- MODULE MCWorkspaceIndex ---------------------------
(* Modules m and n that depend on each other; file f is in the main root r   *)
(* of m, file g in n, which has no source root.                              *)
EXTENDS WorkspaceIndex, TLC

CONSTANTS f, g, m, n, r

MCModelA == [deps |-> (m :> <<n>> @@ n :> <<m>>),
             roots |-> (m :> (r :> "main") @@ n :> [x \in {} |-> "main"]),
             classpath |-> [x \in {m, n} |-> [c \in Classpath |-> <<>>]]]
MCModel == {MCModelA}

MCKey(x, root) == [module |-> x, classpath |-> "main", root |-> root]
MCContextOf == MCModelA :> (f :> MCKey(m, r) @@ g :> MCKey(n, NoRoot))
MCA == [internal_name |-> "A", origin |-> f]
MCB == [internal_name |-> "B", origin |-> f]
MCClass == {MCA, MCB}
MCTexts == f :> {<<>>, <<MCA>>, <<MCA, MCB>>} @@ g :> {}
MCArchiveNames == [e \in {Jdk} |-> {"Object"}]

Sym == Permutations(Reader)
=============================================================================
