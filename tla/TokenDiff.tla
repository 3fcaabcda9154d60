------------------------------ MODULE TokenDiff ------------------------------
(***************************************************************************)
(* diff_semantic_tokens (lsp/handlers/semantic_tokens.rs): the edit that a *)
(* delta answer carries, and what a client makes of it.                    *)
(***************************************************************************)
EXTENDS Naturals, Sequences, FiniteSetsExt, SequencesExt

\* The integers a token takes in the array that is sent (lsp_types' SemanticToken).
TokenWidth == 5

Flat(tokens) ==
    [i \in 1..(TokenWidth * Len(tokens)) |->
        <<tokens[((i - 1) \div TokenWidth) + 1], (i - 1) % TokenWidth>>]

CommonPrefix(a, b) ==
    Max({n \in 0..Min({Len(a), Len(b)}) : SubSeq(a, 1, n) = SubSeq(b, 1, n)})

Drop(s, n) == SubSeq(s, n + 1, Len(s))

CommonSuffix(a, b) == CommonPrefix(Reverse(a), Reverse(b))

\* The suffix of the whole sequences, which may overlap the prefix.
DiffOverlapping(old, new) ==
    LET prefix == CommonPrefix(old, new)
        suffix == CommonSuffix(old, new)
    IN  IF old = new THEN <<>>
        ELSE <<[start |-> prefix, delete_count |-> Len(old) - suffix - prefix,
                data |-> SubSeq(new, prefix + 1, Len(new) - suffix)]>>

DiffSemanticTokens(old, new) ==
    LET prefix == CommonPrefix(old, new)
        suffix == CommonSuffix(Drop(old, prefix), Drop(new, prefix))
    IN  IF old = new THEN <<>>
        ELSE <<[start |-> prefix, delete_count |-> Len(old) - suffix - prefix,
                data |-> SubSeq(new, prefix + 1, Len(new) - suffix)]>>

Splice(s, start, count, data) == SubSeq(s, 1, start) \o data \o Drop(s, start + count)

\* What the edit says when its numbers are read as numbers of tokens.
ApplyToTokens(edits, old) ==
    IF edits = <<>> THEN old
    ELSE Splice(old, edits[1].start, edits[1].delete_count, edits[1].data)

\* What a client does: the protocol counts start and delete_count in elements of
\* the array of integers it was sent.
ApplyToArray(edits, array) ==
    IF edits = <<>> THEN array
    ELSE Splice(array, edits[1].start, edits[1].delete_count, Flat(edits[1].data))

\* The edit turns the old tokens into the new ones, as the comment of
\* diff_semantic_tokens says, and none that deletes fewer tokens does.
DiffTransforms(old, new) ==
    LET edits == DiffSemanticTokens(old, new)
        Keeps(p, q) == /\ SubSeq(old, 1, p) = SubSeq(new, 1, p)
                       /\ Drop(old, Len(old) - q) = Drop(new, Len(new) - q)
    IN  /\ ApplyToTokens(edits, old) = new
        /\ \A k \in 1..Len(edits), p, q \in 0..Min({Len(old), Len(new)}) :
               p + q <= Min({Len(old), Len(new)}) /\ Keeps(p, q)
                   => edits[k].delete_count <= Len(old) - p - q
=============================================================================
