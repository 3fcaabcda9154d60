------------------------------ MODULE TextSync -------------------------------
(***************************************************************************)
(* How an incremental didChange edits the server's copy of a document      *)
(* (lsp/server.rs did_change, language/rope_utils.rs), and what the client *)
(* has after the same changes.  Positions on the wire are a line and a     *)
(* column in UTF-16 units; the text is edited by byte offsets, and the     *)
(* syntax tree is told the edit in bytes and in rows and byte columns.     *)
(*                                                                         *)
(* A text is a sequence of characters: "a" (one byte, one unit), "z"       *)
(* (outside the basic plane: four bytes, two units), "nl", "cr" and "ff",  *)
(* a form feed.  An offset is the number of characters before it.          *)
(***************************************************************************)
EXTENDS Naturals, Sequences, FiniteSets

CONSTANT None

LOCAL INSTANCE SequencesExt
LOCAL INSTANCE FiniteSetsExt

Utf8Len(c) == IF c = "z" THEN 4 ELSE 1
Utf16Len(c) == IF c = "z" THEN 2 ELSE 1

Bytes(text) == FoldLeft(LAMBDA n, c : n + Utf8Len(c), 0, text)
Units(text) == FoldLeft(LAMBDA n, c : n + Utf16Len(c), 0, text)

(* Where a line ends: the rope's notion, with a form feed and its like      *)
(* among the ends of lines, and "\r\n" as one; the protocol's, without the  *)
(* form feed; and the parser's, where only "\n" ends a line.                *)
EndsRopeLine(text, i) ==
    text[i] \in {"nl", "ff"} \/ (text[i] = "cr" /\ ~(i < Len(text) /\ text[i + 1] = "nl"))
EndsClientLine(text, i) == EndsRopeLine(text, i) /\ text[i] # "ff"

Starts(text, Ends(_, _)) == {0} \cup {i \in DOMAIN text : Ends(text, i)}
StartOfLine(starts, line) == CHOOSE s \in starts : Cardinality({x \in starts : x < s}) = line

-----------------------------------------------------------------------------
(* The first offset in the line that has so many units before it, or the    *)
(* end of the line, behind its line break.                                  *)
RopeLineColInChars(text, line, character) ==
    LET starts == Starts(text, EndsRopeLine) IN
    IF line >= Cardinality(starts) THEN None
    ELSE LET start == StartOfLine(starts, line)
             end == Min({s \in starts : s > start} \cup {Len(text)})
         IN Min({start + character, end})

RopeLineColToOffset(text, line, character) ==
    LET starts == Starts(text, EndsRopeLine) IN
    IF line >= Cardinality(starts) THEN None
    ELSE LET start == StartOfLine(starts, line)
             end == Min({s \in starts : s > start} \cup {Len(text)})
         IN Min({i \in start..end : Units(SubSeq(text, start + 1, i)) >= character} \cup {end})

RopeOffsetInBytes(text, offset) ==
    LET before == {s \in Starts(text, EndsRopeLine) : s <= offset} IN
    [line |-> Cardinality(before) - 1, character |-> Bytes(SubSeq(text, Max(before) + 1, offset))]

RopeByteOffsetToLineCol(text, offset) ==
    LET before == {s \in Starts(text, EndsRopeLine) : s <= offset} IN
    [line |-> Cardinality(before) - 1, character |-> Units(SubSeq(text, Max(before) + 1, offset))]

Splice(text, from, to, inserted) ==
    SubSeq(text, 1, from) \o inserted \o SubSeq(text, to + 1, Len(text))

(* The row and byte column behind what was inserted.                        *)
PointAfterLastLine(point, inserted) ==
    [row |-> point.row + Cardinality({i \in DOMAIN inserted : inserted[i] = "nl"}),
     column |-> point.column + Bytes(inserted)]

PointAfterInsertBytes(point, inserted) ==
    LET newlines == {i \in DOMAIN inserted : inserted[i] = "nl"} IN
    IF newlines = {} THEN [point EXCEPT !.column = @ + Bytes(inserted)]
    ELSE [row |-> point.row + Cardinality(newlines),
          column |-> Bytes(SubSeq(inserted, Max(newlines) + 1, Len(inserted)))]

(* One change: the whole text, or a range of it.  A range with an end       *)
(* outside the text is passed over.  A whole text ends the batch: changes   *)
(* after it are not looked at.                                              *)
FromLineOfRope(text, line, offset) ==
    [row |-> line,
     column |-> Bytes(SubSeq(text, StartOfLine(Starts(text, EndsRopeLine), line) + 1, offset))]

ApplyChange(doc, change) ==
    LET from == RopeLineColToOffset(doc.text, change.start.line, change.start.character)
        to == RopeLineColToOffset(doc.text, change.end.line, change.end.character)
        start == FromLineOfRope(doc.text, change.start.line, from)
    IN CASE doc.done -> doc
         [] ~doc.done /\ change.full -> [text |-> change.text, edits |-> <<>>, done |-> TRUE]
         [] ~doc.done /\ ~change.full /\ None \in {from, to} -> doc
         [] OTHER ->
              [text |-> Splice(doc.text, from, to, change.text), done |-> FALSE,
               edits |-> Append(doc.edits,
                 [from |-> from, to |-> to, new |-> from + Len(change.text),
                  old_text |-> doc.text, new_text |-> Splice(doc.text, from, to, change.text),
                  start |-> start, old_end |-> FromLineOfRope(doc.text, change.end.line, to),
                  new_end |-> PointAfterInsertBytes(start, change.text)])]

DidChange(text, changes) ==
    FoldLeft(ApplyChange, [text |-> text, edits |-> <<>>, done |-> FALSE], changes)

-----------------------------------------------------------------------------
(* What the client has and means.                                           *)

ClientPosition(text, offset) ==
    LET before == {s \in Starts(text, EndsClientLine) : s <= offset} IN
    [line |-> Cardinality(before) - 1, character |-> Units(SubSeq(text, Max(before) + 1, offset))]

(* A change as the user makes it, by offsets, and as it is sent.            *)
Sent(text, edit) ==
    [full |-> edit.full, text |-> edit.text,
     start |-> ClientPosition(text, edit.from), end |-> ClientPosition(text, edit.to)]

AfterEdit(text, edit) ==
    IF edit.full THEN edit.text ELSE Splice(text, edit.from, edit.to, edit.text)

(* Offsets inside "\r\n" are none a client has.                             *)
Boundary(text, i) == ~(i \in 1..(Len(text) - 1) /\ text[i] = "cr" /\ text[i + 1] = "nl")

ParserPoint(text, offset) ==
    LET newlines == {i \in 1..offset : text[i] = "nl"} IN
    [row |-> Cardinality(newlines),
     column |-> Bytes(SubSeq(text, Max({0} \cup newlines) + 1, offset))]

HasFormFeed(text) == "ff" \in ToSet(text)
OnlyNewlines(text) == \A i \in DOMAIN text : EndsRopeLine(text, i) => text[i] = "nl"

(* After a change of one range, the server has the client's text, whatever  *)
(* characters outside the basic plane and line breaks there are, unless a   *)
(* form feed makes the rope's lines differ from the client's.               *)
ServerHasClientText(text, edit) ==
    ~HasFormFeed(text) =>
        DidChange(text, <<Sent(text, edit)>>).text = AfterEdit(text, edit)

(* The changes of a batch are each made to the result of the ones before,   *)
(* as long as a whole text is the last of them.                             *)
BatchFollowsClient(text, first, second) ==
    LET between == AfterEdit(text, first) IN
    ~first.full =>
      DidChange(text, <<Sent(text, first), Sent(between, second)>>).text = AfterEdit(between, second)

(* A position the server sends is read back as the offset it was made from. *)
PositionsRoundTrip(text) ==
    \A i \in 0..Len(text) :
        LET at == RopeByteOffsetToLineCol(text, i) IN
        /\ RopeLineColToOffset(text, at.line, at.character) = i
        /\ ~HasFormFeed(text) => at = ClientPosition(text, i)

(* The parser is told the edit at the rows and columns it counts itself, in *)
(* a text whose lines all end in "\n".                                      *)
EditPointsMatchParser(text, edit) ==
    \A e \in ToSet(DidChange(text, <<Sent(text, edit)>>).edits) :
        OnlyNewlines(e.old_text) =>
            /\ e.start = ParserPoint(e.old_text, e.from)
            /\ e.old_end = ParserPoint(e.old_text, e.to)
            /\ e.new_end = ParserPoint(e.new_text, e.new)
=============================================================================
