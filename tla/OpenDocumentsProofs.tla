------------------------ MODULE OpenDocumentsProofs -------------------------
(***************************************************************************)
(* Proofs about open documents: no interleaving of handlers, debounced     *)
(* reindexes, reconciliations, watcher jobs, requests and full reindexes   *)
(* makes the index show an old text or the disk for an open document, or   *)
(* an overlay for a closed one, unless two writers met or the version of   *)
(* an edit was taken away; for any documents, texts, models and tasks.     *)
(*                                                                         *)
(* The argument follows one document.  Two writers between their look at   *)
(* it and their update of its entry have both been marked, so a writer     *)
(* that has not been is alone: what it read is still true when it writes.  *)
(* An edit is either still to be taken up by a task (Due), carried by such *)
(* a writer (Carries), or shown.                                           *)
(***************************************************************************)
EXTENDS OpenDocuments, FiniteSetTheorems, TLAPS

-----------------------------------------------------------------------------
(* One document.                                                            *)

\* A task sleeps on its version, or is about to take its snapshot.
DueBy(t, u) ==
    /\ t \in Task /\ writer[t].uri = u /\ Open(u)
    /\ \/ writer[t].pc = "begin"
       \/ /\ writer[t].pc = "asleep"
          /\ writer[t].version = documents[u].version
          /\ writer[t].version = pending[u]
Due(u) == \E t \in Task : DueBy(t, u)

\* Its reconciliation has not looked at it yet.
CloseDue(u) ==
    writer["closer"].uri = u /\ writer["closer"].pc \in {"check", "guard"}

\* A writer that is past its look at the document changes its entry; a
\* request does not, and Salsa files are dropped after the entry is changed.
WillWrite(x) == x # "request" /\ (x # "rebuild" => writer[x].pc # "forget")

\* What the writer x holds makes it write the text of the open document.
WriterCarries(x, u) ==
    LET text == documents[u].text
        bucket == ContextOf[model][u] IN
    \/ writer[x].pc = "sync" /\ writer[x].text = text
    \/ writer[x].pc = "context" /\ content[u][writer[x].file] = text
    \/ /\ writer[x].pc = "extract" /\ content[u][writer[x].file] = text
       /\ writer[x].bucket = bucket
    \/ writer[x].pc = "update" /\ writer[x].text = text /\ writer[x].bucket = bucket

\* The full reindex shows it as well, or it leaves it out.
RebuildCarries(u) ==
    LET text == documents[u].text
        unsaved == rebuild.target = NoModel /\ Disk[u] = Absent IN
    \/ rebuild.pc = "reapply" /\ rebuild.open[u] = text
    \/ /\ rebuild.pc = "reread" /\ rebuild.file[u] \in Handle
       /\ content[u][rebuild.file[u]] = text
    \/ /\ rebuild.pc = "read"
       /\ IF rebuild.file[u] \in Handle THEN content[u][rebuild.file[u]] = text
          ELSE unsaved
    \/ rebuild.pc \in {"prune", "replace"} /\ (rebuild.index[u] = text \/ unsaved)

Carries(x, u) == IF x = "rebuild" THEN RebuildCarries(u) ELSE WriterCarries(x, u)

\* The same of a closed document, whose file on disk is written back.
CarriesDisk(x, u) ==
    /\ x # "rebuild"
    /\ \/ writer[x].pc \in {"resolve", "forget"}
       \/ /\ writer[x].pc = "upsert" /\ writer[x].text = Disk[u]
          /\ writer[x].bucket = ContextOf[model][u]

\* Who meets is marked.
MeetRight(u) ==
    \A x, y \in Writing(u) : x # y => <<x, u>> \in overlapped

\* The text is due, or every writer that met no other one carries it, and the
\* entry shows it unless somebody is going to write.
OpenRight(u) ==
    Open(u) /\ ~dropped[u] /\ ~Due(u) =>
        /\ \A x \in Writing(u) : <<x, u>> \in overlapped \/ Carries(x, u)
        /\ serial[u] /\ ~LeftOut(u) =>
              Shown(u) = documents[u].text \/ \E x \in Writing(u) : WillWrite(x)

ClosedRight(u) ==
    ~Open(u) /\ rebuilds = 0 /\ ~CloseDue(u) =>
        /\ \A x \in Writing(u) : <<x, u>> \in overlapped \/ CarriesDisk(x, u)
        /\ serial[u] => Shown(u) = Disk[u] \/ \E x \in Writing(u) : WillWrite(x)

\* The writer has nothing to do with the document.
Apart(w, u) ==
    w \notin Writing(u) /\ ~DueBy(w, u) /\ ~(w = "closer" /\ CloseDue(u))

DocumentRight(u) == MeetRight(u) /\ OpenRight(u) /\ ClosedRight(u)

-----------------------------------------------------------------------------
(* What holds of the store, the writers and the reindex, part by part.      *)

Documents == [version: 0 .. MaxVersion, text: Text]
Writers == [pc: Pc, uri: Uri, version: 0 .. MaxVersion, text: Content,
            file: Handle \cup {None}, bucket: Bucket]
Reindexes == [pc: {"off", "scan", "inputs", "read", "overlay", "reapply",
                   "reread", "prune", "replace"},
              target: Models, index: [Uri -> Content],
              open: [Uri -> Content], file: [Uri -> Handle \cup {None}]]

DocsRight ==
    /\ documents \in [Uri -> Documents \cup {None}]
    /\ pending \in [Uri -> 0 .. MaxVersion \cup {None}]
    /\ dropped \in [Uri -> BOOLEAN]

SalsaRight ==
    /\ files \in [Uri -> Handle \cup {None}]
    /\ content \in [Uri -> [Handle -> Content]]

IndexRight ==
    /\ model \in Models /\ classes \in [Bucket -> [Uri -> Content]]
    /\ serial \in [Uri -> BOOLEAN]

\* A writer that has synced its Salsa file keeps the handle.
WritersRight ==
    /\ writer \in [Writer -> Writers]
    /\ \A w \in Writer :
           writer[w].pc \in {"context", "extract"} => writer[w].file \in Handle

\* A reindex is counted; it has taken the paths that are on disk.
ReindexRight ==
    /\ rebuild \in Reindexes
    /\ rebuild.pc # "off" => rebuilds > 0
    /\ rebuild.pc = "inputs" =>
          \A u \in Uri : rebuild.index[u] = Absent <=> Disk[u] = Absent

HistoryRight == overlapped \subseteq (Writer \X Uri) \cup ({"rebuild"} \X Uri)

CountersRight ==
    saves \in Nat /\ closes \in Nat /\ jobs \in Nat /\ requests \in Nat /\ rebuilds \in Nat

Shape ==
    /\ DocsRight /\ SalsaRight /\ IndexRight /\ WritersRight
    /\ ReindexRight /\ HistoryRight /\ CountersRight

AllRight == \A u \in Uri : DocumentRight(u)

DocumentsInv == Shape /\ AllRight

\* What a step leaves alone stays right.
LEMMA Unmoved ==
  /\ DocsRight /\ UNCHANGED docVars => DocsRight'
  /\ SalsaRight /\ UNCHANGED salsaVars => SalsaRight'
  /\ IndexRight /\ UNCHANGED indexVars => IndexRight'
  /\ WritersRight /\ UNCHANGED writer => WritersRight'
  /\ ReindexRight /\ UNCHANGED <<rebuild, rebuilds>> => ReindexRight'
  /\ HistoryRight /\ UNCHANGED overlapped => HistoryRight'
  /\ CountersRight /\ UNCHANGED counters => CountersRight'
<1>1. DocsRight /\ UNCHANGED docVars => DocsRight'
  BY DEF DocsRight, docVars
<1>2. SalsaRight /\ UNCHANGED salsaVars => SalsaRight'
  BY DEF SalsaRight, salsaVars
<1>3. IndexRight /\ UNCHANGED indexVars => IndexRight'
  BY DEF IndexRight, indexVars
<1>4. WritersRight /\ UNCHANGED writer => WritersRight'
  BY DEF WritersRight
<1>5. ReindexRight /\ UNCHANGED <<rebuild, rebuilds>> => ReindexRight'
  BY DEF ReindexRight
<1>6. HistoryRight /\ UNCHANGED overlapped => HistoryRight'
  BY DEF HistoryRight
<1>7. CountersRight /\ UNCHANGED counters => CountersRight'
  BY DEF CountersRight, counters
<1> QED
  BY <1>1, <1>2, <1>3, <1>4, <1>5, <1>6, <1>7

-----------------------------------------------------------------------------
(* Handles: there is always one that nobody refers to.                      *)

\* One element more.
LEMMA OneMore ==
  ASSUME NEW S, NEW x, IsFiniteSet(S)
  PROVE  /\ IsFiniteSet(S \cup {x}) /\ Cardinality(S \cup {x}) \in Nat
         /\ Cardinality(S \cup {x}) <= Cardinality(S) + 1
<1>1. IsFiniteSet(S \cup {x})
  BY FS_AddElement
<1>2. Cardinality(S) \in Nat /\ Cardinality(S \cup {x}) \in Nat
  BY <1>1, FS_CardinalityType
<1>3. Cardinality(S \cup {x}) = IF x \in S THEN Cardinality(S) ELSE Cardinality(S) + 1
  BY FS_AddElement
<1> QED
  BY <1>1, <1>2, <1>3

\* The writers are finitely many: as many as the tasks and four.
LEMMA WritersFinite ==
  IsFiniteSet(Writer) /\ Cardinality(Writer) <= Cardinality(Task) + 4
<1> DEFINE S1 == Task \cup {"handler"}
           S2 == S1 \cup {"closer"}
           S3 == S2 \cup {"watcher"}
           S4 == S3 \cup {"request"}
<1>0. IsFiniteSet(Task) /\ Cardinality(Task) \in Nat
  BY TaskAssumption, FS_CardinalityType
<1>1. IsFiniteSet(S1) /\ Cardinality(S1) \in Nat /\ Cardinality(S1) <= Cardinality(Task) + 1
  BY <1>0, OneMore
<1>2. IsFiniteSet(S2) /\ Cardinality(S2) \in Nat /\ Cardinality(S2) <= Cardinality(S1) + 1
  <2> HIDE DEF S1
  <2> QED  BY <1>1, OneMore
<1>3. IsFiniteSet(S3) /\ Cardinality(S3) \in Nat /\ Cardinality(S3) <= Cardinality(S2) + 1
  <2> HIDE DEF S2
  <2> QED  BY <1>2, OneMore
<1>4. IsFiniteSet(S4) /\ Cardinality(S4) \in Nat /\ Cardinality(S4) <= Cardinality(S3) + 1
  <2> HIDE DEF S3
  <2> QED  BY <1>3, OneMore
<1>5. Writer = S4
  BY DEF Writer
<1> HIDE DEF S1, S2, S3, S4
<1> QED
  BY <1>0, <1>1, <1>2, <1>3, <1>4, <1>5

\* More handles than the writers, the reindex and salsa_files refer to.
LEMMA FreshHandle ==
  ASSUME NEW u \in Uri, Shape
  PROVE  Fresh(u) \in Handle /\ FileOf(u) \in Handle
<1> DEFINE held == {writer[w].file : w \in Writer}
           file == [w \in Writer |-> writer[w].file]
           more == held \cup {files[u]}
           used == more \cup {rebuild.file[u]}
<1>1. IsFiniteSet(Writer) /\ Cardinality(Writer) \in Nat /\ Cardinality(Task) \in Nat
  BY WritersFinite, TaskAssumption, FS_CardinalityType
<1>2. file \in Surjection(Writer, held)
  BY DEF Surjection
<1>3. IsFiniteSet(held) /\ Cardinality(held) \in Nat /\ Cardinality(held) <= Cardinality(Task) + 4
  <2>1. IsFiniteSet(held) /\ Cardinality(held) <= Cardinality(Writer)
    <3> HIDE DEF held, file
    <3> QED  BY <1>1, <1>2, FS_Surjection
  <2> QED
    BY <2>1, <1>1, WritersFinite, FS_CardinalityType
<1>4. IsFiniteSet(more) /\ Cardinality(more) \in Nat /\ Cardinality(more) <= Cardinality(held) + 1
  <2> HIDE DEF held
  <2> QED  BY <1>3, OneMore
<1>5. IsFiniteSet(used) /\ Cardinality(used) \in Nat /\ Cardinality(used) <= Cardinality(more) + 1
  <2> HIDE DEF more
  <2> QED  BY <1>4, OneMore
<1>6. ~(Handle \subseteq used)
  <2> SUFFICES ASSUME Handle \subseteq used PROVE FALSE
    OBVIOUS
  <2> HIDE DEF used, more, held
  <2>1. IsFiniteSet(Handle) /\ Cardinality(Handle) <= Cardinality(used)
    BY <1>5, FS_Subset
  <2>2. Cardinality(Handle) \in Nat
    BY <2>1, FS_CardinalityType
  <2> QED
    BY <2>1, <2>2, <1>1, <1>3, <1>4, <1>5, HandleAssumption
<1>7. PICK h \in Handle : h \notin used
  BY <1>6
<1>8. Fresh(u) \in Handle
  BY <1>7 DEF Fresh
<1>9. files[u] \in Handle \cup {None}
  BY DEF Shape, SalsaRight
<1> QED
  BY <1>8, <1>9 DEF FileOf

-----------------------------------------------------------------------------
(* Writers one by one.                                                      *)

LEMMA Names ==
  /\ "handler" \in Writer /\ "closer" \in Writer /\ "watcher" \in Writer
  /\ "request" \in Writer /\ Task \subseteq Writer /\ "rebuild" \notin Writer
  /\ \A t \in Task : t # "handler" /\ t # "closer" /\ t # "watcher" /\ t # "request"
BY TaskAssumption DEF Writer

\* Who is writing a document.
LEMMA AtWork ==
  ASSUME NEW u, NEW x
  PROVE  x \in Writing(u) <=>
           \/ /\ x \in Writer /\ writer[x].uri = u
              /\ writer[x].pc \notin {"off", "asleep", "begin", "settle", "clear",
                                      "check", "guard"}
           \/ /\ x = "rebuild"
              /\ \/ rebuild.pc \in {"reapply", "reread", "prune", "replace"}
                 \/ rebuild.pc = "read" /\ rebuild.target = NoModel
BY DEF Writing

\* The next writer of a step of w is one that the type allows.
LEMMA WriterMoves ==
  ASSUME Shape, NEW w \in Writer, NEW r \in Writers,
         writer' = [writer EXCEPT ![w] = r],
         r.pc \in {"context", "extract"} => r.file \in Handle
  PROVE  WritersRight'
BY DEF Shape, WritersRight

LEMMA OffWriter ==
  ASSUME Shape, NEW u \in Uri
  PROVE  Off(u) \in Writers /\ Off(u).pc = "off" /\ Off(u).uri = u
<1>1. ContextOf[NoModel][u] \in Bucket
  BY ContextAssumption DEF Models
<1>2. Absent \in Content /\ "off" \in Pc /\ 0 \in 0 .. MaxVersion
  BY BoundAssumption DEF Content, Pc
<1> QED
  BY <1>1, <1>2 DEF Off, Writers

LEMMA AnyUriIsOne == ASSUME NEW u \in Uri PROVE AnyUri \in Uri
BY DEF AnyUri

\* A writer that stops.
LEMMA StopShape ==
  ASSUME Shape, NEW w \in Writer, NEW u \in Uri, Stop(w)
  PROVE  WritersRight'
<1>1. Off(AnyUri) \in Writers /\ Off(AnyUri).pc = "off"
  BY AnyUriIsOne, OffWriter
<1> QED
  BY <1>1, WriterMoves DEF Stop

\* A writer that goes on.
LEMMA StepShape ==
  ASSUME Shape, NEW w \in Writer, NEW pc \in Pc \ {"context", "extract"}, Step(w, pc)
  PROVE  WritersRight'
<1> DEFINE r == [writer[w] EXCEPT !.pc = pc]
<1>1. writer[w] \in Writers
  BY DEF Shape, WritersRight
<1>2. r \in Writers /\ r.pc = pc
  BY <1>1 DEF Writers
<1>3. writer' = [writer EXCEPT ![w] = r]
  BY DEF Step
<1> QED
  BY <1>2, <1>3, WriterMoves

\* The history stays one of writers and documents.
LEMMA EnterShape ==
  ASSUME HistoryRight, NEW w \in Writer \cup {"rebuild"}, NEW us \in SUBSET Uri, Enter(w, us)
  PROVE  HistoryRight'
BY DEF HistoryRight, Enter, Writing

\* A writer that enters: from then on it is alone, or all of them are marked.
LEMMA Entered ==
  ASSUME NEW w, NEW us, NEW u \in us, Enter(w, us)
  PROVE  /\ \A x \in Writing(u) \ {w} : <<x, u>> \in overlapped' /\ <<w, u>> \in overlapped'
         /\ Writing(u) \subseteq {w} => <<w, u>> \notin overlapped'
<1> DEFINE Others(v) == Writing(v) \ {w}
           met == UNION {{<<x, v>> : x \in Others(v) \cup {w}} :
                           v \in {v \in us : Others(v) # {}}}
<1>1. overlapped' = {p \in overlapped : p[1] # w} \cup met
  BY DEF Enter
<1> HIDE DEF Others
<1>2. ASSUME NEW x \in Others(u) PROVE <<x, u>> \in met /\ <<w, u>> \in met
  BY <1>2
<1>3. ASSUME Others(u) = {} PROVE <<w, u>> \notin met
  BY <1>3
<1> HIDE DEF met
<1>4. Writing(u) \subseteq {w} => Others(u) = {}
  BY DEF Others
<1>5. Others(u) = Writing(u) \ {w}
  BY DEF Others
<1> QED
  BY <1>1, <1>2, <1>3, <1>4, <1>5

\* Elsewhere the marks of the others stay.
LEMMA EnteredElsewhere ==
  ASSUME NEW w, NEW us, Enter(w, us), NEW v, NEW x \in Writing(v) \ {w},
         <<x, v>> \in overlapped
  PROVE  <<x, v>> \in overlapped'
BY DEF Enter

-----------------------------------------------------------------------------
(* Documents one by one.                                                    *)

\* A document stays right when nothing of it changes, only writers move that
\* are not writing it, and what is due stays due.
LEMMA Kept ==
  ASSUME Shape, NEW v \in Uri, DocumentRight(v),
         documents'[v] = documents[v], content'[v] = content[v],
         model' = model, serial'[v] = serial[v],
         \A b \in Bucket : classes'[b][v] = classes[b][v],
         rebuild' = rebuild, rebuilds' = rebuilds,
         \A w \in Writer : writer'[w] = writer[w] \/ w \notin Writing(v) \cup Writing(v)',
         \A x \in Writing(v) : <<x, v>> \in overlapped => <<x, v>> \in overlapped',
         Open(v) /\ ~dropped'[v] /\ ~Due(v)' => ~dropped[v] /\ ~Due(v),
         ~Open(v) /\ CloseDue(v) => CloseDue(v)'
  PROVE  DocumentRight(v)'
<1>1. Writing(v)' = Writing(v)
  <2>1. \A x \in Writer : x \in Writing(v)' <=> x \in Writing(v)
    BY AtWork, Names DEF Writing
  <2>2. "rebuild" \in Writing(v)' <=> "rebuild" \in Writing(v)
    BY AtWork, Names DEF Writing
  <2> QED
    BY <2>1, <2>2 DEF Writing
<1>2. \A x \in Writing(v) \cap Writer : writer'[x] = writer[x]
  OBVIOUS
<1>3. Open(v)' <=> Open(v)
  BY DEF Open
<1>4. Shown(v)' = Shown(v) /\ (LeftOut(v)' <=> LeftOut(v))
  <2>1. ContextOf[model][v] \in Bucket
    BY ContextAssumption DEF Shape, IndexRight, Models
  <2> QED
    BY <2>1 DEF Shown, LeftOut
<1>5. ASSUME NEW x \in Writing(v)
      PROVE  /\ WillWrite(x)' <=> WillWrite(x)
             /\ Carries(x, v)' <=> Carries(x, v)
             /\ CarriesDisk(x, v)' <=> CarriesDisk(x, v)
  <2>1. CASE x = "rebuild"
    BY <2>1 DEF WillWrite, Carries, CarriesDisk, RebuildCarries
  <2>2. CASE x # "rebuild"
    <3>1. x \in Writer
      BY <2>2, AtWork
    <3>2. writer'[x] = writer[x]
      BY <3>1, <1>2
    <3> QED
      BY <2>2, <3>2 DEF WillWrite, Carries, CarriesDisk, WriterCarries
  <2> QED
    BY <2>1, <2>2
<1>6. MeetRight(v)'
  BY <1>1 DEF DocumentRight, MeetRight
<1>7. OpenRight(v)'
  BY <1>1, <1>3, <1>4, <1>5 DEF DocumentRight, OpenRight
<1>8. ClosedRight(v)'
  BY <1>1, <1>3, <1>4, <1>5 DEF DocumentRight, ClosedRight
<1> QED
  BY <1>6, <1>7, <1>8 DEF DocumentRight

\* A writer of another document, or one that is off, is apart.
LEMMA ApartWriter ==
  ASSUME NEW w \in Writer, NEW v, writer[w].uri # v \/ writer[w].pc \in {"off", "settle", "clear"}
  PROVE  Apart(w, v)
BY AtWork, Names DEF Apart, DueBy, CloseDue

\* A document that a step has nothing to do with.
LEMMA Elsewhere ==
  ASSUME Shape, NEW v \in Uri, DocumentRight(v),
         documents'[v] = documents[v], pending'[v] = pending[v], dropped'[v] = dropped[v],
         content'[v] = content[v], model' = model, serial'[v] = serial[v],
         \A b \in Bucket : classes'[b][v] = classes[b][v],
         rebuild' = rebuild, rebuilds' = rebuilds,
         \A w \in Writer : writer'[w] = writer[w] \/ (Apart(w, v) /\ Apart(w, v)'),
         \A x \in Writing(v) : <<x, v>> \in overlapped => <<x, v>> \in overlapped'
  PROVE  DocumentRight(v)'
<1>1. Open(v)' <=> Open(v)
  BY DEF Open
<1>2. Due(v)' <=> Due(v)
  <2>1. ASSUME NEW t \in Task PROVE DueBy(t, v)' <=> DueBy(t, v)
    BY Names, <1>1 DEF Apart, DueBy
  <2> QED
    BY <2>1 DEF Due
<1>3. CloseDue(v)' <=> CloseDue(v)
  BY Names DEF Apart, CloseDue
<1>4. \A w \in Writer : writer'[w] = writer[w] \/ w \notin Writing(v) \cup Writing(v)'
  BY DEF Apart
<1> QED
  BY <1>1, <1>2, <1>3, <1>4, Kept

\* Only w moves, and nobody begins to write u.
Moves(w, u) ==
    /\ Writing(u)' \subseteq Writing(u)
    /\ \A x \in Writing(u) \ {w} : x \in Writing(u)' /\ (x # "rebuild" => writer'[x] = writer[x])

\* A writer goes on: if it carried the text, it still does, and what it was
\* going to write it is going to write.
LEMMA GoesOn ==
  ASSUME Shape, NEW u \in Uri, DocumentRight(u), NEW w \in Writing(u), Moves(w, u),
         documents'[u] = documents[u], dropped'[u] = dropped[u], model' = model,
         serial'[u] = serial[u], rebuild' = rebuild, rebuilds' = rebuilds,
         \A b \in Bucket : classes'[b][u] = classes[b][u],
         overlapped' = overlapped,
         Due(u) => Due(u)', CloseDue(u) => CloseDue(u)',
         w \in Writing(u)' /\ Open(u) /\ Carries(w, u) => Carries(w, u)',
         w \in Writing(u)' /\ ~Open(u) /\ CarriesDisk(w, u) => CarriesDisk(w, u)',
         WillWrite(w) => w \in Writing(u)' /\ WillWrite(w)'
  PROVE  DocumentRight(u)'
<1>1. Open(u)' <=> Open(u)
  BY DEF Open
<1>2. Shown(u)' = Shown(u) /\ (LeftOut(u)' <=> LeftOut(u))
  <2>1. ContextOf[model][u] \in Bucket
    BY ContextAssumption DEF Shape, IndexRight, Models
  <2> QED
    BY <2>1 DEF Shown, LeftOut
<1>3. MeetRight(u)'
  BY DEF DocumentRight, MeetRight, Moves
<1>4. \A x \in Writing(u) \ {w} : <<x, u>> \in overlapped
  BY DEF DocumentRight, MeetRight
<1>5. (\E x \in Writing(u) : WillWrite(x)) => \E x \in Writing(u)' : WillWrite(x)'
  BY DEF Moves, WillWrite
<1>6. OpenRight(u)'
  BY <1>1, <1>2, <1>4, <1>5 DEF DocumentRight, OpenRight, Moves
<1>7. ClosedRight(u)'
  BY <1>1, <1>2, <1>4, <1>5 DEF DocumentRight, ClosedRight, Moves
<1> QED
  BY <1>3, <1>6, <1>7 DEF DocumentRight

\* A writer changes the entry: if it met nobody, what it carried is shown.
LEMMA Writes ==
  ASSUME Shape, NEW u \in Uri, DocumentRight(u), NEW w \in Writing(u), Moves(w, u),
         documents'[u] = documents[u], dropped'[u] = dropped[u], model' = model,
         serial'[u] = (<<w, u>> \notin overlapped), rebuild' = rebuild,
         rebuilds' = rebuilds, overlapped' = overlapped,
         Due(u) => Due(u)', CloseDue(u) => CloseDue(u)',
         Open(u) /\ Carries(w, u) => Shown(u)' = documents[u].text /\ w \notin Writing(u)',
         ~Open(u) /\ CarriesDisk(w, u) => Shown(u)' = Disk[u],
         w \in Writing(u)' => CarriesDisk(w, u)'
  PROVE  DocumentRight(u)'
<1>1. Open(u)' <=> Open(u)
  BY DEF Open
<1>2. LeftOut(u)' <=> LeftOut(u)
  BY DEF LeftOut
<1>3. MeetRight(u)'
  BY DEF DocumentRight, MeetRight, Moves
<1>4. \A x \in Writing(u) \ {w} : <<x, u>> \in overlapped
  BY DEF DocumentRight, MeetRight
<1>5. OpenRight(u)'
  BY <1>1, <1>2, <1>4 DEF DocumentRight, OpenRight, Moves
<1>6. ClosedRight(u)'
  BY <1>1, <1>4 DEF DocumentRight, ClosedRight, Moves
<1> QED
  BY <1>3, <1>5, <1>6 DEF DocumentRight

\* A writer that enters with what the document is by then.
LEMMA Enters ==
  ASSUME Shape, NEW u \in Uri, DocumentRight(u), NEW w, w \notin Writing(u),
         NEW us, u \in us, Enter(w, us),
         Writing(u)' = Writing(u) \cup {w},
         Open(u)' => Carries(w, u)',
         Open(u)' \/ CarriesDisk(w, u)' \/ rebuilds' > 0,
         \/ WillWrite(w)'
         \/ /\ documents'[u] = documents[u] /\ dropped'[u] = dropped[u]
            /\ Open(u) /\ Due(u)' = Due(u) /\ rebuilds' = rebuilds
            /\ serial'[u] = serial[u] /\ Shown(u)' = Shown(u)
            /\ LeftOut(u)' = LeftOut(u)
            /\ \A x \in Writing(u) : WillWrite(x) => WillWrite(x)'
  PROVE  DocumentRight(u)'
<1>1. /\ \A x \in Writing(u) \ {w} : <<x, u>> \in overlapped' /\ <<w, u>> \in overlapped'
      /\ Writing(u) \subseteq {w} => <<w, u>> \notin overlapped'
  BY Entered
<1>2. MeetRight(u)'
  BY <1>1 DEF MeetRight
<1>3. OpenRight(u)'
  BY <1>1 DEF DocumentRight, OpenRight, Open
<1>4. ClosedRight(u)'
  BY <1>1 DEF ClosedRight, Open
<1> QED
  BY <1>2, <1>3, <1>4 DEF DocumentRight

-----------------------------------------------------------------------------
(* Every step keeps what holds of the parts.                                *)

\* A document by its version and text.
LEMMA DocumentIs ==
  ASSUME NEW version \in 0 .. MaxVersion, NEW text \in Text
  PROVE  /\ [version |-> version, text |-> text] \in Documents
         /\ [version |-> version, text |-> text] # None
BY NoneAssumption DEF Documents

LEMMA OpenIs ==
  ASSUME Shape, NEW u \in Uri, Open(u)
  PROVE  /\ documents[u] \in Documents /\ documents[u].text \in Text
         /\ documents[u].version \in 0 .. MaxVersion /\ documents[u].text # Absent
BY TextAssumption DEF Shape, DocsRight, Documents, Open

\* A writer that was off starts with a text,
LEMMA StartedWith ==
  ASSUME NEW u \in Uri, NEW pc \in Pc, NEW text \in Content
  PROVE  /\ [Off(u) EXCEPT !.pc = pc, !.text = text] \in Writers
         /\ [Off(u) EXCEPT !.pc = pc, !.text = text].pc = pc
<1>1. ContextOf[NoModel][u] \in Bucket
  BY ContextAssumption DEF Models
<1>2. Absent \in Content /\ 0 \in 0 .. MaxVersion
  BY BoundAssumption DEF Content
<1> QED
  BY <1>1, <1>2 DEF Off, Writers

\* ... or with a version.
LEMMA StartedAt ==
  ASSUME NEW u \in Uri, NEW pc \in Pc, NEW version \in 0 .. MaxVersion
  PROVE  /\ [Off(u) EXCEPT !.pc = pc, !.version = version] \in Writers
         /\ [Off(u) EXCEPT !.pc = pc, !.version = version].pc = pc
<1>1. ContextOf[NoModel][u] \in Bucket
  BY ContextAssumption DEF Models
<1>2. Absent \in Content /\ 0 \in 0 .. MaxVersion
  BY BoundAssumption DEF Content
<1> QED
  BY <1>1, <1>2 DEF Off, Writers

LEMMA ReindexInlineShape ==
  ASSUME Shape, NEW u \in Uri, NEW text \in Text, ReindexInline(u, text)
  PROVE  WritersRight' /\ HistoryRight'
<1> DEFINE r == [Off(u) EXCEPT !.pc = "sync", !.text = text]
<1>1. r \in Writers /\ r.pc = "sync"
  <2>1. "sync" \in Pc /\ text \in Content
    BY DEF Pc, Content
  <2> QED
    BY <2>1, StartedWith
<1>2. WritersRight'
  BY <1>1, WriterMoves, Names DEF ReindexInline
<1>3. HistoryRight'
  <2>1. Enter("handler", {u}) /\ HistoryRight /\ {u} \in SUBSET Uri
    BY DEF ReindexInline, Shape
  <2> QED
    BY <2>1, EnterShape, Names
<1> QED
  BY <1>2, <1>3

LEMMA DidOpenShape ==
  ASSUME Shape, NEW u \in Uri, NEW text \in Text, DidOpen(u, text)
  PROVE  Shape'
<1>1. DocsRight'
  <2>1. [version |-> 0, text |-> text] \in Documents
    BY DocumentIs, BoundAssumption
  <2> QED
    BY <2>1 DEF Shape, DocsRight, DidOpen
<1>2. SalsaRight' /\ IndexRight' /\ ReindexRight' /\ CountersRight'
  BY Unmoved DEF DidOpen, Shape, counters
<1>3. WritersRight' /\ HistoryRight'
  BY ReindexInlineShape DEF DidOpen
<1> QED
  BY <1>1, <1>2, <1>3 DEF Shape

LEMMA DidChangeShape ==
  ASSUME Shape, NEW u \in Uri, NEW text \in Text, NEW t \in Task, DidChange(u, text, t)
  PROVE  Shape'
<1> DEFINE v == documents[u].version + 1
<1>1. v \in 0 .. MaxVersion
  BY OpenIs, BoundAssumption DEF DidChange
<1>2. DocsRight'
  <2>1. [version |-> v, text |-> text] \in Documents
    BY <1>1, DocumentIs
  <2>2. /\ documents' = [documents EXCEPT ![u] = [version |-> v, text |-> text]]
        /\ pending' = [pending EXCEPT ![u] = v] /\ dropped' = [dropped EXCEPT ![u] = FALSE]
    BY DEF DidChange
  <2> HIDE DEF v
  <2> QED
    BY <2>1, <2>2, <1>1 DEF Shape, DocsRight
<1>3. SalsaRight' /\ IndexRight' /\ ReindexRight' /\ HistoryRight' /\ CountersRight'
  BY Unmoved DEF DidChange, Shape, counters
<1>4. WritersRight'
  <2> DEFINE r == [Off(u) EXCEPT !.pc = "asleep", !.version = v]
  <2>1. writer' = [writer EXCEPT ![t] = r]
    BY DEF DidChange
  <2>2. r \in Writers /\ r.pc = "asleep"
    <3>1. "asleep" \in Pc
      BY DEF Pc
    <3> HIDE DEF v
    <3> QED  BY <1>1, <3>1, StartedAt
  <2> HIDE DEF r
  <2> QED
    BY <2>1, <2>2, WriterMoves, Names
<1> QED
  BY <1>2, <1>3, <1>4 DEF Shape

LEMMA DidSaveShape ==
  ASSUME Shape, NEW u \in Uri, NEW text \in Text, DidSave(u, text)
  PROVE  Shape'
<1>1. DocsRight'
  <2>1. documents[u] \in Documents
    BY OpenIs DEF DidSave
  <2>2. [documents[u] EXCEPT !.text = text] \in Documents
    BY <2>1 DEF Documents
  <2> QED
    BY <2>2 DEF Shape, DocsRight, DidSave
<1>2. SalsaRight' /\ IndexRight' /\ ReindexRight'
  BY Unmoved DEF DidSave, Shape
<1>3. WritersRight' /\ HistoryRight'
  BY ReindexInlineShape DEF DidSave
<1>4. CountersRight'
  BY DEF Shape, CountersRight, DidSave
<1> QED
  BY <1>1, <1>2, <1>3, <1>4 DEF Shape

LEMMA DidCloseShape ==
  ASSUME Shape, NEW u \in Uri, DidClose(u)
  PROVE  Shape'
<1> DEFINE r == [Off(u) EXCEPT !.pc = "check"]
<1>1. DocsRight'
  BY DEF Shape, DocsRight, DidClose
<1>2. SalsaRight' /\ IndexRight' /\ ReindexRight' /\ HistoryRight'
  BY Unmoved DEF DidClose, Shape
<1>3. WritersRight'
  <2>1. r \in Writers /\ r.pc = "check"
    BY OffWriter DEF Writers, Pc
  <2> QED
    BY <2>1, WriterMoves, Names DEF DidClose
<1>4. CountersRight'
  BY DEF Shape, CountersRight, DidClose
<1> QED
  BY <1>1, <1>2, <1>3, <1>4 DEF Shape

LEMMA WatchJobShape ==
  ASSUME Shape, NEW u \in Uri, WatchJob(u)
  PROVE  Shape'
<1> DEFINE r == [Off(u) EXCEPT !.pc = "guard"]
<1>1. DocsRight' /\ SalsaRight' /\ IndexRight' /\ ReindexRight' /\ HistoryRight'
  BY Unmoved DEF WatchJob, Shape
<1>2. WritersRight'
  <2>1. r \in Writers /\ r.pc = "guard"
    BY OffWriter DEF Writers, Pc
  <2> QED
    BY <2>1, WriterMoves, Names DEF WatchJob
<1>3. CountersRight'
  BY DEF Shape, CountersRight, WatchJob
<1> QED
  BY <1>1, <1>2, <1>3 DEF Shape

LEMMA RequestShape ==
  ASSUME Shape, NEW u \in Uri, Request(u)
  PROVE  Shape'
<1> DEFINE r == [Off(u) EXCEPT !.pc = "sync", !.text = documents[u].text]
<1>1. DocsRight' /\ SalsaRight' /\ IndexRight' /\ ReindexRight'
  BY Unmoved DEF Request, Shape
<1>2. WritersRight'
  <2>1. documents[u].text \in Content
    BY OpenIs DEF Request, Content
  <2>2. r \in Writers /\ r.pc = "sync"
    <3>1. "sync" \in Pc
      BY DEF Pc
    <3> QED
      BY <2>1, <3>1, StartedWith
  <2> QED
    BY <2>2, WriterMoves, Names DEF Request
<1>3. HistoryRight'
  <2>1. Enter("request", {u}) /\ HistoryRight /\ {u} \in SUBSET Uri
    BY DEF Request, Shape
  <2> QED
    BY <2>1, EnterShape, Names
<1>4. CountersRight'
  BY DEF Shape, CountersRight, Request
<1> QED
  BY <1>1, <1>2, <1>3, <1>4 DEF Shape

LEMMA ClientShape == Shape /\ Client => Shape'
BY DidOpenShape, DidChangeShape, DidSaveShape, DidCloseShape, WatchJobShape,
   RequestShape DEF Client

\* A writer keeps its uri and what its record holds.
LEMMA WriterIs ==
  ASSUME Shape, NEW w \in Writer
  PROVE  /\ writer[w] \in Writers /\ writer[w].uri \in Uri
         /\ ContextOf[model][writer[w].uri] \in Bucket
<1>1. writer[w] \in Writers
  BY DEF Shape, WritersRight
<1>2. model \in Model \cup {NoModel}
  BY DEF Shape, IndexRight, Models
<1> QED
  BY <1>1, <1>2, ContextAssumption DEF Writers

LEMMA SyncShape ==
  ASSUME Shape, NEW texts \in [Uri -> Content], SyncSalsa(texts)
  PROVE  SalsaRight'
<1>1. \A u \in Uri : FileOf(u) \in Handle
  BY FreshHandle
<1>2. files \in [Uri -> Handle \cup {None}] /\ content \in [Uri -> [Handle -> Content]]
  BY DEF Shape, SalsaRight
<1>3. files' \in [Uri -> Handle \cup {None}]
  BY <1>1, <1>2 DEF SyncSalsa
<1>4. content' \in [Uri -> [Handle -> Content]]
  <2>1. \A u \in Uri : [content[u] EXCEPT ![FileOf(u)] = texts[u]] \in [Handle -> Content]
    BY <1>2
  <2> QED
    BY <1>2, <2>1 DEF SyncSalsa
<1> QED
  BY <1>3, <1>4 DEF SalsaRight

LEMMA OnlyIs ==
  ASSUME NEW u \in Uri, NEW text \in Content
  PROVE  /\ Only(u, text) \in [Uri -> Content] /\ Only(u, text)[u] = text
         /\ \A v \in Uri \ {u} : Only(u, text)[v] = Absent
BY DEF Only, Nothing, Content

LEMMA WakeShape ==
  ASSUME Shape, NEW t \in Task, Wake(t)
  PROVE  Shape'
<1>1. WritersRight'
  <2>1. t \in Writer /\ writer[t].uri \in Uri
    BY Names, WriterIs
  <2>2. "begin" \in Pc \ {"context", "extract"}
    BY DEF Pc
  <2>3. Step(t, "begin") \/ Stop(t)
    BY DEF Wake
  <2> QED
    BY <2>1, <2>2, <2>3, StepShape, StopShape
<1> QED
  BY <1>1, Unmoved DEF Wake, Shape, counters

LEMMA TakeSnapshotShape ==
  ASSUME Shape, NEW t \in Task, TakeSnapshot(t)
  PROVE  Shape'
<1> DEFINE u == writer[t].uri
<1>1. t \in Writer /\ u \in Uri /\ writer[t] \in Writers
  BY Names, WriterIs
<1>2. WritersRight' /\ HistoryRight'
  <2>1. CASE Open(u)
    <3> DEFINE r == [writer[t] EXCEPT !.pc = "sync", !.text = documents[u].text]
    <3>1. documents[u].text \in Content /\ "sync" \in Pc
      BY <1>1, <2>1, OpenIs DEF Content, Pc
    <3>2. r \in Writers /\ r.pc = "sync"
      BY <1>1, <3>1 DEF Writers
    <3>3. writer' = [writer EXCEPT ![t] = r] /\ Enter(t, {u})
      BY <2>1 DEF TakeSnapshot
    <3>4. {u} \in SUBSET Uri /\ HistoryRight
      BY <1>1 DEF Shape
    <3> HIDE DEF r, u
    <3>5. WritersRight'
      BY <1>1, <3>2, <3>3, WriterMoves
    <3>6. HistoryRight'
      BY <1>1, <3>3, <3>4, EnterShape
    <3> QED
      BY <3>5, <3>6
  <2>2. CASE ~Open(u)
    <3>1. "settle" \in Pc \ {"context", "extract"}
      BY DEF Pc
    <3>2. Step(t, "settle") /\ UNCHANGED overlapped
      BY <2>2 DEF TakeSnapshot
    <3> QED
      BY <1>1, <3>1, <3>2, StepShape, Unmoved DEF Shape
  <2> QED
    BY <2>1, <2>2
<1> QED
  BY <1>2, Unmoved DEF TakeSnapshot, Shape, counters

LEMMA SyncFileShape ==
  ASSUME Shape, NEW w \in Writer, SyncFile(w)
  PROVE  Shape'
<1> DEFINE u == writer[w].uri
<1>1. u \in Uri /\ writer[w] \in Writers
  BY WriterIs
<1>2. SalsaRight'
  <2>1. Only(u, writer[w].text) \in [Uri -> Content]
    BY <1>1, OnlyIs DEF Writers
  <2> QED
    BY <2>1, SyncShape DEF SyncFile
<1>3. WritersRight'
  <2>1. CASE w = "request"
    BY <2>1, <1>1, StopShape DEF SyncFile
  <2>2. CASE w # "request"
    <3> DEFINE r == [writer[w] EXCEPT !.pc = "context", !.file = FileOf(u)]
    <3>1. FileOf(u) \in Handle /\ "context" \in Pc
      BY <1>1, FreshHandle DEF Pc
    <3>2. r \in Writers /\ r.file \in Handle
      <4> HIDE DEF u
      <4> QED  BY <1>1, <3>1 DEF Writers
    <3>3. writer' = [writer EXCEPT ![w] = r]
      BY <2>2 DEF SyncFile
    <3> HIDE DEF r
    <3> QED
      BY <3>2, <3>3, WriterMoves
  <2> QED
    BY <2>1, <2>2
<1> QED
  BY <1>2, <1>3, Unmoved DEF SyncFile, Shape, counters

LEMMA TakeContextShape ==
  ASSUME Shape, NEW w \in Writer, TakeContext(w)
  PROVE  Shape'
<1> DEFINE r == [writer[w] EXCEPT !.pc = "extract", !.bucket = ContextOf[model][writer[w].uri]]
<1>1. writer' = [writer EXCEPT ![w] = r]
  BY DEF TakeContext
<1>2. r \in Writers /\ r.file \in Handle
  BY WriterIs DEF TakeContext, Writers, Pc, Shape, WritersRight
<1>3. WritersRight'
  <2> HIDE DEF r
  <2> QED  BY <1>1, <1>2, WriterMoves
<1> QED
  BY <1>3, Unmoved DEF TakeContext, Shape, counters

LEMMA ExtractShape ==
  ASSUME Shape, NEW w \in Writer, Extract(w)
  PROVE  Shape'
<1> DEFINE r == [writer[w] EXCEPT !.pc = "update", !.text = content[writer[w].uri][writer[w].file]]
<1>1. writer' = [writer EXCEPT ![w] = r]
  BY DEF Extract
<1>2. writer[w].file \in Handle /\ content[writer[w].uri][writer[w].file] \in Content
  BY WriterIs DEF Extract, Shape, WritersRight, SalsaRight
<1>3. r \in Writers /\ r.pc = "update"
  BY <1>2, WriterIs DEF Writers, Pc
<1>4. WritersRight'
  <2> HIDE DEF r
  <2> QED  BY <1>1, <1>3, WriterMoves
<1> QED
  BY <1>4, Unmoved DEF Extract, Shape, counters

LEMMA UpdateIndexShape ==
  ASSUME Shape, NEW w \in Writer, UpdateIndex(w, writer[w].text), model' = model
  PROVE  IndexRight'
<1>1. writer[w].text \in Content /\ writer[w].uri \in Uri /\ writer[w].bucket \in Bucket
  BY WriterIs DEF Writers
<1>2. classes \in [Bucket -> [Uri -> Content]] /\ serial \in [Uri -> BOOLEAN]
  BY DEF Shape, IndexRight
<1>3. classes' \in [Bucket -> [Uri -> Content]]
  BY <1>1, <1>2 DEF UpdateIndex
<1>4. serial' \in [Uri -> BOOLEAN]
  BY <1>1, <1>2 DEF UpdateIndex
<1> QED
  BY <1>3, <1>4 DEF Shape, IndexRight

LEMMA UpdateEntryShape ==
  ASSUME Shape, NEW w \in Writer, UpdateEntry(w)
  PROVE  Shape'
<1>1. IndexRight'
  BY UpdateIndexShape DEF UpdateEntry
<1>2. WritersRight'
  <2>1. writer[w].uri \in Uri /\ "settle" \in Pc \ {"context", "extract"}
    BY WriterIs DEF Pc
  <2>2. Step(w, "settle") \/ Stop(w)
    BY DEF UpdateEntry
  <2> QED
    BY <2>1, <2>2, StepShape, StopShape
<1> QED
  BY <1>1, <1>2, Unmoved DEF UpdateEntry, Shape, counters

LEMMA CheckPendingShape ==
  ASSUME Shape, NEW t \in Task, CheckPending(t)
  PROVE  Shape'
<1>1. WritersRight'
  <2>1. t \in Writer /\ writer[t].uri \in Uri
    BY Names, WriterIs
  <2>2. "clear" \in Pc \ {"context", "extract"}
    BY DEF Pc
  <2>3. Step(t, "clear") \/ Stop(t)
    BY DEF CheckPending
  <2> QED
    BY <2>1, <2>2, <2>3, StepShape, StopShape
<1> QED
  BY <1>1, Unmoved DEF CheckPending, Shape, counters

LEMMA ClearPendingShape ==
  ASSUME Shape, NEW t \in Task, ClearPending(t)
  PROVE  Shape'
<1>1. t \in Writer /\ writer[t].uri \in Uri
  BY Names, WriterIs
<1>2. WritersRight'
  BY <1>1, StopShape DEF ClearPending
<1>3. DocsRight'
  <2>1. DocsRight
    BY DEF Shape
  <2>2. \A u \in Uri : (dropped[u] \/ Waiting(u) # {}) \in BOOLEAN
    OBVIOUS
  <2> QED
    BY <2>1, <1>1 DEF DocsRight, ClearPending
<1> QED
  BY <1>2, <1>3, Unmoved DEF ClearPending, Shape, counters

LEMMA ReconcileShape ==
  ASSUME Shape, Reconcile
  PROVE  Shape'
<1> DEFINE u == writer["closer"].uri
<1>1. "closer" \in Writer /\ u \in Uri
  BY Names, WriterIs
<1>2. "guard" \in Pc \ {"context", "extract"} /\ "resolve" \in Pc \ {"context", "extract"}
  BY DEF Pc
<1>3. WritersRight'
  <2>1. Stop("closer") \/ Step("closer", "resolve") \/ Step("closer", "guard")
    BY DEF Reconcile
  <2> QED
    BY <1>1, <1>2, <2>1, StepShape, StopShape
<1>4. HistoryRight'
  <2>1. HistoryRight /\ {u} \in SUBSET Uri
    BY <1>1 DEF Shape
  <2>2. Enter("closer", {u}) \/ UNCHANGED overlapped
    BY DEF Reconcile
  <2> QED
    BY <1>1, <2>1, <2>2, EnterShape, Unmoved
<1> QED
  BY <1>3, <1>4, Unmoved DEF Reconcile, Shape, counters

LEMMA GuardShape ==
  ASSUME Shape, NEW w \in {"closer", "watcher"}, Guard(w)
  PROVE  Shape'
<1> DEFINE u == writer[w].uri
<1>1. w \in Writer /\ u \in Uri
  BY Names, WriterIs
<1>2. "resolve" \in Pc \ {"context", "extract"}
  BY DEF Pc
<1>3. WritersRight'
  <2>1. Stop(w) \/ Step(w, "resolve")
    BY DEF Guard
  <2> QED
    BY <1>1, <1>2, <2>1, StepShape, StopShape
<1>4. HistoryRight'
  <2>1. HistoryRight /\ {u} \in SUBSET Uri
    BY <1>1 DEF Shape
  <2>2. Enter(w, {u}) \/ UNCHANGED overlapped
    BY DEF Guard
  <2> QED
    BY <1>1, <2>1, <2>2, EnterShape, Unmoved
<1> QED
  BY <1>3, <1>4, Unmoved DEF Guard, Shape, counters

LEMMA ResolveShape ==
  ASSUME Shape, NEW w \in {"closer", "watcher"}, Resolve(w)
  PROVE  Shape'
<1> DEFINE u == writer[w].uri
           r == [writer[w] EXCEPT !.pc = "upsert", !.text = Disk[u],
                                  !.bucket = ContextOf[model][u]]
<1>1. w \in Writer /\ u \in Uri /\ writer[w] \in Writers /\ ContextOf[model][u] \in Bucket
  BY Names, WriterIs
<1>2. Disk[u] \in Content /\ "upsert" \in Pc
  BY <1>1, DiskAssumption DEF Content, Pc
<1>3. r \in Writers /\ r.pc = "upsert"
  <2> HIDE DEF u
  <2> QED  BY <1>1, <1>2 DEF Writers
<1>4. writer' = [writer EXCEPT ![w] = r]
  BY DEF Resolve
<1>5. WritersRight'
  <2> HIDE DEF r
  <2> QED  BY <1>1, <1>3, <1>4, WriterMoves
<1> QED
  BY <1>5, Unmoved DEF Resolve, Shape, counters

LEMMA UpsertShape ==
  ASSUME Shape, NEW w \in {"closer", "watcher"}, Upsert(w)
  PROVE  Shape'
<1>1. w \in Writer /\ "forget" \in Pc \ {"context", "extract"}
  BY Names DEF Pc
<1>2. IndexRight'
  BY <1>1, UpdateIndexShape DEF Upsert
<1>3. WritersRight'
  BY <1>1, StepShape DEF Upsert
<1> QED
  BY <1>2, <1>3, Unmoved DEF Upsert, Shape, counters

LEMMA ForgetShape ==
  ASSUME Shape, NEW w \in {"closer", "watcher"}, Forget(w)
  PROVE  Shape'
<1>1. w \in Writer /\ writer[w].uri \in Uri
  BY Names, WriterIs
<1>2. WritersRight'
  BY <1>1, StopShape DEF Forget
<1>3. SalsaRight'
  BY DEF Forget, Shape, SalsaRight
<1> QED
  BY <1>2, <1>3, Unmoved DEF Forget, Shape, counters

LEMMA BackgroundShape == Shape /\ Background => Shape'
BY WakeShape, TakeSnapshotShape, SyncFileShape, TakeContextShape, ExtractShape,
   UpdateEntryShape, CheckPendingShape, ClearPendingShape, ReconcileShape,
   GuardShape, ResolveShape, UpsertShape, ForgetShape DEF Background

\* The texts of the open documents.
LEMMA OpenTextsAre ==
  ASSUME Shape
  PROVE  /\ OpenTexts \in [Uri -> Content]
         /\ \A u \in Uri : Open(u) => OpenTexts[u] = documents[u].text /\ OpenTexts[u] # Absent
BY OpenIs DEF OpenTexts, Content

LEMMA ReindexIs ==
  ASSUME Shape
  PROVE  /\ rebuild \in Reindexes /\ rebuild.target \in Models
         /\ rebuild.index \in [Uri -> Content] /\ rebuild.open \in [Uri -> Content]
         /\ rebuild.file \in [Uri -> Handle \cup {None}]
BY DEF Shape, ReindexRight, Reindexes

LEMMA RebuildBeginShape ==
  ASSUME Shape, NEW m \in Models, RebuildBegin(m)
  PROVE  Shape'
<1>1. ReindexRight' /\ CountersRight'
  <2> DEFINE r == [NoRebuild EXCEPT !.pc = "scan", !.target = m, !.open = OpenTexts]
  <2>1. Nothing \in [Uri -> Content] /\ [u \in Uri |-> None] \in [Uri -> Handle \cup {None}]
    BY DEF Nothing, Content
  <2>2. r \in Reindexes /\ r.pc = "scan"
    BY <2>1, OpenTextsAre DEF NoRebuild, Reindexes
  <2>3. rebuild' = r /\ rebuilds' = rebuilds + 1
    BY DEF RebuildBegin
  <2>4. CountersRight /\ UNCHANGED <<saves, closes, jobs, requests>>
    BY DEF Shape, RebuildBegin
  <2>5. CountersRight' /\ rebuilds' > 0
    BY <2>3, <2>4 DEF CountersRight
  <2> HIDE DEF r
  <2> QED
    BY <2>2, <2>3, <2>5 DEF ReindexRight
<1> QED
  BY <1>1, Unmoved DEF RebuildBegin, Shape

LEMMA RebuildScanShape ==
  ASSUME Shape, RebuildScan
  PROVE  Shape'
<1>1. ReindexRight'
  <2> DEFINE index == [u \in Uri |->
               IF Disk[u] # Absent /\ rebuild.open[u] # Absent THEN rebuild.open[u]
               ELSE Disk[u]]
             r == [rebuild EXCEPT !.pc = "inputs", !.index = index]
  <2>1. index \in [Uri -> Content] /\ \A u \in Uri : index[u] = Absent <=> Disk[u] = Absent
    BY ReindexIs, DiskAssumption DEF Content
  <2>2. r \in Reindexes /\ r.pc = "inputs" /\ r.index = index
    <3> HIDE DEF index
    <3> QED  BY <2>1, ReindexIs DEF Reindexes
  <2>3. rebuild' = r /\ rebuilds' = rebuilds /\ rebuilds > 0
    BY DEF RebuildScan, counters, Shape, ReindexRight
  <2> HIDE DEF r, index
  <2> QED
    BY <2>1, <2>2, <2>3 DEF ReindexRight
<1> QED
  BY <1>1, Unmoved DEF RebuildScan, Shape

\* The reindex takes the handles of what it syncs, and reads them.
LEMMA SyncOpenShape ==
  ASSUME Shape, NEW texts \in [Uri -> Content], NEW pc \in {"read", "reread"},
         SyncOpen(texts, pc), rebuild.pc # "off", rebuilds' = rebuilds
  PROVE  SalsaRight' /\ ReindexRight'
<1>1. SalsaRight'
  BY SyncShape DEF SyncOpen
<1>2. ReindexRight'
  <2> DEFINE file == [u \in Uri |-> IF texts[u] = Absent THEN None ELSE FileOf(u)]
             r == [rebuild EXCEPT !.pc = pc, !.open = Nothing, !.file = file]
  <2>1. file \in [Uri -> Handle \cup {None}] /\ Nothing \in [Uri -> Content]
    BY FreshHandle DEF Nothing, Content
  <2>2. r \in Reindexes /\ r.pc = pc
    <3> HIDE DEF file
    <3> QED  BY <2>1, ReindexIs DEF Reindexes
  <2>3. rebuild' = r /\ rebuilds > 0
    BY DEF SyncOpen, Shape, ReindexRight
  <2> HIDE DEF r
  <2> QED
    BY <2>2, <2>3 DEF ReindexRight
<1> QED
  BY <1>1, <1>2

LEMMA ReadOpenShape ==
  ASSUME Shape, NEW pc \in {"prune", "overlay"}, ReadOpen(pc), rebuild.pc # "off",
         rebuilds' = rebuilds
  PROVE  ReindexRight'
<1> DEFINE index == [u \in Uri |-> IF rebuild.file[u] = None THEN rebuild.index[u]
                                   ELSE content[u][rebuild.file[u]]]
           r == [rebuild EXCEPT !.pc = pc, !.file = [u \in Uri |-> None], !.index = index]
<1>1. index \in [Uri -> Content]
  <2>1. content \in [Uri -> [Handle -> Content]]
    BY DEF Shape, SalsaRight
  <2> QED
    BY <2>1, ReindexIs
<1>2. r \in Reindexes /\ r.pc = pc
  <2> HIDE DEF index
  <2> QED  BY <1>1, ReindexIs DEF Reindexes
<1>3. rebuild' = r /\ rebuilds > 0
  BY DEF ReadOpen, Shape, ReindexRight
<1> HIDE DEF r
<1> QED
  BY <1>2, <1>3 DEF ReindexRight

LEMMA EnterAllShape ==
  ASSUME Shape, Enter("rebuild", Uri)
  PROVE  HistoryRight'
<1>1. HistoryRight /\ Uri \in SUBSET Uri
  BY DEF Shape
<1> QED
  BY <1>1, EnterShape

LEMMA RebuildInputsShape ==
  ASSUME Shape, RebuildInputs
  PROVE  Shape'
<1> DEFINE texts == [u \in Uri |-> IF rebuild.index[u] = Absent THEN Absent ELSE OpenTexts[u]]
<1>1. texts \in [Uri -> Content]
  BY OpenTextsAre DEF Content
<1>2. SyncOpen(texts, "read") /\ rebuild.pc # "off" /\ rebuilds' = rebuilds
  BY DEF RebuildInputs, counters
<1>3. SalsaRight' /\ ReindexRight'
  <2> HIDE DEF texts
  <2> QED  BY <1>1, <1>2, SyncOpenShape
<1>4. HistoryRight'
  <2>1. Enter("rebuild", Uri) \/ UNCHANGED overlapped
    BY DEF RebuildInputs
  <2> QED
    BY <2>1, EnterAllShape, Unmoved DEF Shape
<1> QED
  BY <1>3, <1>4, Unmoved DEF RebuildInputs, Shape

LEMMA RebuildReadShape ==
  ASSUME Shape, RebuildRead
  PROVE  Shape'
<1>1. ReindexRight'
  <2>1. ReadOpen("prune") \/ ReadOpen("overlay")
    BY DEF RebuildRead
  <2>2. rebuild.pc # "off" /\ rebuilds' = rebuilds
    BY DEF RebuildRead, counters
  <2> QED
    BY <2>1, <2>2, ReadOpenShape
<1> QED
  BY <1>1, Unmoved DEF RebuildRead, Shape

LEMMA RebuildOverlayShape ==
  ASSUME Shape, RebuildOverlay
  PROVE  Shape'
<1>1. ReindexRight'
  <2> DEFINE r == [rebuild EXCEPT !.pc = "reapply", !.open = OpenTexts]
  <2>1. r \in Reindexes /\ r.pc = "reapply"
    BY OpenTextsAre, ReindexIs DEF Reindexes
  <2>2. rebuild' = r /\ rebuilds' = rebuilds /\ rebuilds > 0
    BY DEF RebuildOverlay, counters, Shape, ReindexRight
  <2> HIDE DEF r
  <2> QED
    BY <2>1, <2>2 DEF ReindexRight
<1>2. HistoryRight'
  BY EnterAllShape DEF RebuildOverlay
<1> QED
  BY <1>1, <1>2, Unmoved DEF RebuildOverlay, Shape

LEMMA RebuildReapplyShape ==
  ASSUME Shape, RebuildReapply
  PROVE  Shape'
<1>1. SalsaRight' /\ ReindexRight'
  <2>1. /\ SyncOpen(rebuild.open, "reread") /\ rebuild.pc # "off" /\ rebuilds' = rebuilds
        /\ rebuild.open \in [Uri -> Content]
    BY ReindexIs DEF RebuildReapply, counters
  <2> QED
    BY <2>1, SyncOpenShape
<1> QED
  BY <1>1, Unmoved DEF RebuildReapply, Shape

LEMMA RebuildRereadShape ==
  ASSUME Shape, RebuildReread
  PROVE  Shape'
<1>1. ReindexRight'
  <2>1. ReadOpen("prune") /\ rebuild.pc # "off" /\ rebuilds' = rebuilds
    BY DEF RebuildReread, counters
  <2> QED
    BY <2>1, ReadOpenShape
<1> QED
  BY <1>1, Unmoved DEF RebuildReread, Shape

LEMMA RebuildPruneShape ==
  ASSUME Shape, RebuildPrune
  PROVE  Shape'
<1>1. SalsaRight'
  BY DEF RebuildPrune, Shape, SalsaRight
<1>2. ReindexRight'
  <2> DEFINE r == [rebuild EXCEPT !.pc = "replace"]
  <2>1. r \in Reindexes /\ r.pc = "replace"
    BY ReindexIs DEF Reindexes
  <2>2. rebuild' = r /\ rebuilds' = rebuilds /\ rebuilds > 0
    BY DEF RebuildPrune, RebuildGoto, counters, Shape, ReindexRight
  <2> HIDE DEF r
  <2> QED
    BY <2>1, <2>2 DEF ReindexRight
<1> QED
  BY <1>1, <1>2, Unmoved DEF RebuildPrune, Shape

LEMMA RebuildReplaceShape ==
  ASSUME Shape, RebuildReplace
  PROVE  Shape'
<1>1. IndexRight'
  <2>1. model' \in Models
    BY ReindexIs DEF RebuildReplace
  <2>2. classes' \in [Bucket -> [Uri -> Content]]
    BY ReindexIs DEF RebuildReplace, Content
  <2>3. serial' \in [Uri -> BOOLEAN]
    BY DEF RebuildReplace
  <2> QED
    BY <2>1, <2>2, <2>3 DEF IndexRight
<1>2. ReindexRight'
  <2>1. rebuild' \in Reindexes /\ rebuild'.pc = "off"
    BY DEF RebuildReplace, NoRebuild, Nothing, Reindexes, Content, Models
  <2> QED
    BY <2>1 DEF ReindexRight
<1> QED
  BY <1>1, <1>2, Unmoved DEF RebuildReplace, Shape

LEMMA RebuildShape == Shape /\ Rebuild => Shape'
BY RebuildBeginShape, RebuildScanShape, RebuildInputsShape, RebuildReadShape,
   RebuildOverlayShape, RebuildReapplyShape, RebuildRereadShape, RebuildPruneShape,
   RebuildReplaceShape DEF Rebuild

-----------------------------------------------------------------------------
(* Every step keeps every document right: the writers.                      *)

\* A step of w that is about u.
Local(w, u) ==
    /\ \A v \in Uri \ {u} :
          /\ documents'[v] = documents[v] /\ pending'[v] = pending[v]
          /\ dropped'[v] = dropped[v] /\ content'[v] = content[v]
          /\ serial'[v] = serial[v]
          /\ \A b \in Bucket : classes'[b][v] = classes[b][v]
    /\ UNCHANGED <<model, rebuild, rebuilds>>
    /\ \A x \in Writer \ {w} : writer'[x] = writer[x]
    /\ UNCHANGED overlapped \/ Enter(w, {u})
    /\ writer[w].uri = u \/ writer[w].pc = "off"
    /\ writer'[w].uri = u \/ writer'[w].pc = "off"

\* Then it is enough to look at u.
LEMMA OnlyOne ==
  ASSUME Shape, AllRight, NEW w \in Writer, NEW u \in Uri, Local(w, u), DocumentRight(u)'
  PROVE  AllRight'
<1> SUFFICES ASSUME NEW v \in Uri, v # u PROVE DocumentRight(v)'
  BY DEF AllRight
<1>1. Apart(w, v)
  BY ApartWriter DEF Local
<1>2. Apart(w, v)'
  <2>1. writer'[w].uri # v \/ writer'[w].pc \in {"off", "settle", "clear"}
    BY DEF Local
  <2> QED
    BY <2>1, AtWork, Names DEF Apart, DueBy, CloseDue, Writing
<1>3. \A x \in Writing(v) : <<x, v>> \in overlapped => <<x, v>> \in overlapped'
  <2>1. CASE UNCHANGED overlapped
    BY <2>1
  <2>2. CASE Enter(w, {u})
    <3>1. \A x \in Writing(v) : x # w
      BY <1>1 DEF Apart
    <3> QED
      BY <2>2, <3>1, EnteredElsewhere
  <2> QED
    BY <2>1, <2>2 DEF Local
<1> QED
  BY <1>1, <1>2, <1>3, Elsewhere DEF AllRight, Local

\* What the writer w becomes, and that the others stay as they are.
LEMMA Becomes ==
  ASSUME Shape, NEW w \in Writer, NEW r, writer' = [writer EXCEPT ![w] = r]
  PROVE  writer'[w] = r /\ \A x \in Writer \ {w} : writer'[x] = writer[x]
BY DEF Shape, WritersRight

\* Who writes a document after such a step.
LEMMA WritingThen ==
  ASSUME NEW w \in Writer, NEW u, \A x \in Writer \ {w} : writer'[x] = writer[x],
         rebuild' = rebuild
  PROVE  /\ Writing(u)' \ {w} = Writing(u) \ {w}
         /\ w \in Writing(u)' <=>
              /\ writer'[w].uri = u
              /\ writer'[w].pc \notin {"off", "asleep", "begin", "settle", "clear",
                                       "check", "guard"}
<1>1. \A x : x \in Writing(u)' <=>
           \/ /\ x \in Writer /\ writer'[x].uri = u
              /\ writer'[x].pc \notin {"off", "asleep", "begin", "settle", "clear",
                                       "check", "guard"}
           \/ /\ x = "rebuild"
              /\ \/ rebuild'.pc \in {"reapply", "reread", "prune", "replace"}
                 \/ rebuild'.pc = "read" /\ rebuild'.target = NoModel
  BY DEF Writing
<1> QED
  BY <1>1, AtWork, Names

\* A document that is opened, changed or saved on the LSP task.
LEMMA InlineRight ==
  ASSUME Shape, AllRight, NEW u \in Uri, NEW text \in Text, HandlerFree,
         ReindexInline(u, text), documents'[u].text = text, documents'[u] # None,
         UNCHANGED <<pending, salsaVars, indexVars, rebuild, rebuilds>>,
         \A v \in Uri \ {u} : documents'[v] = documents[v] /\ dropped'[v] = dropped[v]
  PROVE  AllRight'
<1> DEFINE r == [Off(u) EXCEPT !.pc = "sync", !.text = text]
<1>1. writer' = [writer EXCEPT !["handler"] = r] /\ Enter("handler", {u})
  BY DEF ReindexInline
<1>2. r.uri = u /\ r.pc = "sync" /\ r.text = text
  BY DEF Off
<1> HIDE DEF r
<1>3. writer'["handler"] = r /\ \A x \in Writer \ {"handler"} : writer'[x] = writer[x]
  BY <1>1, Becomes, Names
<1>4. "handler" \in Writer /\ writer["handler"].pc = "off" /\ "handler" \notin Writing(u)
  BY Names, AtWork DEF HandlerFree
<1>5. Local("handler", u)
  BY <1>1, <1>2, <1>3, <1>4 DEF Local, salsaVars, indexVars
<1>6. Writing(u)' = Writing(u) \cup {"handler"}
  BY <1>2, <1>3, <1>4, WritingThen
<1>7. Carries("handler", u)' /\ WillWrite("handler")' /\ Open(u)'
  BY <1>2, <1>3 DEF Carries, WriterCarries, WillWrite, Open
<1>8. DocumentRight(u)'
  <2>1. DocumentRight(u)
    BY DEF AllRight
  <2> QED
    BY <2>1, <1>1, <1>4, <1>6, <1>7, Enters
<1> QED
  BY <1>4, <1>5, <1>8, OnlyOne

LEMMA DidOpenRight ==
  ASSUME Shape, AllRight, NEW u \in Uri, NEW text \in Text, DidOpen(u, text)
  PROVE  AllRight'
<1>1. documents \in [Uri -> Documents \cup {None}] /\ dropped \in [Uri -> BOOLEAN]
  BY DEF Shape, DocsRight
<1>2. [version |-> 0, text |-> text] # None
  BY DocumentIs, BoundAssumption
<1>3. /\ HandlerFree /\ ReindexInline(u, text)
      /\ UNCHANGED <<pending, salsaVars, indexVars, rebuild, rebuilds>>
  BY DEF DidOpen, counters
<1>4. /\ documents'[u].text = text /\ documents'[u] # None
      /\ \A v \in Uri \ {u} : documents'[v] = documents[v] /\ dropped'[v] = dropped[v]
  BY <1>1, <1>2 DEF DidOpen
<1> QED
  BY <1>3, <1>4, InlineRight

LEMMA DidSaveRight ==
  ASSUME Shape, AllRight, NEW u \in Uri, NEW text \in Text, DidSave(u, text)
  PROVE  AllRight'
<1>1. documents \in [Uri -> Documents \cup {None}] /\ dropped \in [Uri -> BOOLEAN]
  BY DEF Shape, DocsRight
<1>2. documents[u] \in Documents
  BY OpenIs DEF DidSave
<1>3. PICK version \in 0 .. MaxVersion :
        [documents[u] EXCEPT !.text = text] = [version |-> version, text |-> text]
  BY <1>2 DEF Documents
<1>4. /\ HandlerFree /\ ReindexInline(u, text)
      /\ UNCHANGED <<pending, salsaVars, indexVars, rebuild, rebuilds>>
  BY DEF DidSave
<1>5. /\ documents'[u].text = text /\ documents'[u] # None
      /\ \A v \in Uri \ {u} : documents'[v] = documents[v] /\ dropped'[v] = dropped[v]
  <2>1. documents'[u] = [version |-> version, text |-> text]
    BY <1>1, <1>3 DEF DidSave
  <2>2. \A v \in Uri \ {u} : documents'[v] = documents[v] /\ dropped'[v] = dropped[v]
    BY <1>1 DEF DidSave
  <2> QED
    BY <2>1, <2>2, DocumentIs
<1> QED
  BY <1>4, <1>5, InlineRight

LEMMA RequestRight ==
  ASSUME Shape, AllRight, NEW u \in Uri, Request(u)
  PROVE  AllRight'
<1> DEFINE r == [Off(u) EXCEPT !.pc = "sync", !.text = documents[u].text]
           w == "request"
<1>1. /\ writer' = [writer EXCEPT ![w] = r] /\ Enter(w, {u})
      /\ Open(u) /\ writer[w].pc = "off"
      /\ UNCHANGED <<docVars, salsaVars, indexVars, rebuild, rebuilds>>
  BY DEF Request
<1>2. r.uri = u /\ r.pc = "sync" /\ r.text = documents[u].text
  BY DEF Off
<1> HIDE DEF r
<1>3. writer'[w] = r /\ \A x \in Writer \ {w} : writer'[x] = writer[x]
  BY <1>1, Becomes, Names
<1>4. w \in Writer /\ w \notin Writing(u)
  BY <1>1, Names, AtWork
<1>5. Local(w, u)
  BY <1>1, <1>2, <1>3, <1>4 DEF Local, docVars, salsaVars, indexVars
<1>6. Writing(u)' = Writing(u) \cup {w}
  <2>1. \A x \in Writer \ {w} : writer'[x] = writer[x]
    BY <1>3
  <2>2. rebuild' = rebuild /\ writer'[w].uri = u /\ writer'[w].pc = "sync"
    BY <1>1, <1>2, <1>3
  <2> QED
    BY <2>1, <2>2, <1>4, WritingThen
<1>7. Carries(w, u)' /\ (Open(u)' <=> Open(u))
  BY <1>1, <1>2, <1>3 DEF Carries, WriterCarries, Open, docVars
<1>8. Due(u)' <=> Due(u)
  <2>1. ASSUME NEW t \in Task PROVE DueBy(t, u)' <=> DueBy(t, u)
    BY <1>1, <1>3, Names DEF DueBy, Open, docVars
  <2> QED
    BY <2>1 DEF Due
<1>9. Shown(u)' = Shown(u) /\ (LeftOut(u)' <=> LeftOut(u))
  BY <1>1 DEF Shown, LeftOut, indexVars
<1>10. \A x \in Writing(u) : WillWrite(x) => WillWrite(x)'
  BY <1>3, AtWork DEF WillWrite
<1>11. DocumentRight(u)'
  <2>1. DocumentRight(u)
    BY DEF AllRight
  <2>2. /\ documents'[u] = documents[u] /\ dropped'[u] = dropped[u]
        /\ Open(u) /\ Due(u)' = Due(u) /\ rebuilds' = rebuilds
        /\ serial'[u] = serial[u] /\ Shown(u)' = Shown(u)
        /\ LeftOut(u)' = LeftOut(u)
    BY <1>1, <1>8, <1>9 DEF docVars, indexVars, Due, LeftOut
  <2>3. w \notin Writing(u) /\ u \in {u} /\ Enter(w, {u})
    BY <1>1, <1>4
  <2> HIDE DEF w
  <2> QED
    BY <2>1, <2>2, <2>3, <1>6, <1>7, <1>10, Enters
<1> QED
  BY <1>4, <1>5, <1>11, OnlyOne

LEMMA TakeSnapshotRight ==
  ASSUME Shape, AllRight, NEW t \in Task, TakeSnapshot(t)
  PROVE  AllRight'
<1>0. PICK u \in Uri : u = writer[t].uri
  BY Names, WriterIs
<1>1. t \in Writer /\ t \notin Writing(u) /\ writer[t].pc = "begin" /\ writer[t].uri = u
  <2>1. writer[t].pc = "begin" /\ t \in Writer
    BY Names DEF TakeSnapshot
  <2> QED
    BY <2>1, <1>0, AtWork, Names
<1>2. UNCHANGED <<docVars, salsaVars, indexVars, rebuild, rebuilds>>
  BY DEF TakeSnapshot, counters
<1>3. PICK r : /\ writer' = [writer EXCEPT ![t] = r] /\ r.uri = u
               /\ IF Open(u) THEN r.pc = "sync" /\ r.text = documents[u].text
                  ELSE r.pc = "settle"
  <2>1. writer[t] \in Writers
    BY <1>1, WriterIs
  <2>2. CASE Open(u)
    <3> DEFINE r == [writer[t] EXCEPT !.pc = "sync", !.text = documents[u].text]
    <3>1. r.uri = u /\ r.pc = "sync" /\ r.text = documents[u].text
      BY <1>0, <2>1 DEF Writers
    <3>2. writer' = [writer EXCEPT ![t] = r]
      BY <1>0, <2>2 DEF TakeSnapshot
    <3> HIDE DEF r
    <3> QED
      BY <2>2, <3>1, <3>2
  <2>3. CASE ~Open(u)
    <3> DEFINE r == [writer[t] EXCEPT !.pc = "settle"]
    <3>1. r.uri = u /\ r.pc = "settle"
      BY <1>0, <2>1 DEF Writers
    <3>2. writer' = [writer EXCEPT ![t] = r]
      BY <1>0, <2>3 DEF TakeSnapshot, Step
    <3> HIDE DEF r
    <3> QED
      BY <2>3, <3>1, <3>2
  <2> QED
    BY <2>2, <2>3
<1>4. IF Open(u) THEN Enter(t, {u}) ELSE UNCHANGED overlapped
  BY <1>0 DEF TakeSnapshot
<1>5. writer'[t] = r /\ \A x \in Writer \ {t} : writer'[x] = writer[x]
  BY <1>1, <1>3, Becomes
<1>6. Local(t, u)
  BY <1>1, <1>2, <1>3, <1>4, <1>5 DEF Local, docVars, salsaVars, indexVars
<1>7. Open(u)' <=> Open(u)
  BY <1>2 DEF Open, docVars
<1>8. DocumentRight(u)
  BY <1>1 DEF AllRight
<1>9. rebuild' = rebuild
  BY <1>2
<1>10. CASE Open(u)
  <2>1. Writing(u)' = Writing(u) \cup {t}
    BY <1>1, <1>3, <1>5, <1>9, <1>10, WritingThen
  <2>2. Carries(t, u)' /\ WillWrite(t)'
    BY <1>2, <1>3, <1>5, <1>10, Names DEF Carries, WriterCarries, WillWrite, docVars
  <2>3. DocumentRight(u)'
    BY <1>1, <1>4, <1>7, <1>8, <1>10, <2>1, <2>2, Enters
  <2> QED
    BY <2>3, <1>1, <1>6, OnlyOne
<1>11. CASE ~Open(u)
  <2>1. t \notin Writing(u)'
    BY <1>1, <1>3, <1>5, <1>9, <1>11, WritingThen
  <2>2. CloseDue(u)' <=> CloseDue(u)
    BY <1>5, Names DEF CloseDue
  <2>3. DocumentRight(u)'
    BY <1>1, <1>2, <1>4, <1>5, <1>8, <1>11, <2>1, <2>2, Kept DEF docVars, salsaVars, indexVars
  <2> QED
    BY <2>3, <1>1, <1>6, OnlyOne
<1> QED
  BY <1>10, <1>11

\* A step of a writer that is not writing u, before or after.
LEMMA Quietly ==
  ASSUME Shape, AllRight, NEW w \in Writer, NEW u \in Uri, NEW r,
         writer[w].uri = u \/ writer[w].pc = "off", w \notin Writing(u),
         writer' = [writer EXCEPT ![w] = r], r.uri = u \/ r.pc = "off",
         r.pc \in {"off", "asleep", "begin", "settle", "clear", "check", "guard"},
         UNCHANGED <<documents, salsaVars, indexVars, rebuild, rebuilds, overlapped>>,
         \A v \in Uri \ {u} : pending'[v] = pending[v] /\ dropped'[v] = dropped[v],
         Open(u) /\ ~dropped'[u] /\ ~Due(u)' => ~dropped[u] /\ ~Due(u),
         ~Open(u) /\ CloseDue(u) => CloseDue(u)'
  PROVE  AllRight'
<1>1. writer'[w] = r /\ \A x \in Writer \ {w} : writer'[x] = writer[x]
  BY Becomes
<1>2. Local(w, u)
  BY <1>1 DEF Local, salsaVars, indexVars
<1>3. w \notin Writing(u)'
  BY <1>1, WritingThen
<1>4. DocumentRight(u)
  BY DEF AllRight
<1>5. DocumentRight(u)'
  BY <1>1, <1>3, <1>4, Kept DEF salsaVars, indexVars
<1> QED
  BY <1>2, <1>5, OnlyOne

\* One that changes nothing but its own record.
LEMMA Silently ==
  ASSUME Shape, AllRight, NEW w \in Writer, NEW u \in Uri, NEW r,
         writer[w].uri = u \/ writer[w].pc = "off", w \notin Writing(u),
         writer' = [writer EXCEPT ![w] = r], r.uri = u \/ r.pc = "off",
         r.pc \in {"off", "asleep", "begin", "settle", "clear", "check", "guard"},
         UNCHANGED <<docVars, salsaVars, indexVars, rebuild, rebuilds, overlapped>>,
         DueBy(w, u) => DueBy(w, u)' \/ ~Open(u),
         w = "closer" /\ CloseDue(u) => CloseDue(u)' \/ Open(u)
  PROVE  AllRight'
<1>1. writer'[w] = r /\ \A x \in Writer \ {w} : writer'[x] = writer[x]
  BY Becomes
<1>2. Open(u) /\ Due(u) => Due(u)'
  <2>1. ASSUME NEW t \in Task, t # w PROVE DueBy(t, u)' <=> DueBy(t, u)
    BY <1>1, <2>1, Names DEF DueBy, Open, docVars
  <2> QED
    BY <2>1 DEF Due
<1>3. ~Open(u) /\ CloseDue(u) => CloseDue(u)'
  BY <1>1, Names DEF CloseDue
<1> QED
  BY <1>2, <1>3, Quietly DEF docVars

LEMMA StopIs == ASSUME NEW w, Stop(w)
                PROVE  /\ writer' = [writer EXCEPT ![w] = Off(AnyUri)]
                       /\ Off(AnyUri).pc = "off"
BY DEF Stop, Off

LEMMA StepIs ==
  ASSUME Shape, NEW w \in Writer, NEW pc, Step(w, pc)
  PROVE  \E r : /\ writer' = [writer EXCEPT ![w] = r]
                /\ r = [writer[w] EXCEPT !.pc = pc]
                /\ r.pc = pc /\ r.uri = writer[w].uri /\ r.text = writer[w].text
                /\ r.bucket = writer[w].bucket /\ r.version = writer[w].version
<1> DEFINE r == [writer[w] EXCEPT !.pc = pc]
<1>1. writer' = [writer EXCEPT ![w] = r]
  BY DEF Step
<1>2. writer[w] \in Writers
  BY WriterIs
<1>3. /\ r.pc = pc /\ r.uri = writer[w].uri /\ r.text = writer[w].text
      /\ r.bucket = writer[w].bucket /\ r.version = writer[w].version
  BY <1>2 DEF Writers
<1> QED
  BY <1>1, <1>3

LEMMA WatchJobRight ==
  ASSUME Shape, AllRight, NEW u \in Uri, WatchJob(u)
  PROVE  AllRight'
<1> DEFINE r == [Off(u) EXCEPT !.pc = "guard"]
<1>1. r.uri = u /\ r.pc = "guard"
  BY DEF Off
<1>2. /\ writer' = [writer EXCEPT !["watcher"] = r] /\ writer["watcher"].pc = "off"
      /\ UNCHANGED <<docVars, salsaVars, indexVars, rebuild, rebuilds, overlapped>>
  BY DEF WatchJob
<1> HIDE DEF r
<1>3. "watcher" \in Writer /\ "watcher" \notin Writing(u) /\ "watcher" \notin Task
  BY <1>2, Names, AtWork
<1>4. ~DueBy("watcher", u)
  BY <1>3 DEF DueBy
<1> QED
  BY <1>1, <1>2, <1>3, <1>4, Silently

LEMMA DidChangeRight ==
  ASSUME Shape, AllRight, NEW u \in Uri, NEW text \in Text, NEW t \in Task,
         DidChange(u, text, t)
  PROVE  AllRight'
<1> DEFINE version == documents[u].version + 1
           r == [Off(u) EXCEPT !.pc = "asleep", !.version = version]
<1>1. r.uri = u /\ r.pc = "asleep" /\ r.version = version
  BY DEF Off
<1>2. version \in 0 .. MaxVersion
  BY OpenIs, BoundAssumption DEF DidChange
<1>3. /\ writer' = [writer EXCEPT ![t] = r] /\ writer[t].pc = "off" /\ Open(u)
      /\ UNCHANGED <<salsaVars, indexVars, rebuild, rebuilds, overlapped>>
  BY DEF DidChange, counters
<1>4. /\ documents'[u] = [version |-> version, text |-> text]
      /\ documents'[u].version = version /\ documents'[u] # None
      /\ pending'[u] = version
      /\ \A v \in Uri \ {u} : /\ documents'[v] = documents[v] /\ pending'[v] = pending[v]
                              /\ dropped'[v] = dropped[v]
  <2>1. /\ documents \in [Uri -> Documents \cup {None}] /\ dropped \in [Uri -> BOOLEAN]
        /\ pending \in [Uri -> 0 .. MaxVersion \cup {None}]
    BY DEF Shape, DocsRight
  <2>2. [version |-> version, text |-> text] # None
    BY <1>2, DocumentIs
  <2> QED
    BY <2>1, <2>2 DEF DidChange
<1> HIDE DEF r, version
<1>5. t \in Writer /\ t \notin Writing(u) /\ t # "closer"
  BY <1>3, Names, AtWork
<1>6. writer'[t] = r /\ \A x \in Writer \ {t} : writer'[x] = writer[x]
  BY <1>3, <1>5, Becomes
<1>7. Local(t, u)
  BY <1>1, <1>3, <1>4, <1>6 DEF Local, salsaVars, indexVars
<1>8. DueBy(t, u)' /\ Open(u)'
  BY <1>1, <1>4, <1>6 DEF DueBy, Open
<1>9. Writing(u)' = Writing(u)
  BY <1>1, <1>3, <1>5, <1>6, WritingThen
<1>10. DocumentRight(u)'
  <2>1. MeetRight(u)'
    BY <1>3, <1>9 DEF AllRight, DocumentRight, MeetRight
  <2> QED
    BY <2>1, <1>8 DEF DocumentRight, OpenRight, ClosedRight, Due
<1> QED
  BY <1>5, <1>7, <1>10, OnlyOne

LEMMA DidCloseRight ==
  ASSUME Shape, AllRight, NEW u \in Uri, DidClose(u)
  PROVE  AllRight'
<1> DEFINE r == [Off(u) EXCEPT !.pc = "check"]
           w == "closer"
<1>1. r.uri = u /\ r.pc = "check"
  BY DEF Off
<1>2. /\ writer' = [writer EXCEPT ![w] = r] /\ writer[w].pc = "off"
      /\ UNCHANGED <<pending, dropped, salsaVars, indexVars, rebuild, rebuilds, overlapped>>
  BY DEF DidClose
<1>3. documents'[u] = None /\ \A v \in Uri \ {u} : documents'[v] = documents[v]
  BY DEF DidClose, Shape, DocsRight
<1> HIDE DEF r
<1>4. w \in Writer /\ w \notin Writing(u)
  BY <1>2, Names, AtWork
<1>5. writer'[w] = r /\ \A x \in Writer \ {w} : writer'[x] = writer[x]
  BY <1>2, <1>4, Becomes
<1>6. Local(w, u)
  BY <1>1, <1>2, <1>3, <1>5 DEF Local, salsaVars, indexVars
<1>7. CloseDue(u)' /\ ~Open(u)'
  BY <1>1, <1>3, <1>5 DEF CloseDue, Open
<1>8. Writing(u)' = Writing(u)
  <2>1. \A x \in Writer \ {w} : writer'[x] = writer[x]
    BY <1>5
  <2>2. rebuild' = rebuild /\ writer'[w].pc = "check"
    BY <1>1, <1>2, <1>5
  <2> HIDE DEF w
  <2> QED
    BY <2>1, <2>2, <1>4, WritingThen
<1>9. DocumentRight(u)'
  <2>1. MeetRight(u)'
    BY <1>2, <1>8 DEF AllRight, DocumentRight, MeetRight
  <2> QED
    BY <2>1, <1>7 DEF DocumentRight, OpenRight, ClosedRight
<1> QED
  BY <1>4, <1>6, <1>9, OnlyOne

LEMMA ClientRight == Shape /\ AllRight /\ Client => AllRight'
BY DidOpenRight, DidChangeRight, DidSaveRight, DidCloseRight, WatchJobRight,
   RequestRight DEF Client

LEMMA WakeRight ==
  ASSUME Shape, AllRight, NEW t \in Task, Wake(t)
  PROVE  AllRight'
<1>0. PICK u \in Uri : u = writer[t].uri
  BY Names, WriterIs
<1>1. t \in Writer /\ t \notin Writing(u) /\ t # "closer"
  BY <1>0, Names, AtWork DEF Wake
<1>2. UNCHANGED <<docVars, salsaVars, indexVars, rebuild, rebuilds, overlapped>>
  BY DEF Wake, counters
<1>3. CASE pending[u] = writer[t].version /\ Open(u) /\ documents[u].version = writer[t].version
  <2>1. PICK r : writer' = [writer EXCEPT ![t] = r] /\ r.pc = "begin" /\ r.uri = u
    BY <1>0, <1>1, <1>3, StepIs DEF Wake
  <2>2. writer'[t] = r
    BY <2>1, <1>1, Becomes
  <2>3. DueBy(t, u)'
    BY <1>2, <1>3, <2>1, <2>2 DEF DueBy, Open, docVars
  <2> QED
    BY <1>0, <1>1, <1>2, <2>1, <2>3, Silently
<1>4. CASE ~(pending[u] = writer[t].version /\ Open(u) /\ documents[u].version = writer[t].version)
  <2>1. Stop(t)
    BY <1>0, <1>4 DEF Wake
  <2>2. ~DueBy(t, u)
    BY <1>4 DEF DueBy, Wake
  <2> QED
    BY <1>0, <1>1, <1>2, <2>1, <2>2, StopIs, Silently
<1> QED
  BY <1>3, <1>4

LEMMA CheckPendingRight ==
  ASSUME Shape, AllRight, NEW t \in Task, CheckPending(t)
  PROVE  AllRight'
<1>0. PICK u \in Uri : u = writer[t].uri
  BY Names, WriterIs
<1>1. t \in Writer /\ t \notin Writing(u) /\ t # "closer"
  BY <1>0, Names, AtWork DEF CheckPending
<1>2. UNCHANGED <<docVars, salsaVars, indexVars, rebuild, rebuilds, overlapped>>
  BY DEF CheckPending, counters
<1>3. ~DueBy(t, u)
  BY DEF DueBy, CheckPending
<1>4. Step(t, "clear") \/ Stop(t)
  BY DEF CheckPending
<1>5. PICK r : writer' = [writer EXCEPT ![t] = r] /\ r.pc \in {"clear", "off"}
               /\ (r.uri = u \/ r.pc = "off")
  BY <1>0, <1>1, <1>4, StepIs, StopIs
<1> QED
  BY <1>0, <1>1, <1>2, <1>3, <1>5, Silently

LEMMA ClearPendingRight ==
  ASSUME Shape, AllRight, NEW t \in Task, ClearPending(t)
  PROVE  AllRight'
<1>0. PICK u \in Uri : u = writer[t].uri
  BY Names, WriterIs
<1>1. t \in Writer /\ t \notin Writing(u) /\ t # "closer"
  BY <1>0, Names, AtWork DEF ClearPending
<1>2. UNCHANGED <<documents, salsaVars, indexVars, rebuild, rebuilds, overlapped>>
  BY DEF ClearPending, counters
<1>3. /\ pending'[u] = None /\ \A v \in Uri \ {u} : pending'[v] = pending[v]
      /\ dropped'[u] = (dropped[u] \/ Waiting(u) # {})
      /\ \A v \in Uri \ {u} : dropped'[v] = dropped[v]
  BY <1>0 DEF ClearPending, Shape, DocsRight
<1>4. /\ writer' = [writer EXCEPT ![t] = Off(AnyUri)] /\ Off(AnyUri).pc = "off"
      /\ writer[t].pc = "clear"
  BY StopIs DEF ClearPending
<1>5. \A x \in Writer \ {t} : writer'[x] = writer[x]
  BY <1>1, <1>4, Becomes
<1>6. Waiting(u) = {} /\ Open(u) /\ Due(u) => Due(u)'
  <2>1. ASSUME NEW x \in Task, Waiting(u) = {}, DueBy(x, u) PROVE DueBy(x, u)'
    <3>1. writer[x].pc = "begin"
      BY <2>1 DEF DueBy, Waiting
    <3>2. x # t
      BY <3>1, <1>4
    <3> QED
      BY <2>1, <3>1, <3>2, <1>2, <1>5, Names DEF DueBy, Open
  <2> QED
    BY <2>1 DEF Due
<1>7. CloseDue(u) => CloseDue(u)'
  BY <1>1, <1>5, Names DEF CloseDue
<1>8. Open(u) /\ ~dropped'[u] /\ ~Due(u)' => ~dropped[u] /\ ~Due(u)
  BY <1>3, <1>6
<1> QED
  BY <1>0, <1>1, <1>2, <1>3, <1>4, <1>7, <1>8, Quietly

\* A writer at work that goes on, or is done, without a change of the index.
LEMMA WriterGoesOn ==
  ASSUME Shape, AllRight, NEW u \in Uri, NEW w \in Writer \cap Writing(u), NEW r,
         writer' = [writer EXCEPT ![w] = r], r.uri = u \/ r.pc = "off",
         UNCHANGED <<docVars, indexVars, rebuild, rebuilds, overlapped>>,
         \A v \in Uri \ {u} : content'[v] = content[v],
         w \in Writing(u)' /\ Open(u) /\ WriterCarries(w, u) => WriterCarries(w, u)',
         w \in Writing(u)' /\ ~Open(u) /\ CarriesDisk(w, u) => CarriesDisk(w, u)',
         WillWrite(w) => w \in Writing(u)' /\ r.pc # "forget"
  PROVE  AllRight'
<1>1. writer'[w] = r /\ \A x \in Writer \ {w} : writer'[x] = writer[x]
  BY Becomes
<1>2. writer[w].uri = u /\ w # "rebuild"
       /\ writer[w].pc \notin {"off", "asleep", "begin", "settle", "clear", "check", "guard"}
  BY AtWork, Names
<1>3. Local(w, u)
  BY <1>1, <1>2 DEF Local, docVars, indexVars
<1>4. Moves(w, u)
  BY <1>1, WritingThen, AtWork DEF Moves
<1>5. Due(u) => Due(u)'
  <2>1. ASSUME NEW t \in Task, DueBy(t, u) PROVE DueBy(t, u)'
    BY <1>1, <1>2, <2>1, Names DEF DueBy, Open, docVars
  <2> QED
    BY <2>1 DEF Due
<1>6. CloseDue(u) => CloseDue(u)'
  BY <1>1, <1>2, Names DEF CloseDue
<1>7. WillWrite(w) => w \in Writing(u)' /\ WillWrite(w)'
  BY <1>1 DEF WillWrite
<1>8. w \in Writing(u)' /\ Open(u) /\ Carries(w, u) => Carries(w, u)'
  BY <1>2 DEF Carries
<1>9. DocumentRight(u)
  BY DEF AllRight
<1>10. DocumentRight(u)'
  BY <1>4, <1>5, <1>6, <1>7, <1>8, <1>9, GoesOn DEF docVars, indexVars
<1> QED
  BY <1>3, <1>10, OnlyOne

LEMMA SyncFileRight ==
  ASSUME Shape, AllRight, NEW w \in Writer, SyncFile(w)
  PROVE  AllRight'
<1>0. PICK u \in Uri : u = writer[w].uri
  BY WriterIs
<1>1. w \in Writer \cap Writing(u) /\ writer[w].pc = "sync"
  BY <1>0, AtWork DEF SyncFile
<1>2. UNCHANGED <<docVars, indexVars, rebuild, rebuilds, overlapped>>
  BY DEF SyncFile, counters
<1>3. PICK r : /\ writer' = [writer EXCEPT ![w] = r] /\ (r.uri = u \/ r.pc = "off")
               /\ IF w = "request" THEN r.pc = "off"
                  ELSE r.pc = "context" /\ r.file = FileOf(u)
  <2>1. writer[w] \in Writers
    BY WriterIs
  <2>2. CASE w = "request"
    BY <2>2, StopIs DEF SyncFile
  <2>3. CASE w # "request"
    <3> DEFINE r == [writer[w] EXCEPT !.pc = "context", !.file = FileOf(u)]
    <3>1. r.uri = u /\ r.pc = "context" /\ r.file = FileOf(u)
      BY <1>0, <2>1 DEF Writers
    <3>2. writer' = [writer EXCEPT ![w] = r]
      BY <1>0, <2>3 DEF SyncFile
    <3> HIDE DEF r
    <3> QED
      BY <2>3, <3>1, <3>2
  <2> QED
    BY <2>2, <2>3
<1>4. writer'[w] = r
  BY <1>3, Becomes
<1>5. /\ \A v \in Uri \ {u} : content'[v] = content[v]
      /\ writer[w].text # Absent => content'[u][FileOf(u)] = writer[w].text
  <2> DEFINE text == writer[w].text
  <2>1. text \in Content /\ FileOf(u) \in Handle /\ content[u] \in [Handle -> Content]
    BY WriterIs, FreshHandle DEF Writers, Shape, SalsaRight
  <2>2. Only(u, text)[u] = text /\ \A v \in Uri \ {u} : Only(u, text)[v] = Absent
    BY <2>1, OnlyIs
  <2>3. SyncSalsa(Only(u, text))
    BY <1>0 DEF SyncFile
  <2> DEFINE texts == Only(u, text)
  <2>4. content' = [v \in Uri |->
                     IF v \in {x \in Uri : texts[x] # Absent}
                     THEN [content[v] EXCEPT ![FileOf(v)] = texts[v]] ELSE content[v]]
    BY <2>3 DEF SyncSalsa
  <2> HIDE DEF text, texts
  <2>5. \A v \in Uri \ {u} : content'[v] = content[v]
    BY <2>2, <2>4 DEF texts
  <2>6. text # Absent => content'[u][FileOf(u)] = text
    <3> SUFFICES ASSUME text # Absent PROVE content'[u][FileOf(u)] = text
      OBVIOUS
    <3>1. texts[u] = text
      BY <2>2 DEF texts
    <3>2. content'[u] = [content[u] EXCEPT ![FileOf(u)] = text]
      BY <2>4, <3>1
    <3> QED
      BY <2>1, <3>2
  <2> QED
    BY <2>5, <2>6 DEF text
<1>6. w \in Writing(u)' => w # "request"
  BY <1>1, <1>3, <1>4, Names DEF Writing
<1>7. w \in Writing(u)' /\ Open(u) /\ WriterCarries(w, u) => WriterCarries(w, u)'
  <2> SUFFICES ASSUME w # "request", Open(u), WriterCarries(w, u) PROVE WriterCarries(w, u)'
    BY <1>6
  <2>1. writer[w].text = documents[u].text /\ documents[u].text # Absent
    BY <1>1, OpenIs DEF WriterCarries
  <2> QED
    BY <1>2, <1>3, <1>4, <1>5, <2>1 DEF WriterCarries, docVars
<1>8. ~CarriesDisk(w, u)
  BY <1>1 DEF CarriesDisk
<1>9. WillWrite(w) => w \in Writing(u)' /\ r.pc # "forget"
  <2> SUFFICES ASSUME w # "request" PROVE w \in Writing(u)' /\ r.pc # "forget"
    BY DEF WillWrite
  <2> QED
    BY <1>3, <1>4 DEF Writing
<1> QED
  BY <1>1, <1>2, <1>3, <1>5, <1>7, <1>8, <1>9, WriterGoesOn

LEMMA TakeContextRight ==
  ASSUME Shape, AllRight, NEW w \in Writer, TakeContext(w)
  PROVE  AllRight'
<1>0. PICK u \in Uri : u = writer[w].uri
  BY WriterIs
<1>1. w \in Writer \cap Writing(u) /\ writer[w].pc = "context"
  BY <1>0, AtWork DEF TakeContext
<1>2. UNCHANGED <<docVars, salsaVars, indexVars, rebuild, rebuilds, overlapped>>
  BY DEF TakeContext, counters
<1>3. PICK r : /\ writer' = [writer EXCEPT ![w] = r] /\ r.uri = u
               /\ r.pc = "extract" /\ r.file = writer[w].file /\ r.bucket = ContextOf[model][u]
  <2> DEFINE r == [writer[w] EXCEPT !.pc = "extract", !.bucket = ContextOf[model][u]]
  <2>1. writer' = [writer EXCEPT ![w] = r]
    BY <1>0 DEF TakeContext
  <2>2. writer[w] \in Writers
    BY WriterIs
  <2>3. /\ r.uri = u /\ r.pc = "extract" /\ r.file = writer[w].file
        /\ r.bucket = ContextOf[model][u]
    BY <1>0, <2>2 DEF Writers
  <2> HIDE DEF r
  <2> QED
    BY <2>1, <2>3
<1>4. writer'[w] = r
  BY <1>3, Becomes
<1>5. WriterCarries(w, u) => WriterCarries(w, u)'
  BY <1>1, <1>2, <1>3, <1>4 DEF WriterCarries, docVars, salsaVars, indexVars
<1>6. ~CarriesDisk(w, u)
  BY <1>1 DEF CarriesDisk
<1>7. w \in Writing(u)'
  BY <1>3, <1>4 DEF Writing
<1> QED
  BY <1>1, <1>2, <1>3, <1>5, <1>6, <1>7, WriterGoesOn DEF salsaVars

LEMMA ExtractRight ==
  ASSUME Shape, AllRight, NEW w \in Writer, Extract(w)
  PROVE  AllRight'
<1>0. PICK u \in Uri : u = writer[w].uri
  BY WriterIs
<1>1. w \in Writer \cap Writing(u) /\ writer[w].pc = "extract"
  BY <1>0, AtWork DEF Extract
<1>2. UNCHANGED <<docVars, salsaVars, indexVars, rebuild, rebuilds, overlapped>>
  BY DEF Extract, counters
<1>3. PICK r : /\ writer' = [writer EXCEPT ![w] = r] /\ r.uri = u
               /\ r.pc = "update" /\ r.text = content[u][writer[w].file]
               /\ r.bucket = writer[w].bucket
  <2> DEFINE r == [writer[w] EXCEPT !.pc = "update", !.text = content[u][writer[w].file]]
  <2>1. writer' = [writer EXCEPT ![w] = r]
    BY <1>0 DEF Extract
  <2>2. writer[w] \in Writers
    BY WriterIs
  <2>3. /\ r.uri = u /\ r.pc = "update" /\ r.text = content[u][writer[w].file]
        /\ r.bucket = writer[w].bucket
    BY <1>0, <2>2 DEF Writers
  <2> HIDE DEF r
  <2> QED
    BY <2>1, <2>3
<1>4. writer'[w] = r
  BY <1>3, Becomes
<1>5. WriterCarries(w, u) => WriterCarries(w, u)'
  BY <1>1, <1>2, <1>3, <1>4 DEF WriterCarries, docVars, indexVars
<1>6. ~CarriesDisk(w, u)
  BY <1>1 DEF CarriesDisk
<1>7. w \in Writing(u)'
  BY <1>3, <1>4 DEF Writing
<1> QED
  BY <1>1, <1>2, <1>3, <1>5, <1>6, <1>7, WriterGoesOn DEF salsaVars

LEMMA ResolveRight ==
  ASSUME Shape, AllRight, NEW w \in {"closer", "watcher"}, Resolve(w)
  PROVE  AllRight'
<1>0. PICK u \in Uri : u = writer[w].uri
  BY Names, WriterIs
<1>1. w \in Writer \cap Writing(u) /\ writer[w].pc = "resolve"
  BY <1>0, Names, AtWork DEF Resolve
<1>2. UNCHANGED <<docVars, salsaVars, indexVars, rebuild, rebuilds, overlapped>>
  BY DEF Resolve, counters
<1>3. PICK r : /\ writer' = [writer EXCEPT ![w] = r] /\ r.uri = u
               /\ r.pc = "upsert" /\ r.text = Disk[u] /\ r.bucket = ContextOf[model][u]
  <2> DEFINE r == [writer[w] EXCEPT !.pc = "upsert", !.text = Disk[u],
                                    !.bucket = ContextOf[model][u]]
  <2>1. writer' = [writer EXCEPT ![w] = r]
    BY <1>0 DEF Resolve
  <2>2. writer[w] \in Writers
    BY <1>1, WriterIs
  <2>3. /\ r.uri = u /\ r.pc = "upsert" /\ r.text = Disk[u]
        /\ r.bucket = ContextOf[model][u]
    BY <1>0, <2>2 DEF Writers
  <2> HIDE DEF r
  <2> QED
    BY <2>1, <2>3
<1>4. writer'[w] = r
  BY <1>1, <1>3, Becomes
<1>5. ~WriterCarries(w, u)
  BY <1>1 DEF WriterCarries
<1>6. CarriesDisk(w, u)'
  BY <1>2, <1>3, <1>4 DEF CarriesDisk, indexVars
<1>7. w \in Writing(u)'
  BY <1>1, <1>3, <1>4 DEF Writing
<1> QED
  BY <1>1, <1>2, <1>3, <1>5, <1>6, <1>7, WriterGoesOn DEF salsaVars

LEMMA ForgetRight ==
  ASSUME Shape, AllRight, NEW w \in {"closer", "watcher"}, Forget(w)
  PROVE  AllRight'
<1>0. PICK u \in Uri : u = writer[w].uri
  BY Names, WriterIs
<1>1. w \in Writer \cap Writing(u) /\ writer[w].pc = "forget" /\ w # "rebuild"
  BY <1>0, Names, AtWork DEF Forget
<1>2. UNCHANGED <<docVars, content, indexVars, rebuild, rebuilds, overlapped>>
  BY DEF Forget, counters
<1>3. PICK r : writer' = [writer EXCEPT ![w] = r] /\ r.pc = "off"
  BY StopIs DEF Forget
<1>4. writer'[w] = r
  BY <1>1, <1>3, Becomes
<1>5. w \notin Writing(u)' /\ ~WillWrite(w)
  BY <1>1, <1>3, <1>4 DEF Writing, WillWrite
<1> QED
  BY <1>1, <1>2, <1>3, <1>5, WriterGoesOn

\* A writer that changes the entry.
LEMMA WriterWrites ==
  ASSUME Shape, AllRight, NEW u \in Uri, NEW w \in Writer \cap Writing(u), NEW r,
         writer' = [writer EXCEPT ![w] = r], r.uri = u \/ r.pc = "off",
         r.pc \in {"off", "settle", "forget"}, writer[w].pc \in {"update", "upsert"},
         r.pc = "forget" <=> writer[w].pc = "upsert",
         UpdateIndex(w, writer[w].text),
         UNCHANGED <<docVars, salsaVars, model, rebuild, rebuilds, overlapped>>
  PROVE  AllRight'
<1>1. writer'[w] = r /\ \A x \in Writer \ {w} : writer'[x] = writer[x]
  BY Becomes
<1>2. writer[w].uri = u /\ w # "rebuild" /\ writer[w].bucket \in Bucket
       /\ ContextOf[model][u] \in Bucket
  BY AtWork, Names, WriterIs DEF Writers
<1>3. /\ \A b \in Bucket : \A v \in Uri \ {u} : classes'[b][v] = classes[b][v]
      /\ classes'[writer[w].bucket][u] = writer[w].text
      /\ serial'[u] = (<<w, u>> \notin overlapped)
      /\ \A v \in Uri \ {u} : serial'[v] = serial[v]
  <2>1. classes \in [Bucket -> [Uri -> Content]] /\ serial \in [Uri -> BOOLEAN]
    BY DEF Shape, IndexRight
  <2> QED
    BY <1>2, <2>1 DEF UpdateIndex
<1>4. Local(w, u)
  BY <1>1, <1>2, <1>3 DEF Local, docVars, salsaVars
<1>5. Moves(w, u)
  BY <1>1, WritingThen, AtWork DEF Moves
<1>6. Due(u) => Due(u)'
  <2>1. ASSUME NEW t \in Task, DueBy(t, u) PROVE DueBy(t, u)'
    BY <1>1, <1>2, <2>1, Names DEF DueBy, Open, docVars
  <2> QED
    BY <2>1 DEF Due
<1>7. CloseDue(u) => CloseDue(u)'
  BY <1>1, <1>2, Names DEF CloseDue
<1>8. Open(u) /\ Carries(w, u) => Shown(u)' = documents[u].text /\ w \notin Writing(u)'
  BY <1>1, <1>2, <1>3, AtWork, WritingThen DEF Carries, WriterCarries, Shown
<1>9. CarriesDisk(w, u) => Shown(u)' = Disk[u]
  BY <1>2, <1>3 DEF CarriesDisk, Shown
<1>10. w \in Writing(u)' => CarriesDisk(w, u)'
  BY <1>1, <1>2, WritingThen DEF CarriesDisk
<1>11. DocumentRight(u)
  BY DEF AllRight
<1>12. DocumentRight(u)'
  BY <1>3, <1>5, <1>6, <1>7, <1>8, <1>9, <1>10, <1>11, Writes DEF docVars
<1> QED
  BY <1>4, <1>12, OnlyOne

LEMMA UpdateEntryRight ==
  ASSUME Shape, AllRight, NEW w \in Writer, UpdateEntry(w)
  PROVE  AllRight'
<1>0. PICK u \in Uri : u = writer[w].uri
  BY WriterIs
<1>1. w \in Writer \cap Writing(u) /\ writer[w].pc = "update"
  BY <1>0, AtWork DEF UpdateEntry
<1>2. /\ UNCHANGED <<docVars, salsaVars, model, rebuild, rebuilds, overlapped>>
      /\ UpdateIndex(w, writer[w].text)
  BY DEF UpdateEntry, counters
<1>3. PICK r : /\ writer' = [writer EXCEPT ![w] = r] /\ (r.uri = u \/ r.pc = "off")
               /\ r.pc \in {"off", "settle"}
  <2>1. Step(w, "settle") \/ Stop(w)
    BY DEF UpdateEntry
  <2> QED
    BY <1>0, <2>1, StepIs, StopIs
<1> QED
  BY <1>1, <1>2, <1>3, WriterWrites

LEMMA UpsertRight ==
  ASSUME Shape, AllRight, NEW w \in {"closer", "watcher"}, Upsert(w)
  PROVE  AllRight'
<1>0. PICK u \in Uri : u = writer[w].uri
  BY Names, WriterIs
<1>1. w \in Writer \cap Writing(u) /\ writer[w].pc = "upsert"
  BY <1>0, Names, AtWork DEF Upsert
<1>2. /\ UNCHANGED <<docVars, salsaVars, model, rebuild, rebuilds, overlapped>>
      /\ UpdateIndex(w, writer[w].text)
  BY DEF Upsert, counters
<1>3. PICK r : writer' = [writer EXCEPT ![w] = r] /\ r.uri = u /\ r.pc = "forget"
  BY <1>0, <1>1, StepIs DEF Upsert
<1> QED
  BY <1>1, <1>2, <1>3, WriterWrites

\* A closed document that is looked at, before its file is read.
LEMMA GoesToDisk ==
  ASSUME Shape, AllRight, NEW u \in Uri, NEW w \in Writer, writer[w].uri = u,
         writer[w].pc \in {"check", "guard"}, ~Open(u), w # "request",
         Step(w, "resolve"), Enter(w, {u}),
         UNCHANGED <<docVars, salsaVars, indexVars, rebuild, rebuilds>>
  PROVE  AllRight'
<1>1. PICK r : writer' = [writer EXCEPT ![w] = r] /\ r.uri = u /\ r.pc = "resolve"
  BY StepIs
<1>2. writer'[w] = r /\ \A x \in Writer \ {w} : writer'[x] = writer[x]
  BY <1>1, Becomes
<1>3. w \notin Writing(u) /\ w # "rebuild"
  BY AtWork, Names
<1>4. Local(w, u)
  BY <1>1, <1>2 DEF Local, docVars, salsaVars, indexVars
<1>5. Writing(u)' = Writing(u) \cup {w}
  BY <1>1, <1>2, <1>3, WritingThen
<1>6. CarriesDisk(w, u)' /\ WillWrite(w)' /\ ~Open(u)'
  BY <1>1, <1>2, <1>3 DEF CarriesDisk, WillWrite, Open, docVars
<1>7. DocumentRight(u)
  BY DEF AllRight
<1>8. DocumentRight(u)'
  BY <1>3, <1>5, <1>6, <1>7, Enters
<1> QED
  BY <1>4, <1>8, OnlyOne

LEMMA ReconcileRight ==
  ASSUME Shape, AllRight, Reconcile
  PROVE  AllRight'
<1>0. PICK u \in Uri : u = writer["closer"].uri
  BY Names, WriterIs
<1>1. /\ writer["closer"].pc = "check" /\ "closer" \in Writer
      /\ UNCHANGED <<docVars, salsaVars, indexVars, rebuild, rebuilds>>
  BY Names DEF Reconcile, counters
<1>2. "closer" \notin Writing(u) /\ ~DueBy("closer", u)
  BY <1>1, AtWork, Names DEF DueBy
<1>3. CASE Open(u)
  <2>1. Stop("closer") /\ UNCHANGED overlapped
    BY <1>0, <1>3 DEF Reconcile
  <2> QED
    BY <1>0, <1>1, <1>2, <1>3, <2>1, StopIs, Silently
<1>4. CASE ~Open(u) /\ Disk[u] = Absent
  <2>1. Step("closer", "resolve") /\ Enter("closer", {u})
    BY <1>0, <1>4 DEF Reconcile
  <2> QED
    BY <1>0, <1>1, <1>4, <2>1, GoesToDisk
<1>5. CASE ~Open(u) /\ Disk[u] # Absent
  <2>1. Step("closer", "guard") /\ UNCHANGED overlapped
    BY <1>0, <1>5 DEF Reconcile
  <2>2. PICK r : writer' = [writer EXCEPT !["closer"] = r] /\ r.uri = u /\ r.pc = "guard"
    BY <1>0, <1>1, <2>1, StepIs
  <2>3. CloseDue(u)'
    BY <1>1, <2>2, Becomes DEF CloseDue
  <2> QED
    BY <1>0, <1>1, <1>2, <2>1, <2>2, <2>3, Silently
<1> QED
  BY <1>3, <1>4, <1>5

LEMMA GuardRight ==
  ASSUME Shape, AllRight, NEW w \in {"closer", "watcher"}, Guard(w)
  PROVE  AllRight'
<1>0. PICK u \in Uri : u = writer[w].uri
  BY Names, WriterIs
<1>1. /\ writer[w].pc = "guard" /\ w \in Writer
      /\ UNCHANGED <<docVars, salsaVars, indexVars, rebuild, rebuilds>>
  BY Names DEF Guard, counters
<1>2. w \notin Writing(u) /\ ~DueBy(w, u)
  BY <1>1, AtWork, Names DEF DueBy
<1>3. CASE Open(u)
  <2>1. Stop(w) /\ UNCHANGED overlapped
    BY <1>0, <1>3 DEF Guard
  <2> QED
    BY <1>0, <1>1, <1>2, <1>3, <2>1, StopIs, Silently
<1>4. CASE ~Open(u)
  <2>1. Step(w, "resolve") /\ Enter(w, {u})
    BY <1>0, <1>4 DEF Guard
  <2> QED
    BY <1>0, <1>1, <1>4, <2>1, GoesToDisk
<1> QED
  BY <1>3, <1>4

LEMMA BackgroundRight == Shape /\ AllRight /\ Background => AllRight'
BY WakeRight, TakeSnapshotRight, SyncFileRight, TakeContextRight, ExtractRight,
   UpdateEntryRight, CheckPendingRight, ClearPendingRight, ReconcileRight,
   GuardRight, ResolveRight, UpsertRight, ForgetRight DEF Background

-----------------------------------------------------------------------------
(* Every step keeps every document right: the full reindex.                 *)

\* A step of the reindex while it is no writer.
LEMMA Aside ==
  ASSUME Shape, AllRight, UNCHANGED <<docVars, indexVars, writer, overlapped>>,
         rebuilds' > 0,
         \A u \in Uri : "rebuild" \notin Writing(u) /\ "rebuild" \notin Writing(u)',
         \A u \in Uri, x \in Writer :
            Open(u) /\ WriterCarries(x, u) => WriterCarries(x, u)'
  PROVE  AllRight'
<1> SUFFICES ASSUME NEW u \in Uri PROVE DocumentRight(u)'
  BY DEF AllRight
<1>1. DocumentRight(u)
  BY DEF AllRight
<1>2. Writing(u)' = Writing(u) /\ Writing(u) \subseteq Writer
  BY DEF Writing
<1>3. Open(u)' <=> Open(u)
  BY DEF Open, docVars
<1>4. Due(u)' <=> Due(u)
  <2>1. \A t \in Task : DueBy(t, u)' <=> DueBy(t, u)
    BY <1>3 DEF DueBy, docVars
  <2> QED
    BY <2>1 DEF Due
<1>5. Shown(u)' = Shown(u) /\ (LeftOut(u) => LeftOut(u)')
  BY DEF Shown, LeftOut, indexVars
<1>6. ASSUME NEW x \in Writing(u)
      PROVE  (WillWrite(x)' <=> WillWrite(x)) /\ (Open(u) /\ Carries(x, u) => Carries(x, u)')
  BY <1>2, Names DEF WillWrite, Carries
<1>7. MeetRight(u)'
  BY <1>1, <1>2 DEF DocumentRight, MeetRight
<1>8. OpenRight(u)'
  BY <1>1, <1>2, <1>3, <1>4, <1>5, <1>6 DEF DocumentRight, OpenRight, docVars, indexVars
<1>9. ClosedRight(u)'
  BY DEF ClosedRight
<1> QED
  BY <1>7, <1>8, <1>9 DEF DocumentRight

\* A step of the reindex while it is one.
LEMMA Within ==
  ASSUME Shape, AllRight, UNCHANGED <<docVars, indexVars, writer, overlapped>>,
         rebuilds' > 0, rebuilds > 0,
         \A u \in Uri : "rebuild" \in Writing(u) /\ "rebuild" \in Writing(u)',
         \A u \in Uri : Open(u) /\ RebuildCarries(u) => RebuildCarries(u)'
  PROVE  AllRight'
<1> SUFFICES ASSUME NEW u \in Uri PROVE DocumentRight(u)'
  BY DEF AllRight
<1>1. DocumentRight(u)
  BY DEF AllRight
<1>2. Writing(u)' = Writing(u)
  BY DEF Writing
<1>3. Open(u)' <=> Open(u)
  BY DEF Open, docVars
<1>4. Due(u)' <=> Due(u)
  <2>1. \A t \in Task : DueBy(t, u)' <=> DueBy(t, u)
    BY <1>3 DEF DueBy, docVars
  <2> QED
    BY <2>1 DEF Due
<1>5. \A x \in Writing(u) \ {"rebuild"} : <<x, u>> \in overlapped
  BY <1>1 DEF DocumentRight, MeetRight
<1>6. Open(u) /\ Carries("rebuild", u) => Carries("rebuild", u)'
  BY DEF Carries
<1>7. WillWrite("rebuild")'
  BY DEF WillWrite
<1>8. MeetRight(u)'
  BY <1>1, <1>2 DEF DocumentRight, MeetRight
<1>9. OpenRight(u)'
  BY <1>1, <1>2, <1>3, <1>4, <1>5, <1>6, <1>7 DEF DocumentRight, OpenRight, docVars, indexVars
<1>10. ClosedRight(u)'
  BY DEF ClosedRight
<1> QED
  BY <1>8, <1>9, <1>10 DEF DocumentRight

\* The reindex takes its last look at the open documents.
LEMMA LooksLast ==
  ASSUME Shape, AllRight, UNCHANGED <<docVars, indexVars, writer>>, Enter("rebuild", Uri),
         rebuilds' > 0,
         \A u \in Uri : "rebuild" \notin Writing(u) /\ "rebuild" \in Writing(u)',
         \A u \in Uri : Open(u) => RebuildCarries(u)'
  PROVE  AllRight'
<1> SUFFICES ASSUME NEW u \in Uri PROVE DocumentRight(u)'
  BY DEF AllRight
<1>1. DocumentRight(u)
  BY DEF AllRight
<1>2. Writing(u)' = Writing(u) \cup {"rebuild"}
  BY DEF Writing
<1>3. Open(u)' => Carries("rebuild", u)'
  BY DEF Open, docVars, Carries
<1>4. WillWrite("rebuild")'
  BY DEF WillWrite
<1> QED
  BY <1>1, <1>2, <1>3, <1>4, Enters

LEMMA SyncIs ==
  ASSUME Shape, NEW texts \in [Uri -> Content], SyncSalsa(texts), NEW u \in Uri
  PROVE  content'[u] = IF texts[u] = Absent THEN content[u]
                       ELSE [content[u] EXCEPT ![FileOf(u)] = texts[u]]
BY DEF SyncSalsa

\* Whoever writes besides the reindex.
LEMMA RebuildWrites ==
  ASSUME NEW u
  PROVE  "rebuild" \in Writing(u) <=>
           \/ rebuild.pc \in {"reapply", "reread", "prune", "replace"}
           \/ rebuild.pc = "read" /\ rebuild.target = NoModel
BY AtWork, Names

LEMMA RebuildWritesThen ==
  ASSUME NEW u
  PROVE  "rebuild" \in Writing(u)' <=>
           \/ rebuild'.pc \in {"reapply", "reread", "prune", "replace"}
           \/ rebuild'.pc = "read" /\ rebuild'.target = NoModel
BY Names DEF Writing

LEMMA Counted == ASSUME Shape, rebuild.pc # "off" PROVE rebuilds > 0
BY DEF Shape, ReindexRight

LEMMA SameSalsa ==
  ASSUME UNCHANGED <<docVars, indexVars, writer>>, content' = content
  PROVE  \A u \in Uri, x \in Writer : Open(u) /\ WriterCarries(x, u) => WriterCarries(x, u)'
BY DEF WriterCarries, docVars, indexVars

LEMMA RebuildBeginRight ==
  ASSUME Shape, AllRight, NEW m \in Models, RebuildBegin(m)
  PROVE  AllRight'
<1>1. rebuild.pc = "off" /\ rebuild'.pc = "scan"
  BY DEF RebuildBegin, NoRebuild
<1>2. rebuilds' > 0 /\ content' = content
       /\ UNCHANGED <<docVars, indexVars, writer, overlapped>>
  BY DEF RebuildBegin, Shape, CountersRight, salsaVars
<1>3. \A u \in Uri : "rebuild" \notin Writing(u) /\ "rebuild" \notin Writing(u)'
  BY <1>1, RebuildWrites, RebuildWritesThen
<1> QED
  BY <1>2, <1>3, SameSalsa, Aside

LEMMA RebuildScanRight ==
  ASSUME Shape, AllRight, RebuildScan
  PROVE  AllRight'
<1>1. rebuild.pc = "scan" /\ rebuild'.pc = "inputs"
  BY ReindexIs DEF RebuildScan, Reindexes
<1>2. rebuilds' > 0 /\ content' = content
       /\ UNCHANGED <<docVars, indexVars, writer, overlapped>>
  BY <1>1, Counted DEF RebuildScan, counters, salsaVars
<1>3. \A u \in Uri : "rebuild" \notin Writing(u) /\ "rebuild" \notin Writing(u)'
  BY <1>1, RebuildWrites, RebuildWritesThen
<1> QED
  BY <1>2, <1>3, SameSalsa, Aside

LEMMA RebuildInputsRight ==
  ASSUME Shape, AllRight, RebuildInputs
  PROVE  AllRight'
<1> DEFINE texts == [u \in Uri |-> IF rebuild.index[u] = Absent THEN Absent ELSE OpenTexts[u]]
<1>1. texts \in [Uri -> Content]
  BY OpenTextsAre DEF Content
<1>2. /\ rebuild.pc = "inputs" /\ SyncOpen(texts, "read")
      /\ UNCHANGED <<docVars, indexVars, writer>> /\ rebuilds' > 0
      /\ IF rebuild.target = NoModel THEN Enter("rebuild", Uri) ELSE UNCHANGED overlapped
  BY Counted DEF RebuildInputs, counters
<1>3. /\ rebuild'.pc = "read" /\ rebuild'.target = rebuild.target
      /\ rebuild'.file = [u \in Uri |-> IF texts[u] = Absent THEN None ELSE FileOf(u)]
  <2> HIDE DEF texts
  <2> QED  BY <1>2, ReindexIs DEF SyncOpen, Reindexes
<1>4. ASSUME NEW u \in Uri, Open(u)
      PROVE  /\ texts[u] = Absent <=> Disk[u] = Absent
             /\ texts[u] # Absent => texts[u] = documents[u].text
  BY <1>2, <1>4, OpenTextsAre DEF Shape, ReindexRight
<1>5. ASSUME NEW u \in Uri
      PROVE  content'[u] = IF texts[u] = Absent THEN content[u]
                           ELSE [content[u] EXCEPT ![FileOf(u)] = texts[u]]
  <2> HIDE DEF texts
  <2> QED  BY <1>1, <1>2, SyncIs DEF SyncOpen
<1> HIDE DEF texts
<1>6. CASE rebuild.target = NoModel
  <2>1. \A u \in Uri : "rebuild" \notin Writing(u) /\ "rebuild" \in Writing(u)'
    BY <1>2, <1>3, <1>6, RebuildWrites, RebuildWritesThen
  <2>2. ASSUME NEW u \in Uri, Open(u) PROVE RebuildCarries(u)'
    <3>1. CASE texts[u] = Absent
      BY <1>3, <1>4, <1>6, <2>2, <3>1, NoneAssumption DEF RebuildCarries
    <3>2. CASE texts[u] # Absent
      <4>1. FileOf(u) \in Handle /\ content[u] \in [Handle -> Content]
        BY FreshHandle DEF Shape, SalsaRight
      <4>2. rebuild'.file[u] = FileOf(u) /\ content'[u][FileOf(u)] = documents[u].text
        BY <1>3, <1>4, <1>5, <2>2, <3>2, <4>1
      <4> QED
        BY <1>2, <1>3, <4>1, <4>2 DEF RebuildCarries, docVars
    <3> QED
      BY <3>1, <3>2
  <2> QED
    BY <1>2, <1>6, <2>1, <2>2, LooksLast
<1>7. CASE rebuild.target # NoModel
  <2>1. \A u \in Uri : "rebuild" \notin Writing(u) /\ "rebuild" \notin Writing(u)'
    BY <1>2, <1>3, <1>7, RebuildWrites, RebuildWritesThen
  <2>2. ASSUME NEW u \in Uri, NEW x \in Writer, Open(u), WriterCarries(x, u)
        PROVE  WriterCarries(x, u)'
    <3>1. ASSUME NEW h \in Handle, content[u][h] = documents[u].text
          PROVE  content'[u][h] = documents[u].text
      <4>1. content[u] \in [Handle -> Content]
        BY DEF Shape, SalsaRight
      <4>2. \/ content'[u] = content[u]
            \/ content'[u] = [content[u] EXCEPT ![FileOf(u)] = documents[u].text]
        BY <1>4, <1>5, <2>2
      <4> QED
        BY <3>1, <4>1, <4>2
    <3>2. writer[x].pc \in {"context", "extract"} => writer[x].file \in Handle
      BY DEF Shape, WritersRight
    <3> QED
      BY <1>2, <2>2, <3>1, <3>2 DEF WriterCarries, docVars, indexVars
  <2> QED
    BY <1>2, <1>7, <2>1, <2>2, Aside
<1> QED
  BY <1>6, <1>7

LEMMA ReadIs ==
  ASSUME Shape, NEW pc, ReadOpen(pc)
  PROVE  /\ rebuild'.pc = pc /\ rebuild'.target = rebuild.target
         /\ \A u \in Uri : rebuild'.index[u] = IF rebuild.file[u] = None THEN rebuild.index[u]
                                               ELSE content[u][rebuild.file[u]]
<1> DEFINE index == [u \in Uri |-> IF rebuild.file[u] = None THEN rebuild.index[u]
                                   ELSE content[u][rebuild.file[u]]]
<1>1. rebuild' = [rebuild EXCEPT !.pc = pc, !.file = [u \in Uri |-> None], !.index = index]
  BY ReindexIs DEF ReadOpen
<1>2. rebuild'.pc = pc /\ rebuild'.target = rebuild.target /\ rebuild'.index = index
  <2> HIDE DEF index
  <2> QED  BY <1>1, ReindexIs DEF Reindexes
<1> QED
  BY <1>2

LEMMA RebuildReadRight ==
  ASSUME Shape, AllRight, RebuildRead
  PROVE  AllRight'
<1>1. /\ rebuild.pc = "read" /\ UNCHANGED <<docVars, indexVars, writer, overlapped>>
      /\ content' = content /\ rebuilds' > 0 /\ rebuilds > 0
  BY Counted DEF RebuildRead, counters, salsaVars
<1>2. CASE rebuild.target = NoModel
  <2>1. ReadOpen("prune")
    BY <1>2 DEF RebuildRead
  <2>2. \A u \in Uri : "rebuild" \in Writing(u) /\ "rebuild" \in Writing(u)'
    BY <1>1, <1>2, <2>1, ReadIs, RebuildWrites, RebuildWritesThen
  <2>3. ASSUME NEW u \in Uri, RebuildCarries(u) PROVE RebuildCarries(u)'
    <3>1. CASE rebuild.file[u] \in Handle
      <4>1. content[u][rebuild.file[u]] = documents[u].text /\ rebuild.file[u] # None
        BY <1>1, <2>3, <3>1, NoneAssumption DEF RebuildCarries
      <4> QED
        BY <1>1, <2>1, <4>1, ReadIs DEF RebuildCarries, docVars
    <3>2. CASE rebuild.file[u] \notin Handle
      BY <1>1, <2>1, <2>3, <3>2, ReadIs DEF RebuildCarries
    <3> QED
      BY <3>1, <3>2
  <2> QED
    BY <1>1, <2>2, <2>3, Within
<1>3. CASE rebuild.target # NoModel
  <2>1. ReadOpen("overlay")
    BY <1>3 DEF RebuildRead
  <2>2. \A u \in Uri : "rebuild" \notin Writing(u) /\ "rebuild" \notin Writing(u)'
    BY <1>1, <1>3, <2>1, ReadIs, RebuildWrites, RebuildWritesThen
  <2> QED
    BY <1>1, <2>2, SameSalsa, Aside
<1> QED
  BY <1>2, <1>3

LEMMA RebuildOverlayRight ==
  ASSUME Shape, AllRight, RebuildOverlay
  PROVE  AllRight'
<1>1. /\ rebuild.pc = "overlay" /\ UNCHANGED <<docVars, indexVars, writer>>
      /\ Enter("rebuild", Uri) /\ rebuilds' > 0
  BY Counted DEF RebuildOverlay, counters
<1>2. rebuild'.pc = "reapply" /\ rebuild'.open = OpenTexts
  BY ReindexIs DEF RebuildOverlay, Reindexes
<1>3. \A u \in Uri : "rebuild" \notin Writing(u) /\ "rebuild" \in Writing(u)'
  BY <1>1, <1>2, RebuildWrites, RebuildWritesThen
<1>4. \A u \in Uri : Open(u) => RebuildCarries(u)'
  BY <1>1, <1>2, OpenTextsAre DEF RebuildCarries, docVars
<1> QED
  BY <1>1, <1>3, <1>4, LooksLast

LEMMA RebuildReapplyRight ==
  ASSUME Shape, AllRight, RebuildReapply
  PROVE  AllRight'
<1>1. /\ rebuild.pc = "reapply" /\ UNCHANGED <<docVars, indexVars, writer, overlapped>>
      /\ SyncOpen(rebuild.open, "reread") /\ rebuilds' > 0 /\ rebuilds > 0
  BY Counted DEF RebuildReapply, counters
<1>2. /\ rebuild'.pc = "reread"
      /\ rebuild'.file = [u \in Uri |-> IF rebuild.open[u] = Absent THEN None ELSE FileOf(u)]
  BY <1>1, ReindexIs DEF SyncOpen, Reindexes
<1>3. \A u \in Uri : "rebuild" \in Writing(u) /\ "rebuild" \in Writing(u)'
  BY <1>1, <1>2, RebuildWrites, RebuildWritesThen
<1>4. ASSUME NEW u \in Uri, Open(u), RebuildCarries(u) PROVE RebuildCarries(u)'
  <2>1. rebuild.open[u] = documents[u].text /\ rebuild.open[u] # Absent
    BY <1>1, <1>4, OpenIs DEF RebuildCarries
  <2>2. FileOf(u) \in Handle /\ content[u] \in [Handle -> Content]
    BY FreshHandle DEF Shape, SalsaRight
  <2>3. content'[u] = [content[u] EXCEPT ![FileOf(u)] = documents[u].text]
    BY <1>1, <2>1, ReindexIs, SyncIs DEF SyncOpen
  <2>4. rebuild'.file[u] = FileOf(u) /\ content'[u][FileOf(u)] = documents[u].text
    BY <1>2, <2>1, <2>2, <2>3
  <2> QED
    BY <1>1, <1>2, <2>2, <2>4 DEF RebuildCarries, docVars
<1> QED
  BY <1>1, <1>3, <1>4, Within

LEMMA RebuildRereadRight ==
  ASSUME Shape, AllRight, RebuildReread
  PROVE  AllRight'
<1>1. /\ rebuild.pc = "reread" /\ UNCHANGED <<docVars, indexVars, writer, overlapped>>
      /\ ReadOpen("prune") /\ rebuilds' > 0 /\ rebuilds > 0
  BY Counted DEF RebuildReread, counters
<1>2. \A u \in Uri : "rebuild" \in Writing(u) /\ "rebuild" \in Writing(u)'
  BY <1>1, ReadIs, RebuildWrites, RebuildWritesThen
<1>3. ASSUME NEW u \in Uri, RebuildCarries(u) PROVE RebuildCarries(u)'
  <2>1. /\ rebuild.file[u] # None
        /\ content[u][rebuild.file[u]] = documents[u].text
    BY <1>1, <1>3, NoneAssumption DEF RebuildCarries
  <2> QED
    BY <1>1, <2>1, ReadIs DEF RebuildCarries, docVars
<1> QED
  BY <1>1, <1>2, <1>3, Within

LEMMA RebuildPruneRight ==
  ASSUME Shape, AllRight, RebuildPrune
  PROVE  AllRight'
<1>1. /\ rebuild.pc = "prune" /\ UNCHANGED <<docVars, indexVars, writer, overlapped>>
      /\ rebuilds' > 0 /\ rebuilds > 0
  BY Counted DEF RebuildPrune, counters
<1>2. rebuild'.pc = "replace" /\ rebuild'.index = rebuild.index /\ rebuild'.target = rebuild.target
  BY ReindexIs DEF RebuildPrune, RebuildGoto, Reindexes
<1>3. \A u \in Uri : "rebuild" \in Writing(u) /\ "rebuild" \in Writing(u)'
  BY <1>1, <1>2, RebuildWrites, RebuildWritesThen
<1>4. \A u \in Uri : RebuildCarries(u) => RebuildCarries(u)'
  BY <1>1, <1>2 DEF RebuildCarries, docVars
<1> QED
  BY <1>1, <1>3, <1>4, Within

LEMMA RebuildReplaceRight ==
  ASSUME Shape, AllRight, RebuildReplace
  PROVE  AllRight'
<1> SUFFICES ASSUME NEW u \in Uri PROVE DocumentRight(u)'
  BY DEF AllRight
<1>1. /\ rebuild.pc = "replace" /\ UNCHANGED <<docVars, salsaVars, writer, overlapped>>
      /\ rebuilds' = rebuilds /\ rebuilds > 0 /\ model' = rebuild.target
      /\ serial'[u] = (<<"rebuild", u>> \notin overlapped)
  BY Counted DEF RebuildReplace, counters
<1>2. Shown(u)' = rebuild.index[u]
  <2>1. ContextOf[rebuild.target][u] \in Bucket
    BY ReindexIs, ContextAssumption DEF Models
  <2> QED
    BY <2>1 DEF RebuildReplace, Shown
<1>3. DocumentRight(u)
  BY DEF AllRight
<1>4. Writing(u)' = Writing(u) \ {"rebuild"} /\ "rebuild" \in Writing(u)
  <2>1. rebuild'.pc = "off"
    BY DEF RebuildReplace, NoRebuild
  <2>2. "rebuild" \in Writing(u) /\ "rebuild" \notin Writing(u)'
    BY <1>1, <2>1, RebuildWrites, RebuildWritesThen
  <2> QED
    BY <1>1, <2>2 DEF Writing
<1>5. Open(u)' <=> Open(u)
  BY <1>1 DEF Open, docVars
<1>6. Due(u)' <=> Due(u)
  <2>1. \A t \in Task : DueBy(t, u)' <=> DueBy(t, u)
    BY <1>1, <1>5 DEF DueBy, docVars
  <2> QED
    BY <2>1 DEF Due
<1>7. \A x \in Writing(u) \ {"rebuild"} : <<x, u>> \in overlapped
  BY <1>3, <1>4 DEF DocumentRight, MeetRight
<1>8. MeetRight(u)'
  BY <1>1, <1>3, <1>4 DEF DocumentRight, MeetRight
<1>9. OpenRight(u)'
  <2> SUFFICES ASSUME Open(u), ~dropped[u], ~Due(u), serial'[u], ~LeftOut(u)'
               PROVE  Shown(u)' = documents[u].text
    BY <1>1, <1>4, <1>5, <1>6, <1>7 DEF OpenRight, docVars
  <2>1. Carries("rebuild", u)
    BY <1>1, <1>3, <1>4 DEF DocumentRight, OpenRight
  <2>2. rebuild.index[u] = documents[u].text \/ (rebuild.target = NoModel /\ Disk[u] = Absent)
    BY <1>1, <2>1 DEF Carries, RebuildCarries
  <2> QED
    BY <1>1, <1>2, <2>2 DEF LeftOut
<1>10. ClosedRight(u)'
  BY <1>1 DEF ClosedRight
<1> QED
  BY <1>8, <1>9, <1>10 DEF DocumentRight

LEMMA RebuildRight == Shape /\ AllRight /\ Rebuild => AllRight'
BY RebuildBeginRight, RebuildScanRight, RebuildInputsRight, RebuildReadRight,
   RebuildOverlayRight, RebuildReapplyRight, RebuildRereadRight, RebuildPruneRight,
   RebuildReplaceRight DEF Rebuild

-----------------------------------------------------------------------------
(* The theorems.                                                            *)

LEMMA Initially == Init => DocumentsInv
<1> SUFFICES ASSUME Init PROVE DocumentsInv
  OBVIOUS
<1>1. DocsRight /\ SalsaRight /\ HistoryRight /\ CountersRight
  BY DEF Init, DocsRight, SalsaRight, HistoryRight, CountersRight, Content
<1>2. IndexRight
  <2>1. \A u \in Uri : Disk[u] \in Content /\ Absent \in Content
    BY DiskAssumption DEF Content
  <2> QED
    BY <2>1 DEF Init, IndexRight, Models
<1>3. WritersRight
  <2>1. \A w \in Writer : writer[w] = Off(AnyUri) /\ Off(AnyUri).pc = "off"
    BY DEF Init, Off
  <2>2. Off(AnyUri) \in Writers
    <3>1. AnyUri \in Uri
      BY UriAssumption DEF AnyUri
    <3>2. ContextOf[NoModel][AnyUri] \in Bucket
      BY <3>1, ContextAssumption DEF Models
    <3>3. Absent \in Content /\ "off" \in Pc /\ 0 \in 0 .. MaxVersion
      BY BoundAssumption DEF Content, Pc
    <3> QED
      BY <3>1, <3>2, <3>3 DEF Off, Writers
  <2> QED
    BY <2>1, <2>2 DEF Init, WritersRight
<1>4. ReindexRight
  <2>1. rebuild \in Reindexes /\ rebuild.pc = "off"
    BY DEF Init, NoRebuild, Nothing, Reindexes, Content, Models
  <2> QED
    BY <2>1 DEF ReindexRight
<1>5. ASSUME NEW u \in Uri PROVE DocumentRight(u)
  <2>1. ~Open(u)
    BY DEF Init, Open
  <2>2. \A w \in Writer : writer[w].pc = "off"
    BY DEF Init, Off
  <2>3. rebuild.pc = "off"
    BY DEF Init, NoRebuild
  <2>4. Writing(u) = {}
    BY <2>2, <2>3 DEF Writing
  <2>5. Shown(u) = Disk[u]
    <3>1. ContextOf[model][u] \in Bucket
      BY <1>2, ContextAssumption DEF IndexRight, Models
    <3> QED
      BY <3>1 DEF Init, Shown
  <2> QED
    BY <2>1, <2>4, <2>5 DEF DocumentRight, MeetRight, OpenRight, ClosedRight
<1> QED
  BY <1>1, <1>2, <1>3, <1>4, <1>5 DEF DocumentsInv, Shape, AllRight

LEMMA InvariantStep == DocumentsInv /\ [Next]_vars => DocumentsInv'
<1> SUFFICES ASSUME DocumentsInv, [Next]_vars PROVE DocumentsInv'
  OBVIOUS
<1>1. Shape /\ AllRight
  BY DEF DocumentsInv
<1>2. CASE Client
  BY <1>1, <1>2, ClientShape, ClientRight DEF DocumentsInv
<1>3. CASE Background
  BY <1>1, <1>3, BackgroundShape, BackgroundRight DEF DocumentsInv
<1>4. CASE Rebuild
  BY <1>1, <1>4, RebuildShape, RebuildRight DEF DocumentsInv
<1>5. CASE UNCHANGED vars
  <2>1. Shape'
    BY <1>1, <1>5, Unmoved DEF Shape, vars, counters
  <2>2. AllRight'
    <3> SUFFICES ASSUME NEW u \in Uri PROVE DocumentRight(u)'
      BY DEF AllRight
    <3>1. DocumentRight(u)
      BY <1>1 DEF AllRight
    <3>2. /\ UNCHANGED <<docVars, salsaVars, indexVars, writer, rebuild, overlapped, rebuilds>>
      BY <1>5 DEF vars, counters
    <3> QED
      BY <1>1, <3>1, <3>2, Elsewhere DEF docVars, salsaVars, indexVars
  <2> QED
    BY <2>1, <2>2 DEF DocumentsInv
<1> QED
  BY <1>2, <1>3, <1>4, <1>5 DEF Next

LEMMA ShapeIsType == Shape => TypeOK
BY DEF Shape, DocsRight, SalsaRight, IndexRight, WritersRight, ReindexRight,
   HistoryRight, CountersRight, Documents, Writers, Reindexes, TypeOK

\* Nobody is at work: then nothing is due.
LEMMA SettledIs ==
  ASSUME Settled, NEW u
  PROVE  Writing(u) = {} /\ ~Due(u) /\ ~CloseDue(u)
<1>1. rebuild.pc = "off" /\ \A w \in Writer : writer[w].pc = "off"
  BY DEF Settled
<1>2. Writing(u) = {}
  BY <1>1 DEF Writing
<1>3. ~Due(u) /\ ~CloseDue(u)
  BY <1>1, Names DEF Due, DueBy, CloseDue
<1> QED
  BY <1>2, <1>3

\* The invariant holds of every behaviour of the handlers, tasks, watcher jobs,
\* requests and full reindexes (server.rs, workspace.rs).
THEOREM DocumentsInvariant == Spec => []DocumentsInv
<1>1. Init => DocumentsInv
  BY Initially
<1>2. DocumentsInv /\ [Next]_vars => DocumentsInv'
  BY InvariantStep
<1> QED
  BY <1>1, <1>2, PTL DEF Spec

\* The store, the Salsa files, the index, the writers and the reindex hold what
\* their types in server.rs and workspace.rs allow; a Salsa file that is created
\* never is one that somebody still reads.
THEOREM OpenTypeCorrect == Spec => []TypeOK
<1>1. DocumentsInv => TypeOK
  BY ShapeIsType DEF DocumentsInv
<1> QED
  BY <1>1, DocumentsInvariant, PTL

\* Writers that do not meet keep the text of an open document in the index:
\* did_open, did_change, did_save and the full reindex never leave an older
\* text or the disk in its place.
THEOREM OpenTextIsShown == Spec => []SerialWritersShowOpenText
<1>1. DocumentsInv => SerialWritersShowOpenText
  <2> SUFFICES ASSUME DocumentsInv, Settled, NEW u \in Uri, Open(u), serial[u],
                      ~dropped[u], ~LeftOut(u)
               PROVE  Shown(u) = documents[u].text
    BY DEF SerialWritersShowOpenText
  <2>1. OpenRight(u)
    BY DEF DocumentsInv, AllRight, DocumentRight
  <2> QED
    BY <2>1, SettledIs DEF OpenRight
<1> QED
  BY <1>1, DocumentsInvariant, PTL

\* The reconciliation of a closed document gives its entry back to the file on
\* disk (reconcile_closed_document_blocking), whatever its edits were.
THEOREM ClosedTextIsShown == Spec => []ClosedTextShown
<1>1. DocumentsInv => ClosedTextShown
  <2> SUFFICES ASSUME DocumentsInv, Settled, rebuilds = 0, NEW u \in Uri, ~Open(u), serial[u]
               PROVE  Shown(u) = Disk[u]
    BY DEF ClosedTextShown
  <2>1. ClosedRight(u)
    BY DEF DocumentsInv, AllRight, DocumentRight
  <2> QED
    BY <2>1, SettledIs DEF ClosedRight
<1> QED
  BY <1>1, DocumentsInvariant, PTL

-----------------------------------------------------------------------------
(* Prompt reindexes.                                                        *)

\* A client that opens documents and edits them, and reindexes that are over
\* before the debounce of a later change is.
OnlyPromptEdits ==
    /\ Prompt
    /\ MaxSaves = 0 /\ MaxCloses = 0 /\ MaxJobs = 0 /\ MaxRequests = 0 /\ MaxRebuilds = 0

\* x is past its sleep, at u's document.
Awake(x, u) == writer[x].uri = u /\ writer[x].pc \notin {"off", "asleep"}

\* Nobody meets anybody: at most one writer of a document is awake, and while
\* didOpen indexes it inline there is no change of it to wait for.
NobodyElse ==
    /\ rebuild.pc = "off" /\ rebuilds = 0
    /\ \A w \in {"closer", "watcher", "request"} : writer[w].pc = "off"
NobodyMet == overlapped = {} /\ \A u \in Uri : serial[u]
OnlyAtOpen == \A w \in Writer : writer[w].pc # "off" => Open(writer[w].uri)
OneAwake == \A u \in Uri, x, y \in Writer : Awake(x, u) /\ Awake(y, u) => x = y
InlineIsFirst ==
    \A t \in Task : writer["handler"].pc # "off" /\ writer[t].pc # "off"
                        => writer["handler"].uri # writer[t].uri

AloneInv == NobodyElse /\ NobodyMet /\ OnlyAtOpen /\ OneAwake /\ InlineIsFirst

\* The others stand still.
OthersStand(w) == \A x \in Writer \ {w} : writer'[x] = writer[x]

LEMMA MovesAlone ==
  ASSUME Shape, NEW w \in Writer, NEW r, writer' = [writer EXCEPT ![w] = r]
  PROVE  OthersStand(w) /\ writer'[w] = r
BY DEF Shape, WritersRight, OthersStand

\* Who is at work is the handler or a task.
LEMMA WhoIsAwake ==
  ASSUME AloneInv, NEW w \in Writer, writer[w].pc # "off"
  PROVE  w \in Task \cup {"handler"}
BY DEF AloneInv, NobodyElse, Writer

LEMMA WriterUri == ASSUME Shape, NEW w \in Writer PROVE writer[w].uri \in Uri
BY WriterIs DEF Writers

\* A writer that is awake goes on or stops.
LEMMA AloneGoesOn ==
  ASSUME Shape, AloneInv, NEW w \in Writer, writer[w].pc \notin {"off", "asleep"},
         OthersStand(w), writer'[w].pc = "off" \/ writer'[w].uri = writer[w].uri,
         UNCHANGED <<documents, rebuild, rebuilds>>, NobodyMet'
  PROVE  AloneInv'
<1>1. w \in Task \cup {"handler"}
  BY WhoIsAwake
<1>2. NobodyElse'
  BY <1>1, Names DEF AloneInv, NobodyElse, OthersStand
<1>3. OnlyAtOpen'
  BY DEF AloneInv, OnlyAtOpen, OthersStand, Open
<1>4. OneAwake'
  BY DEF AloneInv, OneAwake, OthersStand, Awake
<1>5. InlineIsFirst'
  <2> SUFFICES ASSUME NEW t \in Task, writer'["handler"].pc # "off", writer'[t].pc # "off"
               PROVE  writer'["handler"].uri # writer'[t].uri
    BY DEF InlineIsFirst
  <2>1. t # "handler" /\ t \in Writer /\ "handler" \in Writer
    BY Names
  <2>2. InlineIsFirst
    BY DEF AloneInv
  <2>3. CASE w = "handler"
    BY <2>1, <2>2, <2>3 DEF InlineIsFirst, OthersStand
  <2>4. CASE w = t
    BY <2>1, <2>2, <2>4 DEF InlineIsFirst, OthersStand
  <2>5. CASE w # "handler" /\ w # t
    BY <2>1, <2>2, <2>5 DEF InlineIsFirst, OthersStand
  <2> QED
    BY <2>3, <2>4, <2>5
<1> QED
  BY <1>2, <1>3, <1>4, <1>5 DEF AloneInv

\* Entering meets nobody where nobody else is awake.
LEMMA EntersAlone ==
  ASSUME overlapped = {}, NEW w, NEW u, Enter(w, {u}), Writing(u) \subseteq {w}
  PROVE  overlapped' = {}
<1> DEFINE Others(v) == Writing(v) \ {w}
           met == UNION {{<<x, v>> : x \in Others(v) \cup {w}} :
                           v \in {v \in {u} : Others(v) # {}}}
<1>1. overlapped' = {p \in overlapped : p[1] # w} \cup met
  BY DEF Enter
<1>2. {v \in {u} : Others(v) # {}} = {}
  OBVIOUS
<1>3. met = {}
  BY <1>2
<1> QED
  BY <1>1, <1>3

LEMMA DidOpenAlone ==
  ASSUME Shape, AloneInv, NEW u \in Uri, NEW text \in Text, DidOpen(u, text)
  PROVE  AloneInv'
<1> DEFINE r == [Off(u) EXCEPT !.pc = "sync", !.text = text]
<1>1. r.pc = "sync" /\ r.uri = u
  BY DEF Off
<1>2. writer' = [writer EXCEPT !["handler"] = r] /\ Enter("handler", {u})
  BY DEF DidOpen, ReindexInline
<1> HIDE DEF r
<1>3. OthersStand("handler") /\ writer'["handler"] = r
  BY <1>2, MovesAlone, Names
<1>4. /\ \A x \in Writer : writer[x].pc # "off" => writer[x].uri # u
      /\ rebuild.pc = "off"
  BY DEF AloneInv, OnlyAtOpen, DidOpen, NobodyElse
<1>5. NobodyElse'
  BY <1>3, Names DEF AloneInv, NobodyElse, OthersStand, DidOpen, counters
<1>6. NobodyMet'
  <2>1. Writing(u) = {}
    BY <1>4 DEF Writing
  <2>2. overlapped' = {}
    BY <1>2, <2>1, EntersAlone DEF AloneInv, NobodyMet
  <2> QED
    BY <2>2 DEF AloneInv, NobodyMet, DidOpen, indexVars
<1>7. OnlyAtOpen'
  <2>1. /\ documents' = [documents EXCEPT ![u] = [version |-> 0, text |-> text]]
        /\ [version |-> 0, text |-> text] # None
    BY DocumentIs, BoundAssumption DEF DidOpen
  <2>2. \A v \in Uri : Open(v) => Open(v)'
    BY <2>1 DEF Shape, DocsRight, Open
  <2>3. Open(u)'
    BY <2>1 DEF Shape, DocsRight, Open
  <2> SUFFICES ASSUME NEW w \in Writer, writer'[w].pc # "off" PROVE Open(writer[w].uri)'
    BY DEF OnlyAtOpen
  <2>4. CASE w = "handler"
    BY <1>1, <1>3, <2>3, <2>4
  <2>5. CASE w # "handler"
    BY <1>3, <2>2, <2>5, WriterUri DEF AloneInv, OnlyAtOpen, OthersStand
  <2> QED
    BY <2>4, <2>5
<1>8. OneAwake'
  <2>1. \A x \in Writer \ {"handler"} : ~Awake(x, u)'
    BY <1>3, <1>4 DEF Awake, OthersStand
  <2>2. \A v \in Uri \ {u} : ~Awake("handler", v)'
    BY <1>1, <1>3 DEF Awake
  <2>3. \A v \in Uri, x \in Writer \ {"handler"} : Awake(x, v)' <=> Awake(x, v)
    BY <1>3 DEF Awake, OthersStand
  <2> QED
    BY <2>1, <2>2, <2>3 DEF AloneInv, OneAwake
<1>9. InlineIsFirst'
  BY <1>1, <1>3, <1>4, Names DEF InlineIsFirst, OthersStand
<1> QED
  BY <1>5, <1>6, <1>7, <1>8, <1>9 DEF AloneInv

LEMMA DidChangeAlone ==
  ASSUME Shape, AloneInv, NEW u \in Uri, NEW text \in Text, NEW t \in Task,
         DidChange(u, text, t)
  PROVE  AloneInv'
<1> DEFINE v == documents[u].version + 1
           r == [Off(u) EXCEPT !.pc = "asleep", !.version = v]
<1>1. v \in 0 .. MaxVersion
  BY OpenIs, BoundAssumption DEF DidChange
<1>2. /\ writer' = [writer EXCEPT ![t] = r]
      /\ documents' = [documents EXCEPT ![u] = [version |-> v, text |-> text]]
      /\ [version |-> v, text |-> text] # None
  BY <1>1, DocumentIs DEF DidChange
<1>3. r.pc = "asleep" /\ r.uri = u
  BY DEF Off
<1> HIDE DEF r, v
<1>4. OthersStand(t) /\ writer'[t] = r /\ t \in Writer
  BY <1>2, MovesAlone, Names
<1>5. writer["handler"].pc = "off" /\ Open(u)
  BY DEF DidChange, HandlerFree
<1>6. NobodyElse' /\ NobodyMet'
  BY <1>4, Names DEF AloneInv, NobodyElse, NobodyMet, OthersStand, DidChange, counters, indexVars
<1>7. OnlyAtOpen'
  <2>1. \A w \in Uri : Open(w) => Open(w)'
    BY <1>2 DEF Shape, DocsRight, Open
  <2> SUFFICES ASSUME NEW w \in Writer, writer'[w].pc # "off" PROVE Open(writer[w].uri)'
    BY DEF OnlyAtOpen
  <2>2. CASE w = t
    BY <1>3, <1>4, <1>5, <2>1, <2>2
  <2>3. CASE w # t
    BY <1>4, <2>1, <2>3, WriterUri DEF AloneInv, OnlyAtOpen, OthersStand
  <2> QED
    BY <2>2, <2>3
<1>8. OneAwake'
  <2>1. \A w \in Uri : ~Awake(t, w)'
    BY <1>3, <1>4 DEF Awake
  <2>2. \A w \in Uri, x \in Writer \ {t} : Awake(x, w)' <=> Awake(x, w)
    BY <1>4 DEF Awake, OthersStand
  <2> QED
    BY <2>1, <2>2 DEF AloneInv, OneAwake
<1>9. InlineIsFirst'
  <2>1. writer'["handler"].pc = "off"
    BY <1>4, <1>5, Names DEF OthersStand
  <2> QED
    BY <2>1 DEF InlineIsFirst
<1> QED
  BY <1>6, <1>7, <1>8, <1>9 DEF AloneInv

\* The client does nothing else.
LEMMA ClientAlone ==
  ASSUME OnlyPromptEdits, Shape, AloneInv, Client
  PROVE  AloneInv'
<1>1. ASSUME NEW u \in Uri, NEW text \in Text, DidOpen(u, text) PROVE AloneInv'
  BY <1>1, DidOpenAlone
<1>2. ASSUME NEW u \in Uri, NEW text \in Text, NEW t \in Task, DidChange(u, text, t)
      PROVE  AloneInv'
  BY <1>2, DidChangeAlone
<1>3. \A u \in Uri : \A text \in Text : ~DidSave(u, text)
  BY DEF DidSave, OnlyPromptEdits, Shape, CountersRight
<1>4. \A u \in Uri : ~DidClose(u) /\ ~WatchJob(u) /\ ~Request(u)
  BY DEF DidClose, WatchJob, Request, OnlyPromptEdits, Shape, CountersRight
<1> QED
  BY <1>1, <1>2, <1>3, <1>4 DEF Client

\* A task wakes up only when no other one of its document is at work.
LEMMA WakeAlone ==
  ASSUME OnlyPromptEdits, Shape, AloneInv, NEW t \in Task, Wake(t)
  PROVE  AloneInv'
<1>1. t \in Writer /\ writer[t].pc = "asleep"
  BY Names DEF Wake
<1>2. UNCHANGED <<docVars, salsaVars, indexVars, rebuild, overlapped, counters>>
  BY DEF Wake
<1>3. NobodyMet'
  BY <1>2 DEF AloneInv, NobodyMet, indexVars
<1>4. Step(t, "begin") \/ Stop(t)
  BY DEF Wake
<1>5. /\ OthersStand(t)
      /\ writer'[t].pc = "off" \/ writer'[t].uri = writer[t].uri
  <2>1. CASE Stop(t)
    BY <1>1, <2>1, StopIs, MovesAlone
  <2>2. CASE Step(t, "begin")
    BY <1>1, <2>2, StepIs, MovesAlone
  <2> QED
    BY <1>4, <2>1, <2>2
<1>6. \A x \in Writer \ {t} : ~Awake(x, writer[t].uri)
  <2> SUFFICES ASSUME NEW x \in Writer \ {t}, Awake(x, writer[t].uri) PROVE FALSE
    OBVIOUS
  <2>1. x \in Task \cup {"handler"}
    BY WhoIsAwake DEF Awake
  <2>2. CASE x \in Task
    BY <2>2 DEF Wake, OnlyPromptEdits, Awake
  <2>3. CASE x = "handler"
    BY <1>1, <2>3 DEF AloneInv, InlineIsFirst, Awake
  <2> QED
    BY <2>1, <2>2, <2>3
<1>7. NobodyElse'
  BY <1>2, <1>5, Names DEF AloneInv, NobodyElse, OthersStand, counters
<1>8. OnlyAtOpen'
  BY <1>1, <1>2, <1>5 DEF AloneInv, OnlyAtOpen, OthersStand, Open, docVars
<1>9. OneAwake'
  <2>1. \A v \in Uri, x \in Writer \ {t} : Awake(x, v)' <=> Awake(x, v)
    BY <1>5 DEF Awake, OthersStand
  <2>2. \A v \in Uri : Awake(t, v)' => v = writer[t].uri
    BY <1>5 DEF Awake
  <2> QED
    BY <1>6, <2>1, <2>2 DEF AloneInv, OneAwake
<1>10. InlineIsFirst'
  <2>1. writer'["handler"] = writer["handler"]
    BY <1>5, Names DEF OthersStand
  <2> QED
    BY <1>1, <1>5, <2>1, Names DEF AloneInv, InlineIsFirst, OthersStand
<1> QED
  BY <1>3, <1>7, <1>8, <1>9, <1>10 DEF AloneInv

\* The look at the document meets nobody.
LEMMA TakeSnapshotAlone ==
  ASSUME Shape, AloneInv, NEW t \in Task, TakeSnapshot(t)
  PROVE  AloneInv'
<1> DEFINE u == writer[t].uri
<1>1. t \in Writer /\ writer[t].pc = "begin" /\ u \in Uri
  BY Names, WriterUri DEF TakeSnapshot
<1>2. UNCHANGED <<docVars, salsaVars, indexVars, rebuild, counters>>
  BY DEF TakeSnapshot
<1>3. OthersStand(t) /\ writer'[t].uri = u
  <2>1. CASE Open(u)
    <3> DEFINE r == [writer[t] EXCEPT !.pc = "sync", !.text = documents[u].text]
    <3>1. writer' = [writer EXCEPT ![t] = r]
      BY <2>1 DEF TakeSnapshot
    <3>2. r.uri = u
      BY <1>1, WriterIs DEF Writers
    <3> HIDE DEF r
    <3> QED
      BY <1>1, <3>1, <3>2, MovesAlone
  <2>2. CASE ~Open(u)
    BY <1>1, <2>2, StepIs, MovesAlone DEF TakeSnapshot
  <2> QED
    BY <2>1, <2>2
<1>4. overlapped' = {}
  <2>1. \A x \in Writer : x \in Writing(u) => Awake(x, u)
    BY AtWork, Names DEF Awake
  <2>2. \A x \in Writing(u) : x \in Writer
    BY AtWork DEF AloneInv, NobodyElse
  <2>3. Writing(u) \subseteq {t}
    BY <1>1, <2>1, <2>2 DEF AloneInv, OneAwake, Awake
  <2>4. CASE Open(u)
    BY <2>3, <2>4, EntersAlone DEF AloneInv, NobodyMet, TakeSnapshot
  <2>5. CASE ~Open(u)
    BY <2>5 DEF AloneInv, NobodyMet, TakeSnapshot
  <2> QED
    BY <2>4, <2>5
<1>5. NobodyMet'
  BY <1>2, <1>4 DEF AloneInv, NobodyMet, indexVars
<1> QED
  BY <1>1, <1>2, <1>3, <1>5, AloneGoesOn DEF docVars, counters

\* The steps of a writer at work that change neither documents nor history.
LEMMA PlainAlone ==
  ASSUME Shape, AloneInv, NEW w \in Writer, writer[w].pc \notin {"off", "asleep"},
         OthersStand(w), writer'[w].pc = "off" \/ writer'[w].uri = writer[w].uri,
         UNCHANGED <<documents, indexVars, rebuild, overlapped, counters>>
  PROVE  AloneInv'
<1>1. NobodyMet'
  BY DEF AloneInv, NobodyMet, indexVars
<1> QED
  BY <1>1, AloneGoesOn DEF counters

LEMMA SyncFileAlone ==
  ASSUME Shape, AloneInv, NEW w \in Writer, SyncFile(w)
  PROVE  AloneInv'
<1>1. writer[w].pc = "sync"
  BY DEF SyncFile
<1>2. w # "request"
  BY <1>1 DEF AloneInv, NobodyElse
<1> DEFINE r == [writer[w] EXCEPT !.pc = "context", !.file = FileOf(writer[w].uri)]
<1>3. writer' = [writer EXCEPT ![w] = r]
  BY <1>2 DEF SyncFile
<1>4. r.uri = writer[w].uri
  BY WriterIs DEF Writers
<1> HIDE DEF r
<1>5. OthersStand(w) /\ writer'[w].uri = writer[w].uri
  BY <1>3, <1>4, MovesAlone
<1> QED
  BY <1>1, <1>5, PlainAlone DEF SyncFile, docVars

LEMMA TakeContextAlone ==
  ASSUME Shape, AloneInv, NEW w \in Writer, TakeContext(w)
  PROVE  AloneInv'
<1> DEFINE r == [writer[w] EXCEPT !.pc = "extract",
                                  !.bucket = ContextOf[model][writer[w].uri]]
<1>1. writer[w].pc = "context" /\ writer' = [writer EXCEPT ![w] = r]
  BY DEF TakeContext
<1>2. r.uri = writer[w].uri
  BY WriterIs DEF Writers
<1> HIDE DEF r
<1>3. OthersStand(w) /\ writer'[w].uri = writer[w].uri
  BY <1>1, <1>2, MovesAlone
<1> QED
  BY <1>1, <1>3, PlainAlone DEF TakeContext, docVars

LEMMA ExtractAlone ==
  ASSUME Shape, AloneInv, NEW w \in Writer, Extract(w)
  PROVE  AloneInv'
<1> DEFINE r == [writer[w] EXCEPT !.pc = "update",
                                  !.text = content[writer[w].uri][writer[w].file]]
<1>1. writer[w].pc = "extract" /\ writer' = [writer EXCEPT ![w] = r]
  BY DEF Extract
<1>2. r.uri = writer[w].uri
  BY WriterIs DEF Writers
<1> HIDE DEF r
<1>3. OthersStand(w) /\ writer'[w].uri = writer[w].uri
  BY <1>1, <1>2, MovesAlone
<1> QED
  BY <1>1, <1>3, PlainAlone DEF Extract, docVars

\* The entry is changed by a writer that met no other one.
LEMMA UpdateEntryAlone ==
  ASSUME Shape, AloneInv, NEW w \in Writer, UpdateEntry(w)
  PROVE  AloneInv'
<1>1. writer[w].pc = "update"
  BY DEF UpdateEntry
<1>2. NobodyMet'
  <2>1. serial' = [serial EXCEPT ![writer[w].uri] = <<w, writer[w].uri>> \notin overlapped]
    BY DEF UpdateEntry, UpdateIndex
  <2>2. overlapped = {} /\ overlapped' = {}
    BY DEF AloneInv, NobodyMet, UpdateEntry
  <2> QED
    BY <2>1, <2>2 DEF AloneInv, NobodyMet, Shape, IndexRight
<1>3. OthersStand(w) /\ (writer'[w].pc = "off" \/ writer'[w].uri = writer[w].uri)
  <2>1. CASE w \in Task
    BY <2>1, StepIs, MovesAlone DEF UpdateEntry
  <2>2. CASE w \notin Task
    BY <2>2, StopIs, MovesAlone DEF UpdateEntry
  <2> QED
    BY <2>1, <2>2
<1> QED
  BY <1>1, <1>2, <1>3, AloneGoesOn DEF UpdateEntry, docVars, counters

LEMMA CheckPendingAlone ==
  ASSUME Shape, AloneInv, NEW t \in Task, CheckPending(t)
  PROVE  AloneInv'
<1>1. t \in Writer /\ writer[t].pc = "settle"
  BY Names DEF CheckPending
<1>2. Step(t, "clear") \/ Stop(t)
  BY DEF CheckPending
<1>3. OthersStand(t) /\ (writer'[t].pc = "off" \/ writer'[t].uri = writer[t].uri)
  <2>1. CASE Step(t, "clear")
    BY <1>1, <2>1, StepIs, MovesAlone
  <2>2. CASE Stop(t)
    BY <1>1, <2>2, StopIs, MovesAlone
  <2> QED
    BY <1>2, <2>1, <2>2
<1> QED
  BY <1>1, <1>3, PlainAlone DEF CheckPending, docVars

LEMMA ClearPendingAlone ==
  ASSUME Shape, AloneInv, NEW t \in Task, ClearPending(t)
  PROVE  AloneInv'
<1>1. t \in Writer /\ writer[t].pc = "clear" /\ Stop(t)
  BY Names DEF ClearPending
<1>2. OthersStand(t) /\ writer'[t].pc = "off"
  BY <1>1, StopIs, MovesAlone
<1> QED
  BY <1>1, <1>2, PlainAlone DEF ClearPending

LEMMA BackgroundAlone ==
  ASSUME OnlyPromptEdits, Shape, AloneInv, Background
  PROVE  AloneInv'
<1>1. "closer" \in Writer /\ writer["closer"].pc = "off" /\ writer["watcher"].pc = "off"
  BY Names DEF AloneInv, NobodyElse
<1>2. ~Reconcile
  BY <1>1 DEF Reconcile
<1>3. \A w \in {"closer", "watcher"} : ~Guard(w) /\ ~Resolve(w) /\ ~Upsert(w) /\ ~Forget(w)
  BY <1>1 DEF Guard, Resolve, Upsert, Forget
<1> QED
  BY <1>2, <1>3, WakeAlone, TakeSnapshotAlone, SyncFileAlone, TakeContextAlone,
     ExtractAlone, UpdateEntryAlone, CheckPendingAlone, ClearPendingAlone DEF Background

\* There is no full reindex.
LEMMA NoRebuildAlone ==
  ASSUME OnlyPromptEdits, Shape, AloneInv
  PROVE  ~Rebuild
<1>1. rebuild.pc = "off" /\ rebuilds = 0
  BY DEF AloneInv, NobodyElse
<1>2. \A m \in Models : ~RebuildBegin(m)
  BY <1>1 DEF RebuildBegin, OnlyPromptEdits
<1> QED
  BY <1>1, <1>2 DEF Rebuild, RebuildScan, RebuildInputs, RebuildRead, RebuildOverlay,
     RebuildReapply, RebuildReread, RebuildPrune, RebuildReplace

LEMMA AloneInductive ==
  ASSUME OnlyPromptEdits
  PROVE  /\ Init => AloneInv
         /\ DocumentsInv /\ AloneInv /\ [Next]_vars => AloneInv'
<1>1. Init => AloneInv
  <2> SUFFICES ASSUME Init PROVE AloneInv
    OBVIOUS
  <2>1. \A w \in Writer : writer[w].pc = "off"
    BY DEF Init, Off
  <2>2. rebuild.pc = "off" /\ rebuilds = 0 /\ overlapped = {} /\ \A u \in Uri : serial[u]
    BY DEF Init, NoRebuild
  <2> QED
    BY <2>1, <2>2, Names DEF AloneInv, NobodyElse, NobodyMet, OnlyAtOpen, OneAwake,
       InlineIsFirst, Awake
<1>2. DocumentsInv /\ AloneInv /\ [Next]_vars => AloneInv'
  <2> SUFFICES ASSUME Shape, AloneInv, [Next]_vars PROVE AloneInv'
    BY DEF DocumentsInv
  <2>1. CASE Client
    BY <2>1, ClientAlone
  <2>2. CASE Background
    BY <2>2, BackgroundAlone
  <2>3. CASE Rebuild
    BY <2>3, NoRebuildAlone
  <2>4. CASE UNCHANGED vars
    BY <2>4 DEF vars, docVars, salsaVars, indexVars, counters, AloneInv, NobodyElse,
       NobodyMet, OnlyAtOpen, OneAwake, InlineIsFirst, Awake, Open
  <2> QED
    BY <2>1, <2>2, <2>3, <2>4 DEF Next
<1> QED
  BY <1>1, <1>2

\* While the client opens and edits documents, and each reindex ends before the
\* debounce of a later change does, every edit whose version nobody took away is
\* shown (schedule_did_change_reindex), for any documents, tasks and versions.
THEOREM PromptEditsAreShown ==
  ASSUME OnlyPromptEdits
  PROVE  Spec => []KeptEditsShown
<1>1. Init => AloneInv
  BY AloneInductive
<1>2. DocumentsInv /\ AloneInv /\ [Next]_vars => AloneInv'
  BY AloneInductive
<1>3. DocumentsInv /\ AloneInv => KeptEditsShown
  <2> SUFFICES ASSUME DocumentsInv, AloneInv, Settled, NEW u \in Uri, Open(u), ~dropped[u]
               PROVE  Shown(u) = documents[u].text
    BY DEF KeptEditsShown
  <2>1. OpenRight(u)
    BY DEF DocumentsInv, AllRight, DocumentRight
  <2>2. serial[u] /\ ~LeftOut(u)
    BY DEF AloneInv, NobodyMet, NobodyElse, LeftOut
  <2> QED
    BY <2>1, <2>2, SettledIs DEF OpenRight
<1> QED
  BY <1>1, <1>2, <1>3, DocumentsInvariant, PTL DEF Spec

=============================================================================
