------------------------ MODULE SemanticCachesProofs ------------------------
(***************************************************************************)
(* Proofs about the caches of an open document: a semantic context that is *)
(* answered from the cache is current, and a token delta starts from the   *)
(* tokens the client holds, for every set of texts, any number of requests *)
(* at a time and any number of events.                                     *)
(*                                                                         *)
(* The argument rests on the versions of the document.  Within a session,  *)
(* from one didOpen to the next, everybody who refers to a version (the    *)
(* document, the client's result, the requests) means the same text by it, *)
(* and no version is above the document's: an edit makes a version that    *)
(* nobody refers to yet.  A cache entry or a result that is found again    *)
(* under its version was therefore made of the text that is looked for.    *)
(*                                                                         *)
(* At the end: the edit of a delta is right for any two lists of tokens.   *)
(***************************************************************************)
EXTENDS SemanticCaches, SequenceTheorems, WellFoundedInduction, TLAPS

-----------------------------------------------------------------------------
(* The shape of the state.                                                  *)

IsDocument(d) ==
    /\ d = [version |-> d.version, text |-> d.text, tree |-> d.tree,
            tokens |-> d.tokens, contexts |-> d.contexts]
    /\ d.version \in Nat \ {0}
    /\ d.contexts = [k \in DOMAIN d.contexts |-> d.contexts[k]]

Pcs == {"idle", "tree", "load", "view", "sync", "key", "extract", "build",
        "keep", "old", "store", "answer"}

\* A request record, field by field.
R(pc, kind, session, started, prev, file, old, index, view, key, extracted,
  context, disturbed) ==
    [pc |-> pc, kind |-> kind, session |-> session, started |-> started,
     prev |-> prev, file |-> file, old |-> old, index |-> index, view |-> view,
     key |-> key, extracted |-> extracted, context |-> context,
     disturbed |-> disturbed]

IsRecord(r) ==
    r = R(r.pc, r.kind, r.session, r.started, r.prev, r.file, r.old, r.index,
          r.view, r.key, r.extracted, r.context, r.disturbed)

IsRequest(r) ==
    /\ IsRecord(r)
    /\ r.pc \in Pcs
    /\ r.session \in 0 .. sessions
    /\ r.disturbed \in BOOLEAN
    /\ r.pc # "idle" => r.kind \in {"full", "delta", "context"}
    /\ r.pc \in {"old", "store"} => r.kind # "context"
    /\ r.pc \in {"load", "view", "sync", "key", "extract", "build", "keep"}
           => r.kind = "context"
    /\ r.pc \notin {"idle", "tree"} => r.file.version \in Nat

IsContext(c) ==
    /\ c = [texts |-> c.texts, index |-> c.index, disturbed |-> c.disturbed,
            late |-> c.late]
    /\ c.index[2] \in Nat

Typed ==
    /\ sessions \in Nat
    /\ versions \in Seq(Nat) /\ versions # <<>>
    /\ handler \in {"idle", "parse"}
    /\ handler = "parse" => doc # NoDocument
    /\ IsDocument(doc) \/ doc = NoDocument
    /\ worker = [w \in Worker |-> worker[w]]
    /\ \A w \in Worker : IsRequest(worker[w])

-----------------------------------------------------------------------------
(* Versions.                                                                *)

\* Which version means which text, to those who refer to one in this session.
DocumentPairs == {<<d.version, d.text>> : d \in {doc} \ {NoDocument}}
HeldPairs == {<<h.id, h.text>> : h \in {held} \ {None}}
RequestPairs(r) ==
    IF r.session # sessions \/ r.pc = "idle" THEN {}
    ELSE {<<f.version, f.text>> : f \in {g \in {r.file} : r.pc # "tree"}}
         \cup {<<h.id, h.text>> : h \in {g \in {r.prev} : r.kind = "delta"}}
Known == DocumentPairs \cup HeldPairs
         \cup UNION {RequestPairs(worker[w]) : w \in Worker}

\* They agree, and the document has the latest version.
VersionsAgree ==
    /\ \A p, q \in Known : p[1] = q[1] => p[2] = q[2]
    /\ doc # NoDocument => \A p \in Known : p[1] \in 0 .. doc.version
    /\ doc = NoDocument => held = None

-----------------------------------------------------------------------------
(* The caches.                                                              *)

CachedContextsOK ==
    doc # NoDocument => \A k \in DOMAIN doc.contexts :
        LET context == doc.contexts[k] IN
        /\ IsContext(context)
        /\ k.document_version = doc.version
        /\ k.workspace_version \in Nat
        /\ ~context.disturbed /\ ~context.late => context.texts = {doc.text}
        /\ Current = 1 => k.workspace_version <= context.index[2]

\* Tokens whose result id somebody refers to are those of the text meant.
CachedTokensOK ==
    doc # NoDocument /\ doc.tokens # None /\ ~doc.tokens.late =>
        \A p \in Known : p[1] = doc.tokens.id => doc.tokens.data = TokensOf[p[2]]

-----------------------------------------------------------------------------
(* The requests.                                                            *)

\* What a request has of the index.
IndexPartOK(r) ==
    /\ r.pc # "idle" => r.started[2] \in Nat
    /\ r.pc \in {"view", "sync", "key", "extract", "build", "keep"}
           => r.index \in 1 .. Current
    /\ r.pc \in {"sync", "key", "extract", "build", "keep"} => r.view \in 1 .. Current
    /\ r.pc \in {"extract", "build", "keep"} =>
           /\ r.key.document_version = r.file.version
           /\ r.key.workspace_version \in Nat
    /\ r.pc = "keep" \/ (r.pc = "answer" /\ r.kind = "context") => IsContext(r.context)
    /\ Current = 1 =>
           /\ r.pc # "idle" => r.started[2] <= versions[1]
           /\ r.pc \in {"extract", "build", "keep"} =>
                  r.started[2] <= r.key.workspace_version
           /\ r.pc \in {"extract", "build"} => r.key.workspace_version <= versions[1]
           /\ r.pc = "keep" => r.key.workspace_version <= r.context.index[2]
           /\ r.pc = "answer" /\ r.kind = "context" =>
                  r.started[2] <= r.context.index[2]

\* The texts it has used, while nobody disturbed the Salsa file.
TextPartOK(r) ==
    /\ r.pc \in {"key", "extract", "build"} /\ ~r.disturbed => salsa = r.file.text
    /\ r.pc = "build" /\ ~r.disturbed => r.extracted = r.file.text
    /\ r.pc = "keep" /\ ~r.context.disturbed => r.context.texts = {r.file.text}
    /\ r.pc = "answer" /\ r.kind = "context" /\ r.session = sessions
         /\ ~r.context.disturbed /\ ~r.context.late
           => r.context.texts = {r.file.text}

\* The old tokens of a delta.
DeltaPartOK(r) ==
    r.pc \in {"store", "answer"} /\ r.kind = "delta" /\ r.session = sessions
      /\ r.old # None /\ ~r.old.late
        => r.old.data = TokensOf[r.prev.text]

RequestsOK == \A w \in Worker : /\ IndexPartOK(worker[w])
                                /\ TextPartOK(worker[w])
                                /\ DeltaPartOK(worker[w])

CachesInv ==
    /\ Typed
    /\ VersionsAgree
    /\ CachedContextsOK
    /\ CachedTokensOK
    /\ RequestsOK

-----------------------------------------------------------------------------
(* Lemmas about one step of a request.                                      *)

\* Only the request w moves, in the session it is in.
Moves(w) ==
    /\ worker' = [v \in Worker |-> worker'[v]]
    /\ \A v \in Worker \ {w} : worker'[v] = worker[v]
    /\ UNCHANGED <<versions, sessions>>

(* The other requests stay as they are while the Salsa file does.           *)
LEMMA OthersStay ==
    ASSUME CachesInv, NEW w \in Worker, Moves(w), UNCHANGED salsa,
           IsRequest(worker[w])', IndexPartOK(worker[w])',
           TextPartOK(worker[w])', DeltaPartOK(worker[w])'
    PROVE  /\ RequestsOK'
           /\ \A v \in Worker : IsRequest(worker[v])'
<1>1. ASSUME NEW v \in Worker
      PROVE  /\ IsRequest(worker[v])'
             /\ (IndexPartOK(worker[v]) /\ TextPartOK(worker[v]) /\ DeltaPartOK(worker[v]))'
  <2>1. CASE v = w
    BY <2>1
  <2>2. CASE v # w
    <3>1. worker'[v] = worker[v] /\ UNCHANGED <<versions, sessions, salsa>>
      BY <2>2 DEF Moves
    <3>2. IsRequest(worker[v])'
      BY <3>1 DEF CachesInv, Typed, IsRequest
    <3>3. IndexPartOK(worker[v])'
      BY <3>1 DEF CachesInv, RequestsOK, IndexPartOK, Current, IsContext
    <3>4. TextPartOK(worker[v])'
      BY <3>1 DEF CachesInv, RequestsOK, TextPartOK
    <3>5. DeltaPartOK(worker[v])'
      BY <3>1 DEF CachesInv, RequestsOK, DeltaPartOK
    <3> QED
      BY <3>2, <3>3, <3>4, <3>5
  <2> QED
    BY <2>1, <2>2
<1> QED
  BY <1>1 DEF RequestsOK

(* What the requests refer to after a step of w.                            *)
LEMMA PairsOfStep ==
    ASSUME NEW w \in Worker, Moves(w), RequestPairs(worker[w])' \subseteq Known,
           (DocumentPairs \cup HeldPairs)' \subseteq Known
    PROVE  Known' \subseteq Known
<1>1. ASSUME NEW v \in Worker, v # w
      PROVE  RequestPairs(worker[v])' = RequestPairs(worker[v])
  <2>1. worker'[v] = worker[v] /\ sessions' = sessions
    BY <1>1 DEF Moves
  <2> QED
    BY <2>1 DEF RequestPairs
<1>2. ASSUME NEW v \in Worker
      PROVE  RequestPairs(worker[v])' \subseteq Known
  <2>1. CASE v = w
    BY <2>1
  <2>2. CASE v # w
    BY <2>2, <1>1 DEF Known
  <2> QED
    BY <2>1, <2>2
<1> QED
  BY <1>2 DEF Known

(* Nobody comes to refer to another version.                                *)
LEMMA VersionsStay ==
    ASSUME VersionsAgree, Known' \subseteq Known,
           doc' # NoDocument => doc # NoDocument /\ doc'.version = doc.version,
           doc' = NoDocument => held' = None
    PROVE  VersionsAgree'
BY DEF VersionsAgree

(* A request moves and leaves the document and the client alone.            *)
LEMMA QuietStep ==
    ASSUME CachesInv, NEW w \in Worker, Moves(w),
           UNCHANGED <<doc, handler, salsa, held>>,
           RequestPairs(worker[w])' \subseteq Known,
           IsRequest(worker[w])', IndexPartOK(worker[w])',
           TextPartOK(worker[w])', DeltaPartOK(worker[w])'
    PROVE  CachesInv'
<1>1. RequestsOK' /\ \A v \in Worker : IsRequest(worker[v])'
  BY OthersStay
<1>2. Typed'
  BY <1>1 DEF Typed, IsDocument, Moves, CachesInv
<1>3. Known' \subseteq Known
  BY PairsOfStep DEF DocumentPairs, HeldPairs, Known
<1>4. VersionsAgree'
  BY <1>3, VersionsStay DEF CachesInv, VersionsAgree
<1>5. CachedContextsOK'
  BY DEF CachesInv, CachedContextsOK, IsContext, Moves, Current
<1>6. CachedTokensOK'
  BY <1>3 DEF CachesInv, CachedTokensOK
<1> QED
  BY <1>1, <1>2, <1>4, <1>5, <1>6 DEF CachesInv

-----------------------------------------------------------------------------
(* Lemmas about documents.                                                  *)

\* A document that others may refer to as they did to d.
Refreshed(e, d, tokens, contexts) ==
    /\ IsDocument(e) /\ e # NoDocument
    /\ e.version = d.version /\ e.text = d.text
    /\ e.tokens = tokens /\ e.contexts = contexts

LEMMA OpenIsNotClosed ==
    ASSUME NEW d, IsDocument(d)
    PROVE  d # NoDocument
BY DEF IsDocument, NoDocument, Document

LEMMA EmptyCache ==
    /\ NoContexts = [k \in DOMAIN NoContexts |-> NoContexts[k]]
    /\ DOMAIN NoContexts = {}
<1>1. DOMAIN NoContexts = {}
  BY DEF NoContexts
<1> QED
  BY <1>1 DEF NoContexts

(* set_tree keeps the tokens, and drops the contexts.                       *)
LEMMA TreeRefreshes ==
    ASSUME NEW d, IsDocument(d)
    PROVE  Refreshed(WithTree(d), d, d.tokens, NoContexts)
<1>1. PICK yes : yes = TRUE
  OBVIOUS
<1>2. PICK e : e = [d EXCEPT !.tree = yes, !.contexts = NoContexts]
  OBVIOUS
<1>3. IsDocument(e)
  BY <1>2, EmptyCache DEF IsDocument
<1>4. Refreshed(e, d, d.tokens, NoContexts)
  BY <1>2, <1>3, OpenIsNotClosed DEF IsDocument, Refreshed
<1>5. e = WithTree(d)
  BY <1>1, <1>2, Zenon DEF WithTree
<1> QED
  BY <1>4, <1>5

LEMMA TokensRefresh ==
    ASSUME NEW d, IsDocument(d), NEW tokens
    PROVE  Refreshed([d EXCEPT !.tokens = tokens], d, tokens, d.contexts)
<1>1. IsDocument([d EXCEPT !.tokens = tokens])
  BY DEF IsDocument
<1> QED
  BY <1>1, OpenIsNotClosed DEF IsDocument, Refreshed

LEMMA ContextsRefresh ==
    ASSUME NEW d, IsDocument(d), NEW contexts, contexts = [k \in DOMAIN contexts |-> contexts[k]]
    PROVE  Refreshed([d EXCEPT !.contexts = contexts], d, d.tokens, contexts)
<1>1. IsDocument([d EXCEPT !.contexts = contexts])
  BY DEF IsDocument
<1> QED
  BY <1>1, OpenIsNotClosed DEF IsDocument, Refreshed

LEMMA CleanDocument ==
    ASSUME NEW version \in Nat \ {0}, NEW text, NEW old
    PROVE  LET d == Document(version, text)
               e == UpdateSource(old, version, text)
           IN  /\ Refreshed(d, d, None, NoContexts)
               /\ d.version = version /\ d.text = text
               /\ Refreshed(e, d, None, NoContexts)
<1> DEFINE d == Document(version, text)
           e == UpdateSource(old, version, text)
<1>1. PICK no, yes : no = FALSE /\ yes = TRUE
  OBVIOUS
<1>2. PICK f : f = [version |-> version, text |-> text, tree |-> no, tokens |-> None,
                    contexts |-> NoContexts]
  OBVIOUS
<1>3. PICK g : g = [f EXCEPT !.tree = yes]
  OBVIOUS
<1>4. IsDocument(f) /\ IsDocument(g)
  BY <1>2, <1>3, EmptyCache DEF IsDocument
<1>5. Refreshed(f, f, None, NoContexts) /\ Refreshed(g, f, None, NoContexts)
      /\ f.version = version /\ f.text = text
  BY <1>2, <1>3, <1>4, OpenIsNotClosed DEF Refreshed
<1>6. f = d
  BY <1>1, <1>2, Zenon DEF Document
<1>7. g = e
  BY <1>1, <1>3, <1>6, Zenon DEF UpdateSource
<1> QED
  BY <1>5, <1>6, <1>7

-----------------------------------------------------------------------------
(* Requests.                                                                *)

(* What the fields of a request record are.                                 *)
LEMMA Fields ==
    ASSUME NEW pc, NEW kind, NEW session, NEW started, NEW prev, NEW file, NEW old,
           NEW index, NEW view, NEW key, NEW extracted, NEW context, NEW disturbed,
           NEW r, r = R(pc, kind, session, started, prev, file, old, index, view, key,
                        extracted, context, disturbed)
    PROVE  /\ r.pc = pc /\ r.kind = kind /\ r.session = session
           /\ r.started = started /\ r.prev = prev /\ r.file = file /\ r.old = old
           /\ r.index = index /\ r.view = view /\ r.key = key
           /\ r.extracted = extracted /\ r.context = context
           /\ r.disturbed = disturbed
           /\ IsRecord(r)
<1>1. /\ r.pc = pc /\ r.kind = kind /\ r.session = session
      /\ r.started = started /\ r.prev = prev /\ r.file = file /\ r.old = old
      /\ r.index = index /\ r.view = view /\ r.key = key
      /\ r.extracted = extracted /\ r.context = context
      /\ r.disturbed = disturbed
  BY DEF R
<1> QED
  BY <1>1 DEF IsRecord

(* A step that writes the record of w moves only w.                         *)
LEMMA WriteMoves ==
    ASSUME CachesInv, NEW w \in Worker, NEW r,
           Become(w, r), UNCHANGED <<versions, sessions>>
    PROVE  Moves(w) /\ worker'[w] = r
BY DEF Become, Moves, CachesInv, Typed

LEMMA RequestSound ==
    ASSUME CachesInv, NEW w \in Worker, NEW kind \in {"full", "delta", "context"},
           Request(w, kind)
    PROVE  CachesInv'
<1> DEFINE started == <<Current, versions[Current]>>
           prev == IF kind = "delta" THEN held ELSE None
           moved == [Idle EXCEPT !.pc = "tree", !.kind = kind, !.session = sessions,
                                 !.prev = prev, !.started = started]
<1>1. PICK r : r = moved
  OBVIOUS
<1>2. Moves(w) /\ worker'[w] = r
  BY <1>1, WriteMoves DEF Request
<1>3. UNCHANGED <<doc, handler, salsa, versions, held, sessions>>
      /\ (kind = "delta" => held # None)
  BY DEF Request
<1>4. /\ sessions \in Nat /\ Current \in Nat \ {0} /\ started[2] \in Nat
      /\ Current = 1 => started[2] = versions[1]
  BY DEF CachesInv, Typed, Current
<1>5. kind = "delta" => prev = held
  OBVIOUS
<1> HIDE DEF started, prev
<1>6. r = R("tree", kind, sessions, started, prev, None, None, 0, 0, None, None, None,
            FALSE)
  BY <1>1, Zenon DEF Idle, R
<1> HIDE DEF moved
<1>7. /\ r.pc = "tree" /\ r.kind = kind /\ r.session = sessions
      /\ r.started = started /\ r.prev = prev /\ r.file = None /\ r.old = None
      /\ r.index = 0 /\ r.view = 0 /\ r.key = None /\ r.extracted = None
      /\ r.context = None
      /\ r.disturbed \in BOOLEAN /\ ~r.disturbed
      /\ IsRecord(r)
  <2>1. PICK no : no = FALSE
    OBVIOUS
  <2>2. PICK zero : zero = 0
    OBVIOUS
  <2>3. PICK tree : tree = "tree"
    OBVIOUS
  <2>4. r = R(tree, kind, sessions, started, prev, None, None, zero, zero, None, None,
              None, no)
    BY <1>6, <2>1, <2>2, <2>3, Zenon
  <2>5. /\ r.pc = tree /\ r.kind = kind /\ r.session = sessions
        /\ r.started = started /\ r.prev = prev /\ r.file = None /\ r.old = None
        /\ r.index = zero /\ r.view = zero /\ r.key = None /\ r.extracted = None
        /\ r.context = None /\ r.disturbed = no
        /\ IsRecord(r)
    BY <2>4, Fields
  <2>6. r.disturbed \in BOOLEAN /\ ~r.disturbed
    BY <2>1, <2>5, Zenon
  <2> QED
    BY <2>1, <2>2, <2>3, <2>5, <2>6
<1>8. IsRequest(worker[w])'
  BY <1>2, <1>3, <1>4, <1>7 DEF IsRequest, Pcs
<1>9. IndexPartOK(worker[w])'
  BY <1>2, <1>3, <1>4, <1>7 DEF IndexPartOK, Current
<1>10. TextPartOK(worker[w])' /\ DeltaPartOK(worker[w])'
  BY <1>2, <1>7 DEF TextPartOK, DeltaPartOK
<1>11. RequestPairs(worker[w])' \subseteq Known
  BY <1>2, <1>3, <1>5, <1>7 DEF RequestPairs, Known, HeldPairs
<1> QED
  BY <1>2, <1>3, <1>8, <1>9, <1>10, <1>11, QuietStep

(* The record of a request that is not under way.                           *)
LEMMA IdleRecord ==
    ASSUME NEW r, r = Idle
    PROVE  r.pc = "idle" /\ r.session = 0 /\ r.disturbed \in BOOLEAN /\ IsRecord(r)
<1>1. PICK no : no = FALSE
  OBVIOUS
<1>2. PICK zero : zero = 0
  OBVIOUS
<1>3. PICK idle : idle = "idle"
  OBVIOUS
<1>4. PICK start : start = <<0, 0>>
  OBVIOUS
<1>5. r = R(idle, None, zero, start, None, None, None, zero, zero, None, None, None, no)
  BY <1>1, <1>2, <1>3, <1>4, Zenon DEF Idle, R
<1>6. /\ r.pc = idle /\ r.kind = None /\ r.session = zero /\ r.started = start
      /\ r.prev = None /\ r.file = None /\ r.old = None /\ r.index = zero
      /\ r.view = zero /\ r.key = None /\ r.extracted = None /\ r.context = None
      /\ r.disturbed = no
      /\ IsRecord(r)
  BY <1>5, Fields
<1>7. r.disturbed \in BOOLEAN
  BY <1>1, <1>6, Zenon
<1> QED
  BY <1>2, <1>3, <1>6, <1>7

LEMMA EndMoves ==
    ASSUME CachesInv, NEW w \in Worker, End(w),
           UNCHANGED <<versions, sessions>>
    PROVE  /\ Moves(w) /\ IsRequest(worker[w])'
           /\ IndexPartOK(worker[w])' /\ TextPartOK(worker[w])' /\ DeltaPartOK(worker[w])'
           /\ RequestPairs(worker[w])' \subseteq Known
<1>1. PICK r : r = Idle
  OBVIOUS
<1>2. Moves(w) /\ worker'[w] = r
  BY <1>1, WriteMoves DEF End
<1>3. r.pc = "idle" /\ r.session = 0 /\ r.disturbed \in BOOLEAN /\ IsRecord(r)
  BY <1>1, IdleRecord
<1>4. sessions \in Nat /\ UNCHANGED sessions
  BY DEF CachesInv, Typed
<1>5. IsRequest(worker[w])'
  BY <1>2, <1>3, <1>4 DEF IsRequest, Pcs
<1>6. IndexPartOK(worker[w])' /\ TextPartOK(worker[w])' /\ DeltaPartOK(worker[w])'
  BY <1>2, <1>3 DEF IndexPartOK, TextPartOK, DeltaPartOK
<1>7. RequestPairs(worker[w])' \subseteq Known
  BY <1>2, <1>3 DEF RequestPairs
<1> QED
  BY <1>2, <1>5, <1>6, <1>7

(* A request that ends leaves no trace.                                     *)
LEMMA GiveUpSound ==
    ASSUME CachesInv, NEW w \in Worker, End(w),
           UNCHANGED <<doc, handler, salsa, versions, held, sessions>>
    PROVE  CachesInv'
<1>1. /\ Moves(w) /\ IsRequest(worker[w])'
      /\ IndexPartOK(worker[w])' /\ TextPartOK(worker[w])' /\ DeltaPartOK(worker[w])'
      /\ RequestPairs(worker[w])' \subseteq Known
  BY EndMoves
<1> QED
  BY <1>1, QuietStep

LEMMA ReadOldTokensSound ==
    ASSUME CachesInv, NEW w \in Worker, ReadOldTokens(w)
    PROVE  CachesInv'
<1> DEFINE old == OldTokens(w)
<1>1. PICK q : q = worker[w]
  OBVIOUS
<1>2. /\ IsRequest(q) /\ IndexPartOK(q) /\ TextPartOK(q) /\ DeltaPartOK(q)
      /\ q.pc = "old" /\ doc # NoDocument
  BY <1>1 DEF CachesInv, Typed, RequestsOK, ReadOldTokens
<1>3. PICK r : /\ r.pc = "store" /\ r.kind = q.kind /\ r.session = q.session
               /\ r.started = q.started /\ r.prev = q.prev /\ r.file = q.file
               /\ r.old = old /\ r.index = q.index /\ r.view = q.view
               /\ r.key = q.key /\ r.extracted = q.extracted
               /\ r.context = q.context /\ r.disturbed = q.disturbed
               /\ IsRecord(r)
               /\ Moves(w) /\ worker'[w] = r
  <2>1. PICK r : r = [worker[w] EXCEPT !.pc = "store", !.old = old]
    OBVIOUS
  <2>2. Moves(w) /\ worker'[w] = r
    BY <2>1, WriteMoves DEF ReadOldTokens
  <2>3. r = [q EXCEPT !.pc = "store", !.old = old]
    BY <2>1, <1>1
  <2> HIDE DEF old
  <2>4. q = R(q.pc, q.kind, q.session, q.started, q.prev, q.file, q.old, q.index,
              q.view, q.key, q.extracted, q.context, q.disturbed)
    BY <1>2 DEF IsRequest, IsRecord
  <2>5. r = R("store", q.kind, q.session, q.started, q.prev, q.file, old, q.index,
              q.view, q.key, q.extracted, q.context, q.disturbed)
    BY <2>3, <2>4, Zenon DEF R
  <2>6. /\ r.pc = "store" /\ r.kind = q.kind /\ r.session = q.session
        /\ r.started = q.started /\ r.prev = q.prev /\ r.file = q.file
        /\ r.old = old /\ r.index = q.index /\ r.view = q.view /\ r.key = q.key
        /\ r.extracted = q.extracted /\ r.context = q.context
        /\ r.disturbed = q.disturbed
        /\ IsRecord(r)
    BY <2>5, Fields
  <2> QED
    BY <2>2, <2>6
<1>4. UNCHANGED <<doc, handler, salsa, versions, held, sessions>>
  BY DEF ReadOldTokens
<1>5. IsRequest(worker[w])'
  BY <1>2, <1>3, <1>4 DEF IsRequest, Pcs
<1>6. IndexPartOK(worker[w])' /\ TextPartOK(worker[w])'
  BY <1>2, <1>3, <1>4 DEF IndexPartOK, TextPartOK, IsRequest, Current
<1>7. RequestPairs(worker[w])' = RequestPairs(worker[w])
  BY <1>1, <1>2, <1>3, <1>4 DEF RequestPairs
<1>8. DeltaPartOK(worker[w])'
  <2>1. SUFFICES ASSUME q.kind = "delta", q.session = sessions,
                        old # None, ~old.late
                 PROVE  old.data = TokensOf[q.prev.text]
    BY <1>3, <1>4 DEF DeltaPartOK
  <2>2. <<q.prev.id, q.prev.text>> \in Known
    BY <2>1, <1>1, <1>2 DEF Known, RequestPairs
  <2>3. doc.tokens # None /\ old = doc.tokens /\ doc.tokens.id = q.prev.id
    BY <2>1, <1>1 DEF OldTokens
  <2> QED
    BY <2>1, <2>2, <2>3, <1>2 DEF CachesInv, CachedTokensOK
<1> QED
  BY <1>3, <1>4, <1>5, <1>6, <1>7, <1>8, QuietStep DEF Known

LEMMA LoadIndexSound ==
    ASSUME CachesInv, NEW w \in Worker, LoadIndex(w)
    PROVE  CachesInv'
<1>1. PICK q : q = worker[w]
  OBVIOUS
<1>2. /\ IsRequest(q) /\ IndexPartOK(q) /\ TextPartOK(q) /\ DeltaPartOK(q)
      /\ q.pc = "load"
  BY <1>1 DEF CachesInv, Typed, RequestsOK, LoadIndex
<1>3. PICK r : /\ r.pc = "view" /\ r.kind = q.kind /\ r.session = q.session
               /\ r.started = q.started /\ r.prev = q.prev /\ r.file = q.file
               /\ r.old = q.old /\ r.index = Current /\ r.view = q.view
               /\ r.key = q.key /\ r.extracted = q.extracted
               /\ r.context = q.context /\ r.disturbed = q.disturbed
               /\ IsRecord(r)
               /\ Moves(w) /\ worker'[w] = r
  <2>1. PICK r : r = [worker[w] EXCEPT !.pc = "view", !.index = Current]
    OBVIOUS
  <2>2. Moves(w) /\ worker'[w] = r
    BY <2>1, WriteMoves DEF LoadIndex
  <2>3. r = [q EXCEPT !.pc = "view", !.index = Current]
    BY <2>1, <1>1
  <2>4. q = R(q.pc, q.kind, q.session, q.started, q.prev, q.file, q.old, q.index,
              q.view, q.key, q.extracted, q.context, q.disturbed)
    BY <1>2 DEF IsRequest, IsRecord
  <2>5. r = R("view", q.kind, q.session, q.started, q.prev, q.file, q.old, Current,
              q.view, q.key, q.extracted, q.context, q.disturbed)
    BY <2>3, <2>4, Zenon DEF R
  <2>6. /\ r.pc = "view" /\ r.kind = q.kind /\ r.session = q.session
        /\ r.started = q.started /\ r.prev = q.prev /\ r.file = q.file
        /\ r.old = q.old /\ r.index = Current /\ r.view = q.view /\ r.key = q.key
        /\ r.extracted = q.extracted /\ r.context = q.context
        /\ r.disturbed = q.disturbed
        /\ IsRecord(r)
    BY <2>5, Fields
  <2> QED
    BY <2>2, <2>6
<1>4. UNCHANGED <<doc, handler, salsa, versions, held, sessions>>
  BY DEF LoadIndex
<1>5. IsRequest(worker[w])'
  BY <1>2, <1>3, <1>4 DEF IsRequest, Pcs
<1>6. IndexPartOK(worker[w])'
  <2>1. Current \in Nat \ {0}
    BY DEF CachesInv, Typed, Current
  <2> QED
    BY <2>1, <1>2, <1>3, <1>4 DEF IndexPartOK, IsRequest, Current
<1>7. TextPartOK(worker[w])'
  BY <1>2, <1>3, <1>4 DEF TextPartOK, IsRequest
<1>8. DeltaPartOK(worker[w])'
  BY <1>2, <1>3, <1>4 DEF DeltaPartOK, IsRequest
<1>9. RequestPairs(worker[w])' = RequestPairs(worker[w])
  BY <1>1, <1>2, <1>3, <1>4 DEF RequestPairs
<1> QED
  BY <1>3, <1>4, <1>5, <1>6, <1>7, <1>8, <1>9, QuietStep DEF Known

LEMMA GetViewSound ==
    ASSUME CachesInv, NEW w \in Worker, GetView(w)
    PROVE  CachesInv'
<1>1. PICK q : q = worker[w]
  OBVIOUS
<1>2. /\ IsRequest(q) /\ IndexPartOK(q) /\ TextPartOK(q) /\ DeltaPartOK(q)
      /\ q.pc = "view"
  BY <1>1 DEF CachesInv, Typed, RequestsOK, GetView
<1>3. PICK r : /\ r.pc = "sync" /\ r.kind = q.kind /\ r.session = q.session
               /\ r.started = q.started /\ r.prev = q.prev /\ r.file = q.file
               /\ r.old = q.old /\ r.index = q.index /\ r.view = Current
               /\ r.key = q.key /\ r.extracted = q.extracted
               /\ r.context = q.context /\ r.disturbed = q.disturbed
               /\ IsRecord(r)
               /\ Moves(w) /\ worker'[w] = r
  <2>1. PICK r : r = [worker[w] EXCEPT !.pc = "sync", !.view = Current]
    OBVIOUS
  <2>2. Moves(w) /\ worker'[w] = r
    BY <2>1, WriteMoves DEF GetView
  <2>3. r = [q EXCEPT !.pc = "sync", !.view = Current]
    BY <2>1, <1>1
  <2>4. q = R(q.pc, q.kind, q.session, q.started, q.prev, q.file, q.old, q.index,
              q.view, q.key, q.extracted, q.context, q.disturbed)
    BY <1>2 DEF IsRequest, IsRecord
  <2>5. r = R("sync", q.kind, q.session, q.started, q.prev, q.file, q.old, q.index,
              Current, q.key, q.extracted, q.context, q.disturbed)
    BY <2>3, <2>4, Zenon DEF R
  <2>6. /\ r.pc = "sync" /\ r.kind = q.kind /\ r.session = q.session
        /\ r.started = q.started /\ r.prev = q.prev /\ r.file = q.file
        /\ r.old = q.old /\ r.index = q.index /\ r.view = Current /\ r.key = q.key
        /\ r.extracted = q.extracted /\ r.context = q.context
        /\ r.disturbed = q.disturbed
        /\ IsRecord(r)
    BY <2>5, Fields
  <2> QED
    BY <2>2, <2>6
<1>4. UNCHANGED <<doc, handler, salsa, versions, held, sessions>>
  BY DEF GetView
<1>5. IsRequest(worker[w])'
  BY <1>2, <1>3, <1>4 DEF IsRequest, Pcs
<1>6. IndexPartOK(worker[w])'
  <2>1. Current \in Nat \ {0}
    BY DEF CachesInv, Typed, Current
  <2> QED
    BY <2>1, <1>2, <1>3, <1>4 DEF IndexPartOK, IsRequest, Current
<1>7. TextPartOK(worker[w])'
  BY <1>2, <1>3, <1>4 DEF TextPartOK, IsRequest
<1>8. DeltaPartOK(worker[w])'
  BY <1>2, <1>3, <1>4 DEF DeltaPartOK, IsRequest
<1>9. RequestPairs(worker[w])' = RequestPairs(worker[w])
  BY <1>1, <1>2, <1>3, <1>4 DEF RequestPairs
<1> QED
  BY <1>3, <1>4, <1>5, <1>6, <1>7, <1>8, <1>9, QuietStep DEF Known

LEMMA ExtractSound ==
    ASSUME CachesInv, NEW w \in Worker, Extract(w)
    PROVE  CachesInv'
<1>1. PICK q : q = worker[w]
  OBVIOUS
<1>2. /\ IsRequest(q) /\ IndexPartOK(q) /\ TextPartOK(q) /\ DeltaPartOK(q)
      /\ q.pc = "extract"
  BY <1>1 DEF CachesInv, Typed, RequestsOK, Extract
<1>3. PICK r : /\ r.pc = "build" /\ r.kind = q.kind /\ r.session = q.session
               /\ r.started = q.started /\ r.prev = q.prev /\ r.file = q.file
               /\ r.old = q.old /\ r.index = q.index /\ r.view = q.view
               /\ r.key = q.key /\ r.extracted = salsa /\ r.context = q.context
               /\ r.disturbed = q.disturbed
               /\ IsRecord(r)
               /\ Moves(w) /\ worker'[w] = r
  <2>1. PICK r : r = [worker[w] EXCEPT !.pc = "build", !.extracted = salsa]
    OBVIOUS
  <2>2. Moves(w) /\ worker'[w] = r
    BY <2>1, WriteMoves DEF Extract
  <2>3. r = [q EXCEPT !.pc = "build", !.extracted = salsa]
    BY <2>1, <1>1
  <2>4. q = R(q.pc, q.kind, q.session, q.started, q.prev, q.file, q.old, q.index,
              q.view, q.key, q.extracted, q.context, q.disturbed)
    BY <1>2 DEF IsRequest, IsRecord
  <2>5. r = R("build", q.kind, q.session, q.started, q.prev, q.file, q.old,
              q.index, q.view, q.key, salsa, q.context, q.disturbed)
    BY <2>3, <2>4, Zenon DEF R
  <2>6. /\ r.pc = "build" /\ r.kind = q.kind /\ r.session = q.session
        /\ r.started = q.started /\ r.prev = q.prev /\ r.file = q.file
        /\ r.old = q.old /\ r.index = q.index /\ r.view = q.view /\ r.key = q.key
        /\ r.extracted = salsa /\ r.context = q.context
        /\ r.disturbed = q.disturbed
        /\ IsRecord(r)
    BY <2>5, Fields
  <2> QED
    BY <2>2, <2>6
<1>4. UNCHANGED <<doc, handler, salsa, versions, held, sessions>>
  BY DEF Extract
<1>5. IsRequest(worker[w])'
  BY <1>2, <1>3, <1>4 DEF IsRequest, Pcs
<1>6. IndexPartOK(worker[w])'
  <2>1. Current \in Nat \ {0}
    BY DEF CachesInv, Typed, Current
  <2> QED
    BY <2>1, <1>2, <1>3, <1>4 DEF IndexPartOK, IsRequest, Current
<1>7. TextPartOK(worker[w])'
  BY <1>2, <1>3, <1>4 DEF TextPartOK, IsRequest
<1>8. DeltaPartOK(worker[w])'
  BY <1>2, <1>3, <1>4 DEF DeltaPartOK, IsRequest
<1>9. RequestPairs(worker[w])' = RequestPairs(worker[w])
  BY <1>1, <1>2, <1>3, <1>4 DEF RequestPairs
<1> QED
  BY <1>3, <1>4, <1>5, <1>6, <1>7, <1>8, <1>9, QuietStep DEF Known

LEMMA BuildContextSound ==
    ASSUME CachesInv, NEW w \in Worker, BuildContext(w)
    PROVE  CachesInv'
<1> DEFINE context == [texts |-> {worker[w].extracted, salsa},
                       index |-> <<worker[w].view, versions[worker[w].view]>>,
                       disturbed |-> worker[w].disturbed, late |-> FALSE]
<1>1. PICK q : q = worker[w]
  OBVIOUS
<1>2. /\ IsRequest(q) /\ IndexPartOK(q) /\ TextPartOK(q) /\ DeltaPartOK(q)
      /\ q.pc = "build"
  BY <1>1 DEF CachesInv, Typed, RequestsOK, BuildContext
<1>3. PICK r : /\ r.pc = "keep" /\ r.kind = q.kind /\ r.session = q.session
               /\ r.started = q.started /\ r.prev = q.prev /\ r.file = q.file
               /\ r.old = q.old /\ r.index = q.index /\ r.view = q.view
               /\ r.key = q.key /\ r.extracted = q.extracted /\ r.context = context
               /\ r.disturbed = q.disturbed
               /\ IsRecord(r)
               /\ Moves(w) /\ worker'[w] = r
  <2>1. PICK r : r = [worker[w] EXCEPT !.pc = "keep", !.context = context]
    OBVIOUS
  <2>2. Moves(w) /\ worker'[w] = r
    BY <2>1, WriteMoves DEF BuildContext
  <2>3. r = [q EXCEPT !.pc = "keep", !.context = context]
    BY <2>1, <1>1
  <2> HIDE DEF context
  <2>4. q = R(q.pc, q.kind, q.session, q.started, q.prev, q.file, q.old, q.index,
              q.view, q.key, q.extracted, q.context, q.disturbed)
    BY <1>2 DEF IsRequest, IsRecord
  <2>5. r = R("keep", q.kind, q.session, q.started, q.prev, q.file, q.old, q.index,
              q.view, q.key, q.extracted, context, q.disturbed)
    BY <2>3, <2>4, Zenon DEF R
  <2>6. /\ r.pc = "keep" /\ r.kind = q.kind /\ r.session = q.session
        /\ r.started = q.started /\ r.prev = q.prev /\ r.file = q.file
        /\ r.old = q.old /\ r.index = q.index /\ r.view = q.view /\ r.key = q.key
        /\ r.extracted = q.extracted /\ r.context = context
        /\ r.disturbed = q.disturbed
        /\ IsRecord(r)
    BY <2>5, Fields
  <2> QED
    BY <2>2, <2>6
<1>4. UNCHANGED <<doc, handler, salsa, versions, held, sessions>>
  BY DEF BuildContext
<1>5. IsRequest(worker[w])'
  BY <1>2, <1>3, <1>4 DEF IsRequest, Pcs
<1>6. IndexPartOK(worker[w])'
  <2>1. /\ Current \in Nat \ {0}
        /\ \A i \in 1 .. Current : versions[i] \in Nat
    BY DEF CachesInv, Typed, Current
  <2>2. q.view \in 1 .. Current
    BY <1>2 DEF IndexPartOK
  <2>3. IsContext(context) /\ context.index[2] = versions[q.view]
    BY <2>1, <2>2, <1>1 DEF IsContext
  <2> HIDE DEF context
  <2> QED
    BY <2>1, <2>2, <2>3, <1>2, <1>3, <1>4 DEF IndexPartOK, Current
<1>7. TextPartOK(worker[w])'
  <2>1. ~q.disturbed => context.texts = {q.file.text}
    BY <1>1, <1>2 DEF TextPartOK
  <2>2. context.disturbed = q.disturbed
    BY <1>1
  <2> HIDE DEF context
  <2> QED
    BY <2>1, <2>2, <1>2, <1>3, <1>4 DEF TextPartOK
<1>8. DeltaPartOK(worker[w])'
  BY <1>2, <1>3, <1>4 DEF DeltaPartOK, IsRequest
<1>9. RequestPairs(worker[w])' = RequestPairs(worker[w])
  BY <1>1, <1>2, <1>3, <1>4 DEF RequestPairs
<1> QED
  BY <1>3, <1>4, <1>5, <1>6, <1>7, <1>8, <1>9, QuietStep DEF Known

-----------------------------------------------------------------------------
(* The document.                                                            *)

\* The index has the same versions or later ones.
Later ==
    /\ versions' \in Seq(Nat) /\ Len(versions) <= Len(versions')
    /\ Len(versions') = 1 => versions[1] <= versions'[1]

LEMMA IndexPartStays ==
    ASSUME Typed, Later, NEW r, IndexPartOK(r)
    PROVE  IndexPartOK(r)'
<1>1. /\ Current \in Nat \ {0} /\ Current' \in Nat \ {0} /\ Current <= Current'
      /\ Current' = 1 => /\ Current = 1 /\ versions[1] \in Nat /\ versions'[1] \in Nat
                         /\ versions[1] <= versions'[1]
  BY DEF Typed, Later, Current
<1>2. r.pc \in {"view", "sync", "key", "extract", "build", "keep"} => r.index \in 1 .. Current'
  BY <1>1 DEF IndexPartOK
<1>3. r.pc \in {"sync", "key", "extract", "build", "keep"} => r.view \in 1 .. Current'
  BY <1>1 DEF IndexPartOK
<1>4. Current' = 1 =>
           /\ r.pc # "idle" => r.started[2] <= versions'[1]
           /\ r.pc \in {"extract", "build"} => r.key.workspace_version <= versions'[1]
  BY <1>1 DEF IndexPartOK
<1> HIDE DEF Current
<1> QED
  BY <1>1, <1>2, <1>3, <1>4 DEF IndexPartOK, IsContext

(* Requests that do not move, in the same session.                          *)
LEMMA RequestsStay ==
    ASSUME CachesInv, Later, UNCHANGED <<worker, salsa, sessions>>
    PROVE  /\ RequestsOK'
           /\ \A v \in Worker : IsRequest(worker[v])'
           /\ \A v \in Worker : RequestPairs(worker[v])' = RequestPairs(worker[v])
<1>1. ASSUME NEW v \in Worker
      PROVE  /\ IsRequest(worker[v])' /\ IndexPartOK(worker[v])'
             /\ TextPartOK(worker[v])' /\ DeltaPartOK(worker[v])'
             /\ RequestPairs(worker[v])' = RequestPairs(worker[v])
  <2>1. PICK r : r = worker[v]
    OBVIOUS
  <2>2. worker'[v] = r
    BY <2>1
  <2>3. IsRequest(r) /\ IndexPartOK(r) /\ TextPartOK(r) /\ DeltaPartOK(r)
    BY <2>1 DEF CachesInv, Typed, RequestsOK
  <2>4. IndexPartOK(r)'
    BY <2>3, IndexPartStays DEF CachesInv
  <2>5. IsRequest(r)'
    BY <2>3 DEF IsRequest
  <2>6. TextPartOK(r)' /\ DeltaPartOK(r)'
    BY <2>3 DEF TextPartOK, DeltaPartOK
  <2>7. RequestPairs(r)' = RequestPairs(r)
    BY DEF RequestPairs
  <2> QED
    BY <2>1, <2>2, <2>4, <2>5, <2>6, <2>7
<1> QED
  BY <1>1 DEF RequestsOK

(* The caches of a document that keeps its version and text.                *)
LEMMA RefreshKeeps ==
    ASSUME CachesInv, doc # NoDocument, Later, Known' \subseteq Known,
           NEW tokens \in {None, doc.tokens}, NEW contexts \in {NoContexts, doc.contexts},
           Refreshed(doc', doc, tokens, contexts)
    PROVE  VersionsAgree' /\ CachedContextsOK' /\ CachedTokensOK'
<1>1. VersionsAgree'
  BY VersionsStay DEF Refreshed, CachesInv
<1>2. CachedTokensOK'
  BY DEF CachedTokensOK, Refreshed, CachesInv
<1>3. CachedContextsOK'
  <2>1. CASE contexts = NoContexts
    BY <2>1, EmptyCache DEF CachedContextsOK, Refreshed
  <2>2. CASE contexts = doc.contexts
    <3>1. Current' = 1 => Current = 1
      BY DEF Later, Current, CachesInv, Typed
    <3> QED
      BY <2>2, <3>1 DEF CachedContextsOK, Refreshed, CachesInv, IsContext
  <2> QED
    BY <2>1, <2>2
<1> QED
  BY <1>1, <1>2, <1>3

LEMMA RefreshPairs ==
    ASSUME doc # NoDocument, NEW tokens, NEW contexts,
           Refreshed(doc', doc, tokens, contexts)
    PROVE  DocumentPairs' = DocumentPairs
BY DEF DocumentPairs, Refreshed

(* An event that leaves the text of the document as it is.                  *)
LEMMA RefreshSound ==
    ASSUME CachesInv, doc # NoDocument,
           NEW tokens \in {None, doc.tokens}, NEW contexts \in {NoContexts, doc.contexts},
           Refreshed(doc', doc, tokens, contexts), handler' \in {"idle", handler},
           UNCHANGED <<salsa, versions, worker, held, sessions>>
    PROVE  CachesInv'
<1>1. Later
  BY DEF Later, CachesInv, Typed
<1>2. /\ RequestsOK' /\ \A v \in Worker : IsRequest(worker[v])'
      /\ \A v \in Worker : RequestPairs(worker[v])' = RequestPairs(worker[v])
  BY <1>1, RequestsStay
<1>3. Known' = Known
  BY <1>2, RefreshPairs DEF Known, HeldPairs
<1>4. VersionsAgree' /\ CachedContextsOK' /\ CachedTokensOK'
  BY <1>1, <1>3, RefreshKeeps
<1>5. Typed'
  BY <1>2 DEF Typed, Refreshed, CachesInv
<1> QED
  BY <1>2, <1>4, <1>5 DEF CachesInv

LEMMA ParseOpenedSound == CachesInv /\ ParseOpened => CachesInv'
<1> SUFFICES ASSUME CachesInv, ParseOpened PROVE CachesInv'
  OBVIOUS
<1>1. doc # NoDocument /\ IsDocument(doc)
  BY DEF ParseOpened, CachesInv, Typed
<1>2. Refreshed(doc', doc, doc.tokens, NoContexts)
  BY <1>1, TreeRefreshes DEF ParseOpened
<1> QED
  BY <1>1, <1>2, RefreshSound DEF ParseOpened

LEMMA DidSaveSound == CachesInv /\ DidSave => CachesInv'
<1> SUFFICES ASSUME CachesInv, DidSave PROVE CachesInv'
  OBVIOUS
<1>1. doc # NoDocument /\ IsDocument(doc)
      /\ UNCHANGED <<handler, salsa, versions, worker, held, sessions>>
  BY DEF DidSave, CachesInv, Typed
<1>2. CASE doc' = UpdateSource(doc, doc.version, doc.text)
  <2>1. doc.version \in Nat \ {0}
    BY <1>1 DEF IsDocument
  <2>2. Refreshed(doc', doc, None, NoContexts)
    BY <1>2, <2>1, CleanDocument DEF Refreshed
  <2> QED
    BY <1>1, <2>2, RefreshSound
<1>3. CASE doc' = WithTree(doc)
  <2>1. Refreshed(doc', doc, doc.tokens, NoContexts)
    BY <1>1, <1>3, TreeRefreshes
  <2> QED
    BY <1>1, <2>1, RefreshSound
<1> QED
  BY <1>2, <1>3 DEF DidSave

LEMMA ClearLspCachesSound == CachesInv /\ ClearLspCaches => CachesInv'
<1> SUFFICES ASSUME CachesInv, ClearLspCaches PROVE CachesInv'
  OBVIOUS
<1>1. doc # NoDocument /\ IsDocument(doc)
  BY DEF ClearLspCaches, CachesInv, Typed
<1>2. PICK d : d = [doc EXCEPT !.tokens = None]
  OBVIOUS
<1>3. Refreshed(d, doc, None, doc.contexts)
  BY <1>1, <1>2, TokensRefresh
<1>4. Refreshed([d EXCEPT !.contexts = NoContexts], d, d.tokens, NoContexts)
  <2>1. IsDocument(d)
    BY <1>3 DEF Refreshed
  <2>2. NoContexts = [k \in DOMAIN NoContexts |-> NoContexts[k]]
    BY EmptyCache
  <2> QED
    BY <2>1, <2>2, ContextsRefresh
<1>5. doc' = [d EXCEPT !.contexts = NoContexts]
  BY <1>2, Zenon DEF ClearLspCaches
<1>6. Refreshed(doc', doc, None, NoContexts)
  BY <1>3, <1>4, <1>5 DEF Refreshed
<1> QED
  BY <1>1, <1>6, RefreshSound DEF ClearLspCaches

(* A document that is opened is known to nobody: the requests that still    *)
(* run belong to earlier sessions.                                          *)
LEMMA DidOpenSound ==
    ASSUME CachesInv, NEW text, DidOpen(text)
    PROVE  CachesInv'
<1>1. /\ doc = NoDocument /\ doc' = Document(1, text) /\ handler' = "parse"
      /\ sessions' = sessions + 1 /\ sessions \in Nat
      /\ UNCHANGED <<salsa, versions, worker, held>>
  BY DEF DidOpen, CachesInv, Typed
<1>2. Refreshed(doc', doc', None, NoContexts) /\ doc'.version = 1 /\ doc'.text = text
  BY <1>1, CleanDocument
<1>3. Later
  BY <1>1 DEF Later, CachesInv, Typed
<1>4. ASSUME NEW v \in Worker
      PROVE  /\ IsRequest(worker[v])' /\ IndexPartOK(worker[v])'
             /\ TextPartOK(worker[v])' /\ DeltaPartOK(worker[v])'
             /\ RequestPairs(worker[v])' = {}
  <2>1. PICK r : r = worker[v]
    OBVIOUS
  <2>2. worker'[v] = r
    BY <1>1, <2>1
  <2>3. IsRequest(r) /\ IndexPartOK(r) /\ TextPartOK(r) /\ DeltaPartOK(r)
    BY <2>1 DEF CachesInv, Typed, RequestsOK
  <2>4. IndexPartOK(r)'
    BY <1>3, <2>3, IndexPartStays DEF CachesInv
  <2>5. IsRequest(r)' /\ r.session # sessions'
    BY <1>1, <2>3 DEF IsRequest
  <2>6. TextPartOK(r)' /\ DeltaPartOK(r)'
    BY <1>1, <2>3, <2>5 DEF TextPartOK, DeltaPartOK
  <2>7. RequestPairs(r)' = {}
    BY <2>5 DEF RequestPairs
  <2> QED
    BY <2>2, <2>4, <2>5, <2>6, <2>7
<1>5. Known' = {<<1, text>>}
  <2>1. HeldPairs' = {}
    BY <1>1 DEF HeldPairs, CachesInv, VersionsAgree
  <2>2. DocumentPairs' = {<<1, text>>}
    BY <1>2 DEF DocumentPairs, Refreshed
  <2> QED
    BY <1>4, <2>1, <2>2 DEF Known
<1>6. VersionsAgree'
  BY <1>2, <1>5 DEF VersionsAgree, Refreshed
<1>7. CachedContextsOK' /\ CachedTokensOK'
  BY <1>2, EmptyCache DEF CachedContextsOK, CachedTokensOK, Refreshed
<1>8. Typed'
  BY <1>1, <1>2, <1>4 DEF Typed, Refreshed, CachesInv
<1> QED
  BY <1>4, <1>6, <1>7, <1>8 DEF CachesInv, RequestsOK

(* An edit makes a version nobody refers to yet.                            *)
LEMMA DidChangeSound ==
    ASSUME CachesInv, NEW text, DidChange(text)
    PROVE  CachesInv'
<1> DEFINE version == doc.version + 1
<1>1. /\ doc # NoDocument /\ IsDocument(doc)
      /\ doc' = UpdateSource(doc, version, text)
      /\ UNCHANGED <<handler, salsa, versions, worker, held, sessions>>
  BY DEF DidChange, CachesInv, Typed
<1>2. doc.version \in Nat \ {0}
  BY <1>1 DEF IsDocument
<1>3. Refreshed(doc', doc', None, NoContexts) /\ doc'.version = version /\ doc'.text = text
  BY <1>1, <1>2, CleanDocument DEF Refreshed
<1>4. Later
  BY <1>1 DEF Later, CachesInv, Typed
<1>5. /\ RequestsOK' /\ \A v \in Worker : IsRequest(worker[v])'
      /\ \A v \in Worker : RequestPairs(worker[v])' = RequestPairs(worker[v])
  BY <1>1, <1>4, RequestsStay
<1>6. Known' \subseteq Known \cup {<<version, text>>}
  BY <1>1, <1>3, <1>5 DEF Known, HeldPairs, DocumentPairs, Refreshed
<1>7. VersionsAgree'
  <2>1. \A p \in Known : p[1] \in 0 .. doc.version
    BY <1>1 DEF CachesInv, VersionsAgree
  <2>2. \A p \in Known' : p \in Known \/ p = <<version, text>>
    BY <1>6
  <2>3. \A p \in Known' : p[1] \in 0 .. doc'.version
    BY <1>2, <1>3, <2>1, <2>2
  <2>4. \A p, q \in Known' : p[1] = q[1] => p[2] = q[2]
    BY <1>2, <2>1, <2>2 DEF CachesInv, VersionsAgree
  <2> QED
    BY <1>3, <2>3, <2>4 DEF VersionsAgree, Refreshed
<1>8. CachedContextsOK' /\ CachedTokensOK'
  BY <1>3, EmptyCache DEF CachedContextsOK, CachedTokensOK, Refreshed
<1>9. Typed'
  BY <1>1, <1>3, <1>5 DEF Typed, Refreshed, CachesInv
<1> QED
  BY <1>5, <1>7, <1>8, <1>9 DEF CachesInv

LEMMA DidCloseSound == CachesInv /\ DidClose => CachesInv'
<1> SUFFICES ASSUME CachesInv, DidClose PROVE CachesInv'
  OBVIOUS
<1>1. /\ doc' = NoDocument /\ held' = None /\ handler = "idle"
      /\ UNCHANGED <<handler, salsa, versions, worker, sessions>>
  BY DEF DidClose
<1>2. Later
  BY <1>1 DEF Later, CachesInv, Typed
<1>3. /\ RequestsOK' /\ \A v \in Worker : IsRequest(worker[v])'
      /\ \A v \in Worker : RequestPairs(worker[v])' = RequestPairs(worker[v])
  BY <1>1, <1>2, RequestsStay
<1>4. Known' \subseteq Known
  BY <1>1, <1>3 DEF Known, HeldPairs, DocumentPairs
<1>5. VersionsAgree' /\ CachedContextsOK' /\ CachedTokensOK'
  BY <1>1, <1>4 DEF VersionsAgree, CachedContextsOK, CachedTokensOK, CachesInv
<1>6. Typed'
  BY <1>1, <1>3 DEF Typed, CachesInv
<1> QED
  BY <1>3, <1>5, <1>6 DEF CachesInv

(* A new index counts from the start; what was taken of the old one is not  *)
(* compared with it.                                                        *)
LEMMA ReplaceIndexSound == CachesInv /\ ReplaceIndex => CachesInv'
<1> SUFFICES ASSUME CachesInv, ReplaceIndex PROVE CachesInv'
  OBVIOUS
<1>1. /\ versions' = Append(versions, 1) /\ versions \in Seq(Nat) /\ versions # <<>>
      /\ UNCHANGED <<doc, handler, salsa, worker, held, sessions>>
  BY DEF ReplaceIndex, CachesInv, Typed
<1>2. Later /\ versions' # <<>> /\ Current' # 1
  BY <1>1 DEF Later, Current
<1>3. /\ RequestsOK' /\ \A v \in Worker : IsRequest(worker[v])'
      /\ \A v \in Worker : RequestPairs(worker[v])' = RequestPairs(worker[v])
  BY <1>1, <1>2, RequestsStay
<1>4. Known' = Known
  BY <1>1, <1>3 DEF Known, HeldPairs, DocumentPairs
<1>5. VersionsAgree' /\ CachedTokensOK'
  BY <1>1, <1>4 DEF VersionsAgree, CachedTokensOK, CachesInv
<1>6. CachedContextsOK'
  BY <1>1, <1>2 DEF CachedContextsOK, CachesInv, IsContext
<1>7. Typed'
  BY <1>1, <1>2, <1>3 DEF Typed, CachesInv, Later, IsDocument
<1> QED
  BY <1>3, <1>5, <1>6, <1>7 DEF CachesInv

-----------------------------------------------------------------------------
(* The Salsa file.                                                          *)

(* It takes another text: the requests that rely on it are disturbed.       *)
LEMMA DisturbSound ==
    ASSUME CachesInv, Later, versions' # <<>>, NEW text, NEW ws,
           ws = [v \in Worker |-> ws[v]],
           worker' = Disturb(ws, text), salsa' = text,
           UNCHANGED <<doc, handler, held, sessions>>,
           \A v \in Worker :
               /\ IsRequest(ws[v]) /\ IndexPartOK(ws[v]) /\ DeltaPartOK(ws[v])
               /\ RequestPairs(ws[v]) = RequestPairs(worker[v])
               /\ \/ /\ TextPartOK(ws[v])
                     /\ ws[v].pc \in {"key", "extract", "build"} => Relies(v)
                  \/ ws[v].pc = "key" /\ text = ws[v].file.text
    PROVE  CachesInv'
<1>1. ASSUME NEW v \in Worker
      PROVE  /\ IsRequest(worker[v])' /\ IndexPartOK(worker[v])'
             /\ TextPartOK(worker[v])' /\ DeltaPartOK(worker[v])'
             /\ RequestPairs(worker[v])' = RequestPairs(worker[v])
  <2>1. PICK q : q = ws[v]
    OBVIOUS
  <2>2. PICK x : x = (q.disturbed \/ (Relies(v) /\ salsa # text))
    OBVIOUS
  <2>3. x \in BOOLEAN /\ (~x => ~q.disturbed /\ (Relies(v) => salsa = text))
    BY <2>2, Zenon
  <2>4. PICK r : r = [q EXCEPT !.disturbed = x]
    OBVIOUS
  <2>5. worker'[v] = r
    <3>1. worker'[v] = [q EXCEPT !.disturbed = @ \/ (Relies(v) /\ salsa # text)]
      BY <2>1 DEF Disturb
    <3> QED
      BY <3>1, <2>2, <2>4, Zenon
  <2>6. /\ IsRequest(q) /\ IndexPartOK(q) /\ DeltaPartOK(q)
        /\ RequestPairs(q) = RequestPairs(worker[v])
        /\ \/ TextPartOK(q) /\ (q.pc \in {"key", "extract", "build"} => Relies(v))
           \/ q.pc = "key" /\ text = q.file.text
    BY <2>1
  <2>7. q = R(q.pc, q.kind, q.session, q.started, q.prev, q.file, q.old, q.index,
              q.view, q.key, q.extracted, q.context, q.disturbed)
    BY <2>6 DEF IsRequest, IsRecord
  <2>8. r = R(q.pc, q.kind, q.session, q.started, q.prev, q.file, q.old, q.index,
              q.view, q.key, q.extracted, q.context, x)
    BY <2>4, <2>7, Zenon DEF R
  <2>9. /\ r.pc = q.pc /\ r.kind = q.kind /\ r.session = q.session
        /\ r.started = q.started /\ r.prev = q.prev /\ r.file = q.file
        /\ r.old = q.old /\ r.index = q.index /\ r.view = q.view /\ r.key = q.key
        /\ r.extracted = q.extracted /\ r.context = q.context /\ r.disturbed = x
        /\ IsRecord(r)
    BY <2>8, Fields
  <2> HIDE <2>4, <2>7, <2>8
  <2>10. IsRequest(r)'
    BY <2>3, <2>6, <2>9 DEF IsRequest
  <2>11. IndexPartOK(r)
    BY <2>6, <2>9 DEF IndexPartOK, IsContext
  <2>12. IndexPartOK(r)'
    BY <2>11, IndexPartStays DEF CachesInv
  <2>13. DeltaPartOK(r)'
    BY <2>6, <2>9 DEF DeltaPartOK
  <2>14. TextPartOK(r)'
    <3>1. CASE TextPartOK(q) /\ (q.pc \in {"key", "extract", "build"} => Relies(v))
      BY <3>1, <2>3, <2>9 DEF TextPartOK
    <3>2. CASE q.pc = "key" /\ text = q.file.text
      BY <3>2, <2>9 DEF TextPartOK
    <3> QED
      BY <3>1, <3>2, <2>6
  <2>15. RequestPairs(r)' = RequestPairs(q)
    BY <2>9 DEF RequestPairs
  <2> QED
    BY <2>5, <2>6, <2>10, <2>12, <2>13, <2>14, <2>15
<1>2. Known' = Known
  BY <1>1 DEF Known, HeldPairs, DocumentPairs
<1>3. VersionsAgree' /\ CachedTokensOK'
  BY <1>2 DEF VersionsAgree, CachedTokensOK, CachesInv
<1>4. CachedContextsOK'
  <2>1. Current' = 1 => Current = 1
    BY DEF Later, Current, CachesInv, Typed
  <2> QED
    BY <2>1 DEF CachedContextsOK, CachesInv, IsContext
<1>5. Typed'
  <2>1. worker' = [v \in Worker |-> worker'[v]]
    BY DEF Disturb
  <2> QED
    BY <1>1, <2>1 DEF Typed, CachesInv, Later, IsDocument
<1> QED
  BY <1>1, <1>3, <1>4, <1>5 DEF CachesInv, RequestsOK

LEMMA ReindexSound == CachesInv /\ Reindex => CachesInv'
<1> SUFFICES ASSUME CachesInv, Reindex PROVE CachesInv'
  OBVIOUS
<1>1. /\ salsa' = doc.text /\ worker' = Disturb(worker, doc.text)
      /\ versions' = [versions EXCEPT ![Current] = @ + 1]
      /\ UNCHANGED <<doc, handler, held, sessions>>
  BY DEF Reindex
<1>2. Later /\ versions' # <<>>
  BY <1>1 DEF Later, Current, CachesInv, Typed
<1>3. worker = [v \in Worker |-> worker[v]]
  BY DEF CachesInv, Typed
<1>4. ASSUME NEW v \in Worker
      PROVE  /\ IsRequest(worker[v]) /\ IndexPartOK(worker[v]) /\ DeltaPartOK(worker[v])
             /\ TextPartOK(worker[v])
             /\ worker[v].pc \in {"key", "extract", "build"} => Relies(v)
  BY DEF CachesInv, Typed, RequestsOK, Relies
<1> QED
  BY <1>1, <1>2, <1>3, <1>4, DisturbSound

LEMMA SyncSalsaFileSound ==
    ASSUME CachesInv, NEW w \in Worker, SyncSalsaFile(w)
    PROVE  CachesInv'
<1>1. PICK ws : ws = [worker EXCEPT ![w].pc = "key"]
  OBVIOUS
<1>2. PICK text : text = worker[w].file.text
  OBVIOUS
<1>3. /\ salsa' = text /\ worker' = Disturb(ws, text)
      /\ UNCHANGED <<doc, handler, versions, held, sessions>>
  BY <1>1, <1>2 DEF SyncSalsaFile
<1>4. Later /\ versions' # <<>>
  BY <1>3 DEF Later, CachesInv, Typed
<1>5. /\ ws = [v \in Worker |-> ws[v]] /\ \A v \in Worker \ {w} : ws[v] = worker[v]
  BY <1>1 DEF CachesInv, Typed
<1>6. /\ IsRequest(ws[w]) /\ IndexPartOK(ws[w]) /\ DeltaPartOK(ws[w])
      /\ RequestPairs(ws[w]) = RequestPairs(worker[w])
      /\ ws[w].pc = "key" /\ text = ws[w].file.text
  <2>1. PICK q : q = worker[w]
    OBVIOUS
  <2>2. /\ IsRequest(q) /\ IndexPartOK(q) /\ DeltaPartOK(q) /\ q.pc = "sync"
    BY <2>1 DEF CachesInv, Typed, RequestsOK, SyncSalsaFile
  <2>3. PICK r : r = [q EXCEPT !.pc = "key"]
    OBVIOUS
  <2>4. ws[w] = r
    BY <1>1, <2>1, <2>3 DEF CachesInv, Typed
  <2>5. q = R(q.pc, q.kind, q.session, q.started, q.prev, q.file, q.old, q.index,
              q.view, q.key, q.extracted, q.context, q.disturbed)
    BY <2>2 DEF IsRequest, IsRecord
  <2>6. r = R("key", q.kind, q.session, q.started, q.prev, q.file, q.old, q.index,
              q.view, q.key, q.extracted, q.context, q.disturbed)
    BY <2>3, <2>5, Zenon DEF R
  <2>7. /\ r.pc = "key" /\ r.kind = q.kind /\ r.session = q.session
        /\ r.started = q.started /\ r.prev = q.prev /\ r.file = q.file
        /\ r.old = q.old /\ r.index = q.index /\ r.view = q.view /\ r.key = q.key
        /\ r.extracted = q.extracted /\ r.context = q.context
        /\ r.disturbed = q.disturbed
        /\ IsRecord(r)
    BY <2>6, Fields
  <2> HIDE <2>3, <2>5, <2>6
  <2>8. IsRequest(r)
    BY <2>2, <2>7 DEF IsRequest, Pcs
  <2>9. IndexPartOK(r) /\ DeltaPartOK(r)
    BY <2>2, <2>7 DEF IndexPartOK, DeltaPartOK
  <2>10. RequestPairs(r) = RequestPairs(q)
    BY <2>2, <2>7 DEF RequestPairs
  <2> QED
    BY <1>2, <2>1, <2>4, <2>7, <2>8, <2>9, <2>10
<1>7. ASSUME NEW v \in Worker
      PROVE  /\ IsRequest(ws[v]) /\ IndexPartOK(ws[v]) /\ DeltaPartOK(ws[v])
             /\ RequestPairs(ws[v]) = RequestPairs(worker[v])
             /\ \/ /\ TextPartOK(ws[v])
                   /\ ws[v].pc \in {"key", "extract", "build"} => Relies(v)
                \/ ws[v].pc = "key" /\ text = ws[v].file.text
  <2>1. CASE v = w
    BY <2>1, <1>6
  <2>2. CASE v # w
    <3>1. ws[v] = worker[v]
      BY <2>2, <1>5
    <3>2. /\ IsRequest(worker[v]) /\ IndexPartOK(worker[v]) /\ DeltaPartOK(worker[v])
          /\ TextPartOK(worker[v])
          /\ worker[v].pc \in {"key", "extract", "build"} => Relies(v)
      BY DEF CachesInv, Typed, RequestsOK, Relies
    <3> QED
      BY <3>1, <3>2
  <2> QED
    BY <2>1, <2>2
<1> QED
  BY <1>3, <1>4, <1>5, <1>7, DisturbSound

-----------------------------------------------------------------------------
(* Requests that use the document, its caches or the client.                *)


LEMMA LookUpContextSound ==
    ASSUME CachesInv, NEW w \in Worker, LookUpContext(w)
    PROVE  CachesInv'
<1> DEFINE hit == doc # NoDocument /\ CacheKey(w) \in DOMAIN doc.contexts
           pc == IF hit THEN "answer" ELSE "extract"
           key == CacheKey(w)
           context == IF hit THEN doc.contexts[CacheKey(w)] ELSE None
<1>1. PICK q : q = worker[w]
  OBVIOUS
<1>2. /\ IsRequest(q) /\ IndexPartOK(q) /\ TextPartOK(q) /\ DeltaPartOK(q)
      /\ q.pc = "key"
  BY <1>1 DEF CachesInv, Typed, RequestsOK, LookUpContext
<1>3. PICK r : /\ r.pc = pc /\ r.kind = q.kind /\ r.session = q.session
               /\ r.started = q.started /\ r.prev = q.prev /\ r.file = q.file
               /\ r.old = q.old /\ r.index = q.index /\ r.view = q.view
               /\ r.key = key /\ r.extracted = q.extracted /\ r.context = context
               /\ r.disturbed = q.disturbed
               /\ IsRecord(r)
               /\ Moves(w) /\ worker'[w] = r
  <2>1. PICK r : r = [worker[w] EXCEPT !.pc = pc, !.key = key, !.context = context]
    OBVIOUS
  <2>2. Moves(w) /\ worker'[w] = r
    BY <2>1, WriteMoves DEF LookUpContext
  <2>3. r = [q EXCEPT !.pc = pc, !.key = key, !.context = context]
    BY <2>1, <1>1
  <2> HIDE DEF hit, pc, key, context
  <2>4. q = R(q.pc, q.kind, q.session, q.started, q.prev, q.file, q.old, q.index,
              q.view, q.key, q.extracted, q.context, q.disturbed)
    BY <1>2 DEF IsRequest, IsRecord
  <2>5. r = R(pc, q.kind, q.session, q.started, q.prev, q.file, q.old, q.index,
              q.view, key, q.extracted, context, q.disturbed)
    BY <2>3, <2>4, Zenon DEF R
  <2>6. /\ r.pc = pc /\ r.kind = q.kind /\ r.session = q.session
        /\ r.started = q.started /\ r.prev = q.prev /\ r.file = q.file
        /\ r.old = q.old /\ r.index = q.index /\ r.view = q.view /\ r.key = key
        /\ r.extracted = q.extracted /\ r.context = context
        /\ r.disturbed = q.disturbed
        /\ IsRecord(r)
    BY <2>5, Fields
  <2> QED
    BY <2>2, <2>6

<1>4. UNCHANGED <<doc, handler, salsa, versions, held, sessions>>
  BY DEF LookUpContext
<1>5. /\ key.document_version = q.file.version
      /\ key.workspace_version = versions[q.index] /\ key.workspace_version \in Nat
      /\ Current = 1 => key.workspace_version = versions[1]
  <2>1. q.index \in 1 .. Current
    BY <1>2 DEF IndexPartOK
  <2>2. \A i \in 1 .. Current : versions[i] \in Nat
    BY DEF CachesInv, Typed, Current
  <2> QED
    BY <2>1, <2>2, <1>1 DEF CacheKey, Current
<1>6. CASE hit
  <2>1. /\ pc = "answer" /\ doc # NoDocument /\ key \in DOMAIN doc.contexts
        /\ context = doc.contexts[key]
    BY <1>6
  <2>2. /\ IsContext(context) /\ doc.version = q.file.version
        /\ ~context.disturbed /\ ~context.late => context.texts = {doc.text}
        /\ Current = 1 => key.workspace_version <= context.index[2]
    BY <1>5, <2>1 DEF CachesInv, CachedContextsOK
  <2>3. q.session = sessions => doc.text = q.file.text
    <3>1. <<doc.version, doc.text>> \in Known
      BY <2>1 DEF Known, DocumentPairs
    <3>2. q.session = sessions => <<q.file.version, q.file.text>> \in Known
      BY <1>1, <1>2 DEF Known, RequestPairs
    <3> QED
      BY <2>2, <3>1, <3>2 DEF CachesInv, VersionsAgree
  <2> HIDE DEF pc, key, context, hit
  <2>4. IsRequest(worker[w])'
    BY <1>2, <1>3, <1>4, <2>1 DEF IsRequest, Pcs
  <2>5. IndexPartOK(worker[w])'
    <3>1. /\ q.started[2] \in Nat /\ key.workspace_version \in Nat
          /\ context.index[2] \in Nat
          /\ Current = 1 => q.started[2] <= context.index[2]
      BY <1>2, <1>5, <2>2 DEF IndexPartOK, IsContext
    <3> QED
      BY <3>1, <1>2, <1>3, <1>4, <2>1, <2>2 DEF IndexPartOK, Current
  <2>6. TextPartOK(worker[w])'
    BY <1>2, <1>3, <1>4, <2>1, <2>2, <2>3 DEF TextPartOK
  <2>7. DeltaPartOK(worker[w])'
    BY <1>2, <1>3, <1>4 DEF DeltaPartOK, IsRequest
  <2>8. RequestPairs(worker[w])' = RequestPairs(worker[w])
    BY <1>1, <1>2, <1>3, <1>4, <2>1 DEF RequestPairs
  <2> QED
    BY <1>3, <1>4, <2>4, <2>5, <2>6, <2>7, <2>8, QuietStep DEF Known
<1>7. CASE ~hit
  <2>1. pc = "extract"
    BY <1>7
  <2> HIDE DEF pc, key, context, hit
  <2>2. IsRequest(worker[w])'
    BY <1>2, <1>3, <1>4, <2>1 DEF IsRequest, Pcs
  <2>3. IndexPartOK(worker[w])'
    BY <1>2, <1>3, <1>4, <1>5, <2>1 DEF IndexPartOK, Current
  <2>4. TextPartOK(worker[w])' /\ DeltaPartOK(worker[w])'
    BY <1>2, <1>3, <1>4, <2>1 DEF TextPartOK, DeltaPartOK
  <2>5. RequestPairs(worker[w])' = RequestPairs(worker[w])
    BY <1>1, <1>2, <1>3, <1>4, <2>1 DEF RequestPairs
  <2> QED
    BY <1>3, <1>4, <2>2, <2>3, <2>4, <2>5, QuietStep DEF Known
<1> QED
  BY <1>6, <1>7

LEMMA AnswerContextSound ==
    ASSUME CachesInv, NEW w \in Worker, AnswerContext(w)
    PROVE  CachesInv'
BY GiveUpSound DEF AnswerContext

LEMMA EnsureTreeSound ==
    ASSUME CachesInv, NEW w \in Worker, EnsureTree(w)
    PROVE  CachesInv'
<1> DEFINE pc == FirstStep[worker[w].kind]
           file == [version |-> doc.version, text |-> doc.text]
<1>1. PICK q : q = worker[w]
  OBVIOUS
<1>2. /\ IsRequest(q) /\ IndexPartOK(q) /\ TextPartOK(q) /\ DeltaPartOK(q)
      /\ q.pc = "tree" /\ doc # NoDocument /\ IsDocument(doc)
  BY <1>1 DEF CachesInv, Typed, RequestsOK, EnsureTree
<1>3. PICK r : /\ r.pc = pc /\ r.kind = q.kind /\ r.session = q.session
               /\ r.started = q.started /\ r.prev = q.prev /\ r.file = file
               /\ r.old = q.old /\ r.index = q.index /\ r.view = q.view
               /\ r.key = q.key /\ r.extracted = q.extracted
               /\ r.context = q.context /\ r.disturbed = q.disturbed
               /\ IsRecord(r)
               /\ Moves(w) /\ worker'[w] = r
  <2>1. PICK r : r = [worker[w] EXCEPT !.pc = pc, !.file = file]
    OBVIOUS
  <2>2. Moves(w) /\ worker'[w] = r
    BY <2>1, WriteMoves DEF EnsureTree
  <2>3. r = [q EXCEPT !.pc = pc, !.file = file]
    BY <2>1, <1>1
  <2> HIDE DEF pc, file
  <2>4. q = R(q.pc, q.kind, q.session, q.started, q.prev, q.file, q.old, q.index,
              q.view, q.key, q.extracted, q.context, q.disturbed)
    BY <1>2 DEF IsRequest, IsRecord
  <2>5. r = R(pc, q.kind, q.session, q.started, q.prev, file, q.old, q.index,
              q.view, q.key, q.extracted, q.context, q.disturbed)
    BY <2>3, <2>4, Zenon DEF R
  <2>6. /\ r.pc = pc /\ r.kind = q.kind /\ r.session = q.session
        /\ r.started = q.started /\ r.prev = q.prev /\ r.file = file
        /\ r.old = q.old /\ r.index = q.index /\ r.view = q.view /\ r.key = q.key
        /\ r.extracted = q.extracted /\ r.context = q.context
        /\ r.disturbed = q.disturbed
        /\ IsRecord(r)
    BY <2>5, Fields
  <2> QED
    BY <2>2, <2>6

<1>4. UNCHANGED <<handler, salsa, versions, held, sessions>>
  BY DEF EnsureTree
<1>5. /\ file.version = doc.version /\ file.text = doc.text /\ doc.version \in Nat
      /\ pc \in {"store", "old", "load"} /\ (pc = "load" <=> q.kind = "context")
      /\ pc = "store" => q.kind = "full"
  BY <1>1, <1>2 DEF FirstStep, IsRequest, IsDocument
<1> HIDE DEF pc, file
<1>6. IsRequest(worker[w])'
  BY <1>2, <1>3, <1>4, <1>5 DEF IsRequest, Pcs
<1>7. IndexPartOK(worker[w])' /\ TextPartOK(worker[w])'
  BY <1>2, <1>3, <1>4, <1>5 DEF IndexPartOK, TextPartOK, Current
<1>8. DeltaPartOK(worker[w])'
  BY <1>2, <1>3, <1>4, <1>5 DEF DeltaPartOK
<1>9. RequestPairs(worker[w])' \subseteq Known
  <2>1. <<doc.version, doc.text>> \in Known
    BY <1>2 DEF Known, DocumentPairs
  <2>2. RequestPairs(worker[w]) \subseteq Known
    BY DEF Known
  <2>3. RequestPairs(worker[w])' \subseteq RequestPairs(worker[w]) \cup {<<doc.version, doc.text>>}
    BY <1>1, <1>2, <1>3, <1>4, <1>5 DEF RequestPairs
  <2> QED
    BY <2>1, <2>2, <2>3
<1>10. \E contexts \in {NoContexts, doc.contexts} : Refreshed(doc', doc, doc.tokens, contexts)
  <2>1. CASE doc.tree
    BY <2>1, <1>2 DEF EnsureTree, Refreshed
  <2>2. CASE ~doc.tree
    BY <2>2, <1>2, TreeRefreshes DEF EnsureTree
  <2> QED
    BY <2>1, <2>2
<1>11. PICK contexts \in {NoContexts, doc.contexts} : Refreshed(doc', doc, doc.tokens, contexts)
  BY <1>10
<1>12. Later
  BY <1>4 DEF Later, CachesInv, Typed
<1>13. Known' \subseteq Known
  <2>1. (DocumentPairs \cup HeldPairs)' \subseteq Known
    BY <1>2, <1>4, <1>11, RefreshPairs DEF HeldPairs, Known
  <2> QED
    BY <2>1, <1>3, <1>9, PairsOfStep
<1>14. VersionsAgree' /\ CachedContextsOK' /\ CachedTokensOK'
  BY <1>2, <1>11, <1>12, <1>13, RefreshKeeps
<1>15. RequestsOK' /\ \A v \in Worker : IsRequest(worker[v])'
  BY <1>3, <1>4, <1>6, <1>7, <1>8, OthersStay
<1>16. Typed'
  BY <1>3, <1>4, <1>11, <1>15 DEF Typed, CachesInv, Refreshed, Moves
<1> QED
  BY <1>14, <1>15, <1>16 DEF CachesInv

LEMMA LateContext ==
    ASSUME NEW c, IsContext(c), NEW late,
           NEW e, e = [c EXCEPT !.late = late]
    PROVE  /\ IsContext(e) /\ e.index = c.index /\ e.disturbed = c.disturbed
           /\ e.texts = c.texts /\ e.late = late
BY DEF IsContext

LEMMA StoreTokensSound ==
    ASSUME CachesInv, NEW w \in Worker, StoreTokens(w)
    PROVE  CachesInv'
<1>1. PICK q : q = worker[w]
  OBVIOUS
<1>2. /\ IsRequest(q) /\ IndexPartOK(q) /\ TextPartOK(q) /\ DeltaPartOK(q)
      /\ q.pc = "store"
  BY <1>1 DEF CachesInv, Typed, RequestsOK, StoreTokens
<1>3. PICK r : /\ r.pc = "answer" /\ r.kind = q.kind /\ r.session = q.session
               /\ r.started = q.started /\ r.prev = q.prev /\ r.file = q.file
               /\ r.old = q.old /\ r.index = q.index /\ r.view = q.view
               /\ r.key = q.key /\ r.extracted = q.extracted
               /\ r.context = q.context /\ r.disturbed = q.disturbed
               /\ IsRecord(r)
               /\ Moves(w) /\ worker'[w] = r
  <2>1. PICK r : r = [worker[w] EXCEPT !.pc = "answer"]
    OBVIOUS
  <2>2. Moves(w) /\ worker'[w] = r
    BY <2>1, WriteMoves DEF StoreTokens, Goto
  <2>3. r = [q EXCEPT !.pc = "answer"]
    BY <2>1, <1>1
  <2>4. q = R(q.pc, q.kind, q.session, q.started, q.prev, q.file, q.old, q.index,
              q.view, q.key, q.extracted, q.context, q.disturbed)
    BY <1>2 DEF IsRequest, IsRecord
  <2>5. r = R("answer", q.kind, q.session, q.started, q.prev, q.file, q.old,
              q.index, q.view, q.key, q.extracted, q.context, q.disturbed)
    BY <2>3, <2>4, Zenon DEF R
  <2>6. /\ r.pc = "answer" /\ r.kind = q.kind /\ r.session = q.session
        /\ r.started = q.started /\ r.prev = q.prev /\ r.file = q.file
        /\ r.old = q.old /\ r.index = q.index /\ r.view = q.view /\ r.key = q.key
        /\ r.extracted = q.extracted /\ r.context = q.context
        /\ r.disturbed = q.disturbed
        /\ IsRecord(r)
    BY <2>5, Fields
  <2> QED
    BY <2>2, <2>6

<1>4. UNCHANGED <<handler, salsa, versions, held, sessions>>
  BY DEF StoreTokens
<1>5. IsRequest(worker[w])'
  BY <1>2, <1>3, <1>4 DEF IsRequest, Pcs
<1>6. IndexPartOK(worker[w])' /\ TextPartOK(worker[w])' /\ DeltaPartOK(worker[w])'
  BY <1>2, <1>3, <1>4 DEF IndexPartOK, TextPartOK, DeltaPartOK, IsRequest, Current
<1>7. RequestPairs(worker[w])' = RequestPairs(worker[w])
  BY <1>1, <1>2, <1>3, <1>4 DEF RequestPairs
<1>8. CASE doc = NoDocument
  <2>1. doc' = doc
    BY <1>8 DEF StoreTokens
  <2> QED
    BY <2>1, <1>3, <1>4, <1>5, <1>6, <1>7, QuietStep DEF Known
<1>9. CASE doc # NoDocument
  <2> DEFINE tokens == [id |-> worker[w].file.version, data |-> Tokens(w),
                        late |-> worker[w].session # sessions]
  <2>1. PICK t : t = tokens
    OBVIOUS
  <2>2. t.id = q.file.version /\ t.data = TokensOf[q.file.text]
        /\ (~t.late => q.session = sessions)
    BY <2>1, <1>1 DEF Tokens
  <2>3. doc' = [doc EXCEPT !.tokens = t]
    BY <2>1, <1>9 DEF StoreTokens
  <2> HIDE DEF tokens
  <2>4. IsDocument(doc)
    BY <1>9 DEF CachesInv, Typed
  <2>5. Refreshed(doc', doc, t, doc.contexts)
    BY <2>3, <2>4, TokensRefresh
  <2> HIDE <2>1, <2>3
  <2>6. Known' \subseteq Known
    <3>1. (DocumentPairs \cup HeldPairs)' \subseteq Known
      BY <1>4, <1>9, <2>5, RefreshPairs DEF HeldPairs, Known
    <3> QED
      BY <3>1, <1>3, <1>7, PairsOfStep DEF Known
  <2>7. VersionsAgree'
    BY <1>9, <2>5, <2>6, VersionsStay DEF CachesInv, Refreshed
  <2>8. CachedContextsOK'
    BY <1>4, <1>9, <2>5 DEF CachedContextsOK, CachesInv, Refreshed, IsContext, Current
  <2>9. CachedTokensOK'
    <3>1. SUFFICES ASSUME ~t.late, NEW p \in Known, p[1] = t.id
                   PROVE  t.data = TokensOf[p[2]]
      BY <2>5, <2>6 DEF CachedTokensOK, Refreshed
    <3>2. PICK f : f = <<q.file.version, q.file.text>>
      OBVIOUS
    <3>3. f \in Known
      BY <3>1, <3>2, <1>1, <1>2, <2>2 DEF Known, RequestPairs
    <3>4. f[1] = q.file.version /\ f[2] = q.file.text
      BY <3>2
    <3> QED
      BY <3>1, <3>3, <3>4, <2>2 DEF CachesInv, VersionsAgree
  <2>10. RequestsOK' /\ \A v \in Worker : IsRequest(worker[v])'
    BY <1>3, <1>4, <1>5, <1>6, OthersStay
  <2>11. Typed'
    BY <1>3, <1>4, <2>5, <2>10 DEF Typed, CachesInv, Refreshed, Moves
  <2> QED
    BY <2>7, <2>8, <2>9, <2>10, <2>11 DEF CachesInv
<1> QED
  BY <1>8, <1>9

LEMMA ReceiveTokensSound ==
    ASSUME CachesInv, NEW w \in Worker, ReceiveTokens(w)
    PROVE  CachesInv'
<1>1. End(w) /\ UNCHANGED <<doc, handler, salsa, versions, sessions>>
  BY DEF ReceiveTokens
<1>2. /\ Moves(w) /\ IsRequest(worker[w])'
      /\ IndexPartOK(worker[w])' /\ TextPartOK(worker[w])' /\ DeltaPartOK(worker[w])'
      /\ RequestPairs(worker[w])' \subseteq Known
  BY <1>1, EndMoves
<1>3. HeldPairs' \subseteq Known
  <2>1. CASE held' = held
    BY <2>1 DEF HeldPairs, Known
  <2>2. CASE held' # held
    <3>1. /\ worker[w].session = sessions /\ worker[w].pc = "answer"
          /\ held'.id = worker[w].file.version /\ held'.text = worker[w].file.text
      BY <2>2 DEF ReceiveTokens
    <3>2. <<worker[w].file.version, worker[w].file.text>> \in Known
      BY <3>1 DEF Known, RequestPairs
    <3> QED
      BY <3>1, <3>2 DEF HeldPairs
  <2> QED
    BY <2>1, <2>2
<1>4. Known' \subseteq Known
  <2>1. (DocumentPairs \cup HeldPairs)' \subseteq Known
    BY <1>1, <1>3 DEF DocumentPairs, Known
  <2> QED
    BY <2>1, <1>2, PairsOfStep
<1>5. doc = NoDocument => held' = None
  BY DEF ReceiveTokens, CachesInv, VersionsAgree
<1>6. VersionsAgree'
  BY <1>1, <1>4, <1>5, VersionsStay DEF CachesInv
<1>7. CachedContextsOK' /\ CachedTokensOK'
  BY <1>1, <1>4 DEF CachedContextsOK, CachedTokensOK, CachesInv, IsContext, Current
<1>8. RequestsOK' /\ \A v \in Worker : IsRequest(worker[v])'
  BY <1>1, <1>2, OthersStay
<1>9. Typed'
  BY <1>1, <1>2, <1>8 DEF Typed, CachesInv, Moves, IsDocument
<1> QED
  BY <1>6, <1>7, <1>8, <1>9 DEF CachesInv

LEMMA CacheContextSound ==
    ASSUME CachesInv, NEW w \in Worker, CacheContext(w)
    PROVE  CachesInv'
<1>1. PICK q : q = worker[w]
  OBVIOUS
<1>2. /\ IsRequest(q) /\ IndexPartOK(q) /\ TextPartOK(q) /\ DeltaPartOK(q)
      /\ q.pc = "keep"
  BY <1>1 DEF CachesInv, Typed, RequestsOK, CacheContext
<1>3. PICK r : /\ r.pc = "answer" /\ r.kind = q.kind /\ r.session = q.session
               /\ r.started = q.started /\ r.prev = q.prev /\ r.file = q.file
               /\ r.old = q.old /\ r.index = q.index /\ r.view = q.view
               /\ r.key = q.key /\ r.extracted = q.extracted
               /\ r.context = q.context /\ r.disturbed = q.disturbed
               /\ IsRecord(r)
               /\ Moves(w) /\ worker'[w] = r
  <2>1. PICK r : r = [worker[w] EXCEPT !.pc = "answer"]
    OBVIOUS
  <2>2. Moves(w) /\ worker'[w] = r
    BY <2>1, WriteMoves DEF CacheContext, Goto
  <2>3. r = [q EXCEPT !.pc = "answer"]
    BY <2>1, <1>1
  <2>4. q = R(q.pc, q.kind, q.session, q.started, q.prev, q.file, q.old, q.index,
              q.view, q.key, q.extracted, q.context, q.disturbed)
    BY <1>2 DEF IsRequest, IsRecord
  <2>5. r = R("answer", q.kind, q.session, q.started, q.prev, q.file, q.old,
              q.index, q.view, q.key, q.extracted, q.context, q.disturbed)
    BY <2>3, <2>4, Zenon DEF R
  <2>6. /\ r.pc = "answer" /\ r.kind = q.kind /\ r.session = q.session
        /\ r.started = q.started /\ r.prev = q.prev /\ r.file = q.file
        /\ r.old = q.old /\ r.index = q.index /\ r.view = q.view /\ r.key = q.key
        /\ r.extracted = q.extracted /\ r.context = q.context
        /\ r.disturbed = q.disturbed
        /\ IsRecord(r)
    BY <2>5, Fields
  <2> QED
    BY <2>2, <2>6

<1>4. UNCHANGED <<handler, salsa, versions, held, sessions>>
  BY DEF CacheContext
<1>5. IsRequest(worker[w])'
  BY <1>2, <1>3, <1>4 DEF IsRequest, Pcs
<1>6. /\ q.kind = "context"
      /\ IsContext(q.context) /\ q.key.document_version = q.file.version
      /\ q.key.workspace_version \in Nat
      /\ ~q.context.disturbed => q.context.texts = {q.file.text}
      /\ Current = 1 => q.key.workspace_version <= q.context.index[2]
  BY <1>2 DEF IndexPartOK, TextPartOK, IsRequest
<1>7. IndexPartOK(worker[w])'
  <2>1. /\ q.started[2] \in Nat /\ q.context.index[2] \in Nat
        /\ Current = 1 => q.started[2] <= q.context.index[2]
    BY <1>2, <1>6 DEF IndexPartOK, IsContext
  <2> QED
    BY <2>1, <1>2, <1>3, <1>4, <1>6 DEF IndexPartOK, Current
<1>8. TextPartOK(worker[w])' /\ DeltaPartOK(worker[w])'
  BY <1>2, <1>3, <1>4, <1>6 DEF TextPartOK, DeltaPartOK
<1>9. RequestPairs(worker[w])' = RequestPairs(worker[w])
  BY <1>1, <1>2, <1>3, <1>4 DEF RequestPairs
<1>10. CASE ~Keep(w)
  <2>1. doc' = doc
    BY <1>10 DEF CacheContext
  <2> QED
    BY <2>1, <1>3, <1>4, <1>5, <1>7, <1>8, <1>9, QuietStep DEF Known
<1>11. CASE Keep(w)
  <2>1. doc # NoDocument /\ IsDocument(doc) /\ doc.version = q.key.document_version
    BY <1>1, <1>11 DEF Keep, CachesInv, Typed
  <2>15. PICK late : late = (q.session # sessions)
    OBVIOUS
  <2>2. PICK context : context = [q.context EXCEPT !.late = late]
    OBVIOUS
  <2>3. /\ IsContext(context) /\ context.index = q.context.index
        /\ context.disturbed = q.context.disturbed /\ context.texts = q.context.texts
        /\ ~context.late => q.session = sessions
    <3>1. /\ IsContext(context) /\ context.index = q.context.index
          /\ context.disturbed = q.context.disturbed /\ context.texts = q.context.texts
          /\ context.late = late
      BY <1>6, <2>2, LateContext
    <3>2. ~late => q.session = sessions
      BY <2>15
    <3>3. ~context.late => q.session = sessions
      BY <3>1, <3>2, Zenon
    <3> QED
      BY <3>1, <3>3
  <2>4. PICK contexts : contexts = Insert(doc.contexts, q.key, context)
    OBVIOUS
  <2>5. doc' = [doc EXCEPT !.contexts = contexts]
    <3>1. doc' = [doc EXCEPT !.contexts = Insert(doc.contexts, worker[w].key,
                     [worker[w].context EXCEPT !.late = worker[w].session # sessions])]
      BY <1>11 DEF CacheContext
    <3> QED
      BY <3>1, <1>1, <2>15, <2>2, <2>4, Zenon
  <2>6. /\ contexts = [k \in DOMAIN contexts |-> contexts[k]]
        /\ contexts[q.key] = context
        /\ \A k \in DOMAIN contexts : k = q.key \/ (k \in DOMAIN doc.contexts
                                                  /\ contexts[k] = doc.contexts[k])
    BY <2>4 DEF Insert
  <2> HIDE <2>2, <2>4
  <2>7. Refreshed(doc', doc, doc.tokens, contexts)
    BY <2>1, <2>5, <2>6, ContextsRefresh
  <2> HIDE <2>5
  <2>8. Known' \subseteq Known
    <3>1. (DocumentPairs \cup HeldPairs)' \subseteq Known
      BY <1>4, <2>1, <2>7, RefreshPairs DEF HeldPairs, Known
    <3> QED
      BY <3>1, <1>3, <1>9, PairsOfStep DEF Known
  <2>9. VersionsAgree'
    BY <2>1, <2>7, <2>8, VersionsStay DEF CachesInv, Refreshed
  <2>10. CachedTokensOK'
    BY <2>1, <2>7, <2>8 DEF CachedTokensOK, CachesInv, Refreshed
  <2>11. ~context.disturbed /\ ~context.late => context.texts = {doc.text}
    <3>1. SUFFICES ASSUME q.session = sessions PROVE doc.text = q.file.text
      BY <1>6, <2>3
    <3>2. <<doc.version, doc.text>> \in Known
      BY <2>1 DEF Known, DocumentPairs
    <3>3. <<q.file.version, q.file.text>> \in Known
      BY <3>1, <1>1, <1>2 DEF Known, RequestPairs
    <3> QED
      BY <1>6, <2>1, <3>2, <3>3 DEF CachesInv, VersionsAgree
  <2>12. CachedContextsOK'
    <3>1. ASSUME NEW k \in DOMAIN contexts
          PROVE  /\ IsContext(contexts[k]) /\ k.document_version = doc.version
                 /\ k.workspace_version \in Nat
                 /\ ~contexts[k].disturbed /\ ~contexts[k].late
                      => contexts[k].texts = {doc.text}
                 /\ Current = 1 => k.workspace_version <= contexts[k].index[2]
      <4>1. CASE k = q.key
        BY <4>1, <1>6, <2>1, <2>3, <2>6, <2>11
      <4>2. CASE k # q.key
        BY <4>2, <2>1, <2>6 DEF CachesInv, CachedContextsOK
      <4> QED
        BY <4>1, <4>2
    <3> QED
      BY <3>1, <1>4, <2>7 DEF CachedContextsOK, Refreshed, IsContext, Current
  <2>13. RequestsOK' /\ \A v \in Worker : IsRequest(worker[v])'
    BY <1>3, <1>4, <1>5, <1>7, <1>8, OthersStay
  <2>14. Typed'
    BY <1>3, <1>4, <2>7, <2>13 DEF Typed, CachesInv, Refreshed, Moves
  <2> QED
    BY <2>9, <2>10, <2>12, <2>13, <2>14 DEF CachesInv
<1> QED
  BY <1>10, <1>11

-----------------------------------------------------------------------------
(* The theorems.                                                            *)

LEMMA InitCachesInv == Init => CachesInv
<1> SUFFICES ASSUME Init PROVE CachesInv
  OBVIOUS
<1> USE DEF Init
<1>1. PICK r : r = Idle
  OBVIOUS
<1>2. \A w \in Worker : worker[w] = r
  BY <1>1
<1>3. r.pc = "idle" /\ r.session = 0 /\ r.disturbed \in BOOLEAN /\ IsRecord(r)
  BY <1>1, IdleRecord
<1>4. IsRequest(r)
  BY <1>3 DEF IsRequest, Pcs
<1>5. IndexPartOK(r) /\ TextPartOK(r) /\ DeltaPartOK(r)
  BY <1>3 DEF IndexPartOK, TextPartOK, DeltaPartOK
<1>6. Typed
  <2>1. versions \in Seq(Nat) /\ versions # <<>>
    OBVIOUS
  <2>2. worker = [w \in Worker |-> worker[w]]
    OBVIOUS
  <2> QED
    BY <2>1, <2>2, <1>2, <1>4 DEF Typed
<1>7. Known = {}
  <2>1. RequestPairs(r) = {}
    BY <1>3 DEF RequestPairs
  <2> QED
    BY <1>2, <2>1 DEF Known, DocumentPairs, HeldPairs
<1>8. VersionsAgree /\ CachedContextsOK /\ CachedTokensOK
  BY <1>7 DEF VersionsAgree, CachedContextsOK, CachedTokensOK
<1>9. RequestsOK
  BY <1>2, <1>5 DEF RequestsOK
<1> QED
  BY <1>6, <1>8, <1>9 DEF CachesInv

LEMMA NextCachesInv == CachesInv /\ [Next]_vars => CachesInv'
<1> SUFFICES ASSUME CachesInv, [Next]_vars PROVE CachesInv'
  OBVIOUS
<1>1. CASE Documents
  <2>1. ASSUME NEW x \in Text, DidOpen(x) PROVE CachesInv'
    BY <2>1, DidOpenSound
  <2>2. ASSUME NEW x \in Text, DidChange(x) PROVE CachesInv'
    BY <2>2, DidChangeSound
  <2>3. CASE ParseOpened
    BY <2>3, ParseOpenedSound
  <2>4. CASE DidSave
    BY <2>4, DidSaveSound
  <2>5. CASE DidClose
    BY <2>5, DidCloseSound
  <2>6. CASE ClearLspCaches
    BY <2>6, ClearLspCachesSound
  <2>7. CASE Reindex
    BY <2>7, ReindexSound
  <2>8. CASE ReplaceIndex
    BY <2>8, ReplaceIndexSound
  <2> QED
    BY <1>1, <2>1, <2>2, <2>3, <2>4, <2>5, <2>6, <2>7, <2>8 DEF Documents
<1>2. CASE Requests
  <2> SUFFICES ASSUME NEW w \in Worker,
                      \/ \E kind \in {"full", "delta", "context"} : Request(w, kind)
                      \/ EnsureTree(w) \/ GiveUp(w)
                      \/ ReadOldTokens(w) \/ StoreTokens(w) \/ ReceiveTokens(w)
                      \/ LoadIndex(w) \/ GetView(w) \/ SyncSalsaFile(w) \/ LookUpContext(w)
                      \/ Extract(w) \/ BuildContext(w) \/ CacheContext(w) \/ AnswerContext(w)
               PROVE  CachesInv'
    BY <1>2 DEF Requests
  <2>1. ASSUME NEW kind \in {"full", "delta", "context"}, Request(w, kind) PROVE CachesInv'
    BY <2>1, RequestSound
  <2>2. CASE EnsureTree(w)
    BY <2>2, EnsureTreeSound
  <2>3. CASE GiveUp(w)
    BY <2>3, GiveUpSound DEF GiveUp
  <2>4. CASE ReadOldTokens(w)
    BY <2>4, ReadOldTokensSound
  <2>5. CASE StoreTokens(w)
    BY <2>5, StoreTokensSound
  <2>6. CASE ReceiveTokens(w)
    BY <2>6, ReceiveTokensSound
  <2>7. CASE LoadIndex(w)
    BY <2>7, LoadIndexSound
  <2>8. CASE GetView(w)
    BY <2>8, GetViewSound
  <2>9. CASE SyncSalsaFile(w)
    BY <2>9, SyncSalsaFileSound
  <2>10. CASE LookUpContext(w)
    BY <2>10, LookUpContextSound
  <2>11. CASE Extract(w)
    BY <2>11, ExtractSound
  <2>12. CASE BuildContext(w)
    BY <2>12, BuildContextSound
  <2>13. CASE CacheContext(w)
    BY <2>13, CacheContextSound
  <2>14. CASE AnswerContext(w)
    BY <2>14, AnswerContextSound
  <2> QED
    BY <2>1, <2>2, <2>3, <2>4, <2>5, <2>6, <2>7, <2>8, <2>9, <2>10, <2>11, <2>12,
       <2>13, <2>14
<1>3. CASE UNCHANGED vars
  <2> USE <1>3 DEF vars
  <2>1. Later
    BY DEF Later, CachesInv, Typed
  <2>2. /\ RequestsOK' /\ \A v \in Worker : IsRequest(worker[v])'
        /\ \A v \in Worker : RequestPairs(worker[v])' = RequestPairs(worker[v])
    BY <2>1, RequestsStay
  <2>3. Known' = Known
    BY <2>2 DEF Known, HeldPairs, DocumentPairs
  <2>4. VersionsAgree' /\ CachedContextsOK' /\ CachedTokensOK'
    BY <2>3 DEF VersionsAgree, CachedContextsOK, CachedTokensOK, CachesInv, IsContext, Current
  <2>5. Typed'
    BY <2>2 DEF Typed, CachesInv, IsDocument
  <2> QED
    BY <2>2, <2>4, <2>5 DEF CachesInv
<1> QED
  BY <1>1, <1>2, <1>3 DEF Next

(* Every reachable state satisfies the invariant.                           *)
THEOREM CachesInvariant == Spec => []CachesInv
BY InitCachesInv, NextCachesInv, PTL DEF Spec

(* A semantic context that completion, hover and the others answer from is  *)
(* made of the text the request looks at, on an index that is not older     *)
(* than the request, also when it comes from the cache of the document      *)
(* (SourceFile::semantic_contexts).                                         *)
THEOREM CachedAnswersCurrent == Spec => []AnswersCurrent
<1>1. CachesInv => AnswersCurrent
  <2> SUFFICES ASSUME CachesInv PROVE AnswersCurrent
    OBVIOUS
  <2>1. ContextsOfDocumentVersion
    BY DEF CachesInv, CachedContextsOK, ContextsOfDocumentVersion
  <2>2. ASSUME NEW w \in Worker, Answered(w), ~worker[w].context.disturbed,
               ~worker[w].context.late
        PROVE  worker[w].context.texts = {worker[w].file.text}
    BY <2>2 DEF CachesInv, RequestsOK, TextPartOK, Answered
  <2>3. ASSUME Current = 1, NEW w \in Worker, Answered(w)
        PROVE  worker[w].context.index[2] >= worker[w].started[2]
    <3>1. IndexPartOK(worker[w]) /\ worker[w].pc = "answer" /\ worker[w].kind = "context"
      BY <2>3 DEF CachesInv, RequestsOK, Answered
    <3>2. /\ worker[w].context.index[2] \in Nat /\ worker[w].started[2] \in Nat
          /\ worker[w].started[2] <= worker[w].context.index[2]
      BY <2>3, <3>1 DEF IndexPartOK, IsContext
    <3> QED
      BY <3>2
  <2> QED
    BY <2>1, <2>2, <2>3 DEF AnswersCurrent, AnswersMatchSnapshot, AnswersNotOlder
<1> QED
  BY <1>1, CachesInvariant, PTL

(* A delta answer is computed from the tokens the client holds under the    *)
(* result id it sent (semantic_tokens_full_delta).                          *)
THEOREM DeltasStartRight == Spec => []DeltasStartFromHeldTokens
<1>1. CachesInv => DeltasStartFromHeldTokens
  BY DEF CachesInv, RequestsOK, DeltaPartOK, DeltasStartFromHeldTokens
<1> QED
  BY <1>1, CachesInvariant, PTL

-----------------------------------------------------------------------------
(* The edit of a token delta.                                               *)

\* A bounded set of numbers has a greatest one.
LEMMA MaxIs ==
  ASSUME NEW S \in SUBSET Nat, NEW n \in S, NEW b \in Nat, \A x \in S : x <= b
  PROVE  Max(S) \in S /\ \A x \in S : x <= Max(S)
<1> DEFINE T == {b - x : x \in S}
<1>1. T \subseteq Nat /\ T # {}
  OBVIOUS
<1>2. \E y \in T : \A z \in T : ~(<<z, y>> \in OpToRel(<, Nat))
  <2> HIDE DEF T
  <2> QED
    BY <1>1, NatLessThanWellFounded, WFMin
<1>3. PICK y \in T : \A z \in T : ~(z < y)
  BY <1>1, <1>2 DEF OpToRel
<1>4. PICK m \in S : y = b - m
  BY <1>3
<1>5. \A x \in S : m >= x
  <2> SUFFICES ASSUME NEW x \in S PROVE m >= x
    OBVIOUS
  <2>1. ~(b - x < b - m)
    BY <1>3, <1>4
  <2>2. m \in Int /\ x \in Int /\ b \in Int
    OBVIOUS
  <2> QED
    BY <2>1, <2>2
<1> QED
  BY <1>5 DEF Max

LEMMA MinIs ==
  ASSUME NEW m \in Nat, NEW n \in Nat
  PROVE  Min({m, n}) = IF m <= n THEN m ELSE n
BY DEF Min

\* Two sequences agree on their first n elements, or on their last.
SameStart(a, b, n) == n <= Len(a) /\ n <= Len(b) /\ \A i \in 1..n : a[i] = b[i]
SameEnd(a, b, n) ==
    n <= Len(a) /\ n <= Len(b) /\ \A i \in 1..n : a[Len(a) - i + 1] = b[Len(b) - i + 1]

LEMMA SameSubSeq ==
  ASSUME NEW T, NEW a \in Seq(T), NEW b \in Seq(T), NEW n \in Nat, n <= Len(a), n <= Len(b)
  PROVE  SubSeq(a, 1, n) = SubSeq(b, 1, n) <=> SameStart(a, b, n)
<1>1. Len(SubSeq(a, 1, n)) = n /\ Len(SubSeq(b, 1, n)) = n
  OBVIOUS
<1>2. \A i \in 1..n : SubSeq(a, 1, n)[i] = a[i] /\ SubSeq(b, 1, n)[i] = b[i]
  OBVIOUS
<1>3. SubSeq(a, 1, n) \in Seq(T) /\ SubSeq(b, 1, n) \in Seq(T)
  OBVIOUS
<1> QED
  BY <1>1, <1>2, <1>3 DEF SameStart

LEMMA PrefixIs ==
  ASSUME NEW T, NEW a \in Seq(T), NEW b \in Seq(T)
  PROVE  /\ CommonPrefix(a, b) \in Nat /\ SameStart(a, b, CommonPrefix(a, b))
         /\ \A n \in Nat : SameStart(a, b, n) => n <= CommonPrefix(a, b)
<1> DEFINE m == Min({Len(a), Len(b)})
           S == {n \in 0..m : SubSeq(a, 1, n) = SubSeq(b, 1, n)}
<1>1. m \in Nat /\ \A n \in Nat : n <= m <=> n <= Len(a) /\ n <= Len(b)
  <2>1. Len(a) \in Nat /\ Len(b) \in Nat
    OBVIOUS
  <2>2. m = IF Len(a) <= Len(b) THEN Len(a) ELSE Len(b)
    BY <2>1, MinIs
  <2> HIDE DEF m
  <2> QED
    BY <2>1, <2>2
<1> HIDE DEF m
<1>2. \A n : n \in S <=> n \in Nat /\ SameStart(a, b, n)
  <2> SUFFICES ASSUME NEW n PROVE n \in S <=> n \in Nat /\ SameStart(a, b, n)
    OBVIOUS
  <2>1. n \in 0..m <=> n \in Nat /\ n <= Len(a) /\ n <= Len(b)
    BY <1>1
  <2>2. CASE n \in 0..m
    <3>1. n \in Nat /\ n <= Len(a) /\ n <= Len(b)
      BY <2>1, <2>2
    <3>2. SubSeq(a, 1, n) = SubSeq(b, 1, n) <=> SameStart(a, b, n)
      BY <3>1, SameSubSeq
    <3> QED
      BY <2>2, <3>1, <3>2
  <2>3. CASE n \notin 0..m
    BY <2>1, <2>3 DEF SameStart
  <2> QED
    BY <2>2, <2>3
<1>3. 0 \in S /\ S \in SUBSET Nat /\ \A x \in S : x <= m
  <2>1. SameStart(a, b, 0)
    BY DEF SameStart
  <2> QED
    BY <1>1, <1>2, <2>1 DEF SameStart
<1>4. CommonPrefix(a, b) = Max(S)
  BY DEF CommonPrefix, m
<1> HIDE DEF S
<1>5. Max(S) \in S /\ \A x \in S : x <= Max(S)
  BY <1>1, <1>3, MaxIs
<1> QED
  BY <1>2, <1>4, <1>5

LEMMA ReverseIs ==
  ASSUME NEW T, NEW a \in Seq(T)
  PROVE  /\ Reverse(a) \in Seq(T) /\ Len(Reverse(a)) = Len(a)
         /\ \A i \in 1..Len(a) : Reverse(a)[i] = a[Len(a) - i + 1]
BY DEF Reverse

LEMMA SuffixIs ==
  ASSUME NEW T, NEW a \in Seq(T), NEW b \in Seq(T)
  PROVE  /\ CommonSuffix(a, b) \in Nat /\ SameEnd(a, b, CommonSuffix(a, b))
         /\ \A n \in Nat : SameEnd(a, b, n) => n <= CommonSuffix(a, b)
<1>1. \A n \in Nat : SameStart(Reverse(a), Reverse(b), n) <=> SameEnd(a, b, n)
  <2> SUFFICES ASSUME NEW n \in Nat
               PROVE  SameStart(Reverse(a), Reverse(b), n) <=> SameEnd(a, b, n)
    OBVIOUS
  <2>1. /\ Len(Reverse(a)) = Len(a) /\ Len(Reverse(b)) = Len(b)
        /\ \A i \in 1..Len(a) : Reverse(a)[i] = a[Len(a) - i + 1]
        /\ \A i \in 1..Len(b) : Reverse(b)[i] = b[Len(b) - i + 1]
    BY ReverseIs
  <2>2. n <= Len(a) /\ n <= Len(b) =>
           \A i \in 1..n : /\ Reverse(a)[i] = a[Len(a) - i + 1]
                          /\ Reverse(b)[i] = b[Len(b) - i + 1]
    BY <2>1
  <2> QED
    BY <2>1, <2>2 DEF SameStart, SameEnd
<1>2. Reverse(a) \in Seq(T) /\ Reverse(b) \in Seq(T)
  BY ReverseIs
<1> QED
  BY <1>1, <1>2, PrefixIs DEF CommonSuffix

LEMMA DropIs ==
  ASSUME NEW T, NEW a \in Seq(T), NEW n \in 0..Len(a)
  PROVE  /\ Drop(a, n) \in Seq(T) /\ Len(Drop(a, n)) = Len(a) - n
         /\ \A i \in 1..(Len(a) - n) : Drop(a, n)[i] = a[n + i]
BY DEF Drop

\* What the diff keeps of the two sequences.
LEMMA DiffKeeps ==
  ASSUME NEW T, NEW a \in Seq(T), NEW b \in Seq(T), NEW p, NEW q,
         p = CommonPrefix(a, b), q = CommonSuffix(Drop(a, p), Drop(b, p))
  PROVE  /\ p \in Nat /\ q \in Nat /\ p + q <= Len(a) /\ p + q <= Len(b)
         /\ SameStart(a, b, p) /\ SameEnd(a, b, q)
         /\ \A m, n \in Nat : m + n <= Len(a) /\ m + n <= Len(b)
                 /\ SameStart(a, b, m) /\ SameEnd(a, b, n) => m + n <= p + q
<1>1. /\ p \in Nat /\ SameStart(a, b, p)
      /\ \A n \in Nat : SameStart(a, b, n) => n <= p
  BY PrefixIs
<1>2. p \in 0..Len(a) /\ p \in 0..Len(b) /\ Len(a) \in Nat /\ Len(b) \in Nat
  BY <1>1 DEF SameStart
<1>3. /\ Drop(a, p) \in Seq(T) /\ Len(Drop(a, p)) = Len(a) - p
      /\ \A i \in 1..(Len(a) - p) : Drop(a, p)[i] = a[p + i]
      /\ Drop(b, p) \in Seq(T) /\ Len(Drop(b, p)) = Len(b) - p
      /\ \A i \in 1..(Len(b) - p) : Drop(b, p)[i] = b[p + i]
  BY <1>2, DropIs
<1>4. \A n \in Nat : SameEnd(Drop(a, p), Drop(b, p), n)
          <=> p + n <= Len(a) /\ p + n <= Len(b) /\ SameEnd(a, b, n)
  <2> SUFFICES ASSUME NEW n \in Nat
               PROVE  SameEnd(Drop(a, p), Drop(b, p), n)
                        <=> p + n <= Len(a) /\ p + n <= Len(b) /\ SameEnd(a, b, n)
    OBVIOUS
  <2>1. n <= Len(Drop(a, p)) <=> p + n <= Len(a)
    BY <1>2, <1>3
  <2>2. n <= Len(Drop(b, p)) <=> p + n <= Len(b)
    BY <1>2, <1>3
  <2>3. CASE p + n <= Len(a) /\ p + n <= Len(b)
    <3>1. \A i \in 1..n : /\ Drop(a, p)[Len(Drop(a, p)) - i + 1] = a[Len(a) - i + 1]
                          /\ Drop(b, p)[Len(Drop(b, p)) - i + 1] = b[Len(b) - i + 1]
      <4> SUFFICES ASSUME NEW i \in 1..n
                   PROVE  /\ Drop(a, p)[Len(Drop(a, p)) - i + 1] = a[Len(a) - i + 1]
                          /\ Drop(b, p)[Len(Drop(b, p)) - i + 1] = b[Len(b) - i + 1]
        OBVIOUS
      <4>1. /\ (Len(a) - p) - i + 1 \in 1..(Len(a) - p)
            /\ p + ((Len(a) - p) - i + 1) = Len(a) - i + 1
        BY <1>2, <2>3
      <4>2. /\ (Len(b) - p) - i + 1 \in 1..(Len(b) - p)
            /\ p + ((Len(b) - p) - i + 1) = Len(b) - i + 1
        BY <1>2, <2>3
      <4> QED
        BY <1>3, <4>1, <4>2
    <3>2. n <= Len(a) /\ n <= Len(b)
      BY <1>2, <2>3
    <3> QED
      BY <2>1, <2>2, <2>3, <3>1, <3>2 DEF SameEnd
  <2>4. CASE ~(p + n <= Len(a) /\ p + n <= Len(b))
    BY <2>1, <2>2, <2>4 DEF SameEnd
  <2> QED
    BY <2>3, <2>4
<1>5. /\ q \in Nat /\ p + q <= Len(a) /\ p + q <= Len(b) /\ SameEnd(a, b, q)
      /\ \A n \in Nat : p + n <= Len(a) /\ p + n <= Len(b) /\ SameEnd(a, b, n) => n <= q
  BY <1>3, <1>4, SuffixIs
<1>6. ASSUME NEW m \in Nat, NEW n \in Nat, m + n <= Len(a), m + n <= Len(b),
             SameStart(a, b, m), SameEnd(a, b, n)
      PROVE  m + n <= p + q
  <2>1. m <= p
    BY <1>1, <1>6
  <2>2. CASE p + n <= Len(a) /\ p + n <= Len(b)
    BY <1>1, <1>5, <1>6, <2>1, <2>2
  <2>3. CASE ~(p + n <= Len(a) /\ p + n <= Len(b))
    <3> DEFINE k == (IF Len(a) <= Len(b) THEN Len(a) ELSE Len(b)) - p
    <3>1. k \in Nat /\ k <= n /\ p + k <= Len(a) /\ p + k <= Len(b) /\ m + n <= p + k
      BY <1>2, <1>6, <2>3
    <3> HIDE DEF k
    <3>2. SameEnd(a, b, k)
      BY <1>2, <1>6, <3>1 DEF SameEnd
    <3>3. k <= q
      BY <1>5, <3>1, <3>2
    <3> QED
      BY <1>1, <1>5, <1>6, <3>1, <3>3
  <2> QED
    BY <2>2, <2>3
<1> QED
  BY <1>1, <1>5, <1>6

\* Replacing what lies between the two.
LEMMA SpliceIs ==
  ASSUME NEW T, NEW a \in Seq(T), NEW b \in Seq(T), NEW p \in Nat, NEW q \in Nat,
         p + q <= Len(a), p + q <= Len(b), SameStart(a, b, p), SameEnd(a, b, q)
  PROVE  Splice(a, p, Len(a) - q - p, SubSeq(b, p + 1, Len(b) - q)) = b
<1> DEFINE s == SubSeq(a, 1, p)
           d == SubSeq(b, p + 1, Len(b) - q)
           t == Drop(a, Len(a) - q)
<1>1. Len(a) \in Nat /\ Len(b) \in Nat
  OBVIOUS
<1>2. /\ s \in Seq(T) /\ Len(s) = p /\ \A i \in 1..p : s[i] = a[i]
  BY <1>1
<1>3. /\ d \in Seq(T) /\ Len(d) = Len(b) - q - p
      /\ \A i \in 1..(Len(b) - q - p) : d[i] = b[p + i]
  BY <1>1
<1>4. /\ t \in Seq(T) /\ Len(t) = q /\ \A i \in 1..q : t[i] = a[(Len(a) - q) + i]
  <2>1. Len(a) - q \in 0..Len(a) /\ Len(a) - (Len(a) - q) = q
    BY <1>1
  <2> QED
    BY <2>1, DropIs
<1>5. p + (Len(a) - q - p) = Len(a) - q
  BY <1>1
<1>6. Splice(a, p, Len(a) - q - p, d) = s \o d \o t
  BY <1>5 DEF Splice
<1> HIDE DEF s, d, t
<1>7. /\ s \o d \in Seq(T) /\ Len(s \o d) = Len(b) - q
      /\ \A i \in 1..(Len(b) - q) : (s \o d)[i] = b[i]
  <2>1. /\ s \o d \in Seq(T) /\ Len(s \o d) = Len(b) - q
        /\ \A i \in 1..(Len(b) - q) : (s \o d)[i] = IF i <= p THEN s[i] ELSE d[i - p]
    <3>1. Len(s) = p /\ Len(s) + Len(d) = Len(b) - q
      BY <1>1, <1>2, <1>3
    <3>2. /\ s \o d \in Seq(T) /\ Len(s \o d) = Len(s) + Len(d)
          /\ \A i \in 1..(Len(s) + Len(d)) :
                (s \o d)[i] = IF i <= Len(s) THEN s[i] ELSE d[i - Len(s)]
      BY <1>2, <1>3, ConcatProperties
    <3> QED
      BY <3>1, <3>2
  <2>2. ASSUME NEW i \in 1..(Len(b) - q) PROVE (s \o d)[i] = b[i]
    <3>0. i \in Int
      OBVIOUS
    <3>1. CASE i <= p
      <4>1. i \in 1..p
        BY <3>1
      <4> QED
        BY <1>2, <2>1, <3>1, <4>1 DEF SameStart
    <3>2. CASE ~(i <= p)
      <4>1. i - p \in 1..(Len(b) - q - p) /\ p + (i - p) = i
        BY <1>1, <3>2
      <4> QED
        BY <1>3, <2>1, <3>2, <4>1
    <3> QED
      BY <3>1, <3>2
  <2> QED
    BY <2>1, <2>2
<1>8. /\ (s \o d) \o t \in Seq(T) /\ Len((s \o d) \o t) = Len(b)
      /\ \A i \in 1..Len(b) : ((s \o d) \o t)[i] = b[i]
  <2>1. /\ (s \o d) \o t \in Seq(T) /\ Len((s \o d) \o t) = Len(b)
        /\ \A i \in 1..Len(b) :
              ((s \o d) \o t)[i] = IF i <= Len(b) - q THEN (s \o d)[i] ELSE t[i - (Len(b) - q)]
    <3>1. Len(s \o d) = Len(b) - q /\ Len(s \o d) + Len(t) = Len(b)
      BY <1>1, <1>4, <1>7
    <3> DEFINE sd == s \o d
    <3>2. sd \in Seq(T) /\ Len(sd) = Len(b) - q
      BY <1>7
    <3> HIDE DEF sd
    <3>3. /\ sd \o t \in Seq(T) /\ Len(sd \o t) = Len(sd) + Len(t)
          /\ \A i \in 1..(Len(sd) + Len(t)) :
                (sd \o t)[i] = IF i <= Len(sd) THEN sd[i] ELSE t[i - Len(sd)]
      <4>1. sd \in Seq(T) /\ t \in Seq(T)
        BY <1>4, <3>2
      <4> QED
        BY <4>1, ConcatProperties
    <3> QED
      BY <3>1, <3>2, <3>3 DEF sd
  <2>2. ASSUME NEW i \in 1..Len(b) PROVE ((s \o d) \o t)[i] = b[i]
    <3>1. CASE i <= Len(b) - q
      <4>1. i \in 1..(Len(b) - q)
        BY <1>1, <3>1
      <4> QED
        BY <1>7, <2>1, <3>1, <4>1
    <3>2. CASE ~(i <= Len(b) - q)
      <4> DEFINE j == i - (Len(b) - q)
                 k == Len(b) - i + 1
      <4>1. ((s \o d) \o t)[i] = t[j] /\ j \in 1..q
        BY <1>1, <2>1, <3>2
      <4>2. k \in 1..q /\ Len(b) - k + 1 = i /\ Len(a) - k + 1 = (Len(a) - q) + j
        BY <1>1, <3>2
      <4>3. a[Len(a) - k + 1] = b[Len(b) - k + 1]
        BY <4>2 DEF SameEnd
      <4> QED
        BY <1>4, <4>1, <4>2, <4>3
    <3> QED
      BY <3>1, <3>2
  <2> QED
    BY <2>1, <2>2
<1>9. (s \o d) \o t = b
  BY <1>8, SeqEqual
<1> QED
  BY <1>6, <1>9 DEF d

LEMMA EndIs ==
  ASSUME NEW T, NEW a \in Seq(T), NEW b \in Seq(T), NEW q \in Nat, q <= Len(a), q <= Len(b),
         Drop(a, Len(a) - q) = Drop(b, Len(b) - q)
  PROVE  SameEnd(a, b, q)
<1>1. /\ Len(a) \in Nat /\ Len(b) \in Nat
      /\ Len(a) - q \in 0..Len(a) /\ Len(a) - (Len(a) - q) = q
      /\ Len(b) - q \in 0..Len(b) /\ Len(b) - (Len(b) - q) = q
  OBVIOUS
<1>2. /\ \A i \in 1..q : Drop(a, Len(a) - q)[i] = a[(Len(a) - q) + i]
      /\ \A i \in 1..q : Drop(b, Len(b) - q)[i] = b[(Len(b) - q) + i]
  BY <1>1, DropIs
<1>3. ASSUME NEW i \in 1..q PROVE a[Len(a) - i + 1] = b[Len(b) - i + 1]
  <2> DEFINE j == q - i + 1
  <2>1. /\ j \in 1..q /\ (Len(a) - q) + j = Len(a) - i + 1
        /\ (Len(b) - q) + j = Len(b) - i + 1
    BY <1>1
  <2> HIDE DEF j
  <2>2. Drop(a, Len(a) - q)[j] = Drop(b, Len(b) - q)[j]
    OBVIOUS
  <2> QED
    BY <1>2, <2>1, <2>2
<1> QED
  BY <1>3 DEF SameEnd

\* The edit of a delta answer, read in tokens, turns the old tokens into the new
\* ones, and no edit that keeps a start and an end of them deletes fewer
\* (diff_semantic_tokens), for any two lists of tokens.
THEOREM DiffsTransform ==
  ASSUME NEW T, NEW old \in Seq(T), NEW new \in Seq(T)
  PROVE  DiffTransforms(old, new)
<1> DEFINE p == CommonPrefix(old, new)
           q == CommonSuffix(Drop(old, p), Drop(new, p))
           edit == [start |-> p, delete_count |-> Len(old) - q - p,
                    data |-> SubSeq(new, p + 1, Len(new) - q)]
           edits == DiffSemanticTokens(old, new)
<1>1. edits = IF old = new THEN <<>> ELSE <<edit>>
  BY DEF DiffSemanticTokens
<1>2. /\ p \in Nat /\ q \in Nat /\ p + q <= Len(old) /\ p + q <= Len(new)
      /\ SameStart(old, new, p) /\ SameEnd(old, new, q)
      /\ \A m, n \in Nat : m + n <= Len(old) /\ m + n <= Len(new)
              /\ SameStart(old, new, m) /\ SameEnd(old, new, n) => m + n <= p + q
  BY DiffKeeps
<1> HIDE DEF p, q
<1>3. Splice(old, p, Len(old) - q - p, SubSeq(new, p + 1, Len(new) - q)) = new
  BY <1>2, SpliceIs
<1>4. /\ edit.start = p /\ edit.delete_count = Len(old) - q - p
      /\ edit.data = SubSeq(new, p + 1, Len(new) - q)
  OBVIOUS
<1> HIDE DEF edit, edits
<1>5. ApplyToTokens(edits, old) = new
  <2>1. CASE old = new
    BY <1>1, <2>1 DEF ApplyToTokens
  <2>2. CASE old # new
    BY <1>1, <1>3, <1>4, <2>2 DEF ApplyToTokens
  <2> QED
    BY <2>1, <2>2
<1>6. \A m \in Nat : m <= Len(old) /\ m <= Len(new)
         => (SubSeq(old, 1, m) = SubSeq(new, 1, m) <=> SameStart(old, new, m))
  BY SameSubSeq
<1>7. ASSUME NEW k \in 1..Len(edits), NEW m \in 0..Min({Len(old), Len(new)}),
             NEW n \in 0..Min({Len(old), Len(new)}), m + n <= Min({Len(old), Len(new)}),
             SubSeq(old, 1, m) = SubSeq(new, 1, m),
             Drop(old, Len(old) - n) = Drop(new, Len(new) - n)
      PROVE  edits[k].delete_count <= Len(old) - m - n
  <2>1. edits[k].delete_count = Len(old) - q - p
    BY <1>1, <1>4, <1>7
  <2>2. /\ Len(old) \in Nat /\ Len(new) \in Nat
        /\ Min({Len(old), Len(new)}) = IF Len(old) <= Len(new) THEN Len(old) ELSE Len(new)
    BY MinIs
  <2>3. m \in Nat /\ n \in Nat /\ m + n <= Len(old) /\ m + n <= Len(new)
    BY <1>7, <2>2
  <2>4. SameStart(old, new, m)
    <3>1. SubSeq(old, 1, m) = SubSeq(new, 1, m) <=> SameStart(old, new, m)
      BY <1>6, <2>3
    <3> QED
      BY <1>7, <3>1
  <2>5. SameEnd(old, new, n)
    BY <1>7, <2>2, <2>3, EndIs
  <2> QED
    BY <1>2, <2>1, <2>2, <2>3, <2>4, <2>5
<1> QED
  BY <1>5, <1>7 DEF DiffTransforms, edits

=============================================================================
