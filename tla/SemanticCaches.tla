--------------------------- MODULE SemanticCaches ---------------------------
(***************************************************************************)
(* The caches kept with an open document (workspace/document.rs) and the   *)
(* requests that fill and use them: semantic tokens, full and delta        *)
(* (lsp/handlers/semantic_tokens.rs), and semantic contexts, on which      *)
(* completion, hover, inlay hints and definitions rest                     *)
(* (lsp/request_context.rs).                                               *)
(*                                                                         *)
(* Requests run on blocking threads, next to the handlers of didOpen,      *)
(* didChange, didSave and didClose.  A request takes a snapshot of the     *)
(* document once and comes back to the document, to its Salsa file and to  *)
(* the index in later steps.  One document and one cursor position are     *)
(* modelled; the client keeps the last token result it received.           *)
(***************************************************************************)
EXTENDS TokenDiff

CONSTANTS
    Text,         \* document texts
    TokensOf,     \* TokensOf[x]: the semantic tokens of text x
    Worker,       \* requests alive at a time
    None,
    MaxEvents,    \* bound: what happens to the document and the index
    MaxRequests   \* bound: requests

ASSUME TokensAssumption == \A x \in Text : TokensOf[x] \in Seq(Nat)

VARIABLES
    doc,          \* the open document, or NoDocument
    handler,      \* what the handler of didOpen still has to do
    salsa,        \* content of the document's Salsa file
    versions,     \* version() of every index object, oldest first
    worker,       \* the requests
    held,         \* the client's token result: [id, data, text]
    sessions,     \* times the document was opened
    events, requests  \* what the bounds count

vars == <<doc, handler, salsa, versions, worker, held, sessions, events, requests>>

Idle == [pc |-> "idle", kind |-> None, session |-> 0, started |-> <<0, 0>>, prev |-> None,
         file |-> None, old |-> None, index |-> 0, view |-> 0, key |-> None,
         extracted |-> None, context |-> None, disturbed |-> FALSE]

Current == Len(versions)
NoContexts == [k \in {} |-> None]

Document(version, text) ==
    [version |-> version, text |-> text, tree |-> FALSE,
     tokens |-> None, contexts |-> NoContexts]

\* Versions of an open document start at 1.
NoDocument == Document(0, None)

Init ==
    /\ doc = NoDocument /\ handler = "idle" /\ salsa = None
    /\ versions = <<1>>
    /\ worker = [w \in Worker |-> Idle]
    /\ held = None
    /\ sessions = 0 /\ events = 0 /\ requests = 0

-----------------------------------------------------------------------------
(* The document.                                                            *)

Event == events < MaxEvents /\ events' = events + 1

DidOpen(text) ==
    /\ doc = NoDocument /\ handler = "idle" /\ Event
    /\ doc' = Document(1, text)
    /\ handler' = "parse"
    /\ sessions' = sessions + 1
    /\ UNCHANGED <<salsa, versions, worker, held, requests>>

\* set_tree
WithTree(d) == [d EXCEPT !.tree = TRUE, !.contexts = NoContexts]

ParseOpened ==
    /\ handler = "parse"
    /\ handler' = "idle"
    /\ doc' = WithTree(doc)
    /\ UNCHANGED <<salsa, versions, worker, held, sessions, requests, events>>

\* update_source: another SourceFile, with its tree, and no caches.
UpdateSourceKeepsContexts(d, version, text) ==
    [d EXCEPT !.version = version, !.text = text, !.tree = TRUE, !.tokens = None]
UpdateSource(d, version, text) ==
    [Document(version, text) EXCEPT !.tree = TRUE]

DidChange(text) ==
    /\ doc # NoDocument /\ handler = "idle" /\ Event
    /\ doc' = UpdateSource(doc, doc.version + 1, text)
    /\ UNCHANGED <<handler, salsa, versions, worker, held, sessions, requests>>

\* With the text, which is the document's, or without it.
DidSave ==
    /\ doc # NoDocument /\ handler = "idle" /\ Event
    /\ \/ doc' = UpdateSource(doc, doc.version, doc.text)
       \/ doc' = WithTree(doc)
    /\ UNCHANGED <<handler, salsa, versions, worker, held, sessions, requests>>

\* The client forgets the tokens of a document it closes.
DidClose ==
    /\ doc # NoDocument /\ handler = "idle" /\ Event
    /\ doc' = NoDocument
    /\ held' = None
    /\ UNCHANGED <<handler, salsa, versions, worker, sessions, requests>>

ClearLspCaches ==
    /\ doc # NoDocument /\ Event
    /\ doc' = [doc EXCEPT !.tokens = None, !.contexts = NoContexts]
    /\ UNCHANGED <<handler, salsa, versions, worker, held, sessions, requests>>

-----------------------------------------------------------------------------
(* The Salsa file and the index.                                            *)

\* The worker has put its text in the Salsa file and has yet to read it back.
Relies(w) == worker[w].pc \in {"key", "extract", "build"}

Disturb(ws, text) ==
    [w \in Worker |-> [ws[w] EXCEPT !.disturbed = @ \/ (Relies(w) /\ salsa # text)]]

\* The document reindex: the Salsa file takes the document's text, the index another version.
Reindex ==
    /\ doc # NoDocument /\ Event
    /\ salsa' = doc.text
    /\ worker' = Disturb(worker, doc.text)
    /\ versions' = [versions EXCEPT ![Current] = @ + 1]
    /\ UNCHANGED <<doc, handler, held, sessions, requests>>

\* A full reindex publishes an index that counts from the start.
ReplaceIndex ==
    /\ Event
    /\ versions' = Append(versions, 1)
    /\ UNCHANGED <<doc, handler, salsa, worker, held, sessions, requests>>

-----------------------------------------------------------------------------
(* Requests.                                                                *)

Become(w, request) == worker' = [worker EXCEPT ![w] = request]
Goto(w, pc) == Become(w, [worker[w] EXCEPT !.pc = pc])
End(w) == Become(w, Idle)

Request(w, kind) ==
    /\ worker[w].pc = "idle" /\ requests < MaxRequests
    /\ sessions > 0
    /\ kind = "delta" => held # None
    /\ requests' = requests + 1
    /\ Become(w, [Idle EXCEPT !.pc = "tree", !.kind = kind, !.session = sessions,
                              !.prev = IF kind = "delta" THEN held ELSE None,
                              !.started = <<Current, versions[Current]>>])
    /\ UNCHANGED <<doc, handler, salsa, versions, held, sessions, events>>

FirstStep == [full |-> "store", delta |-> "old", context |-> "load"]

\* ensure_tree parses under the document's lock, unless the tree is there by then, and
\* the snapshot it returns is all the request knows of the document from then on.
EnsureTree(w) ==
    /\ worker[w].pc = "tree" /\ doc # NoDocument
    /\ doc' = IF doc.tree THEN doc ELSE WithTree(doc)
    /\ Become(w, [worker[w] EXCEPT
           !.pc = FirstStep[worker[w].kind],
           !.file = [version |-> doc.version, text |-> doc.text]])
    /\ UNCHANGED <<handler, salsa, versions, held, sessions, requests, events>>

\* A request is cancelled at the next check, or finds its document closed.
GiveUp(w) ==
    /\ \/ worker[w].pc \in {"tree", "load", "view", "sync", "extract", "build", "keep"}
       \/ worker[w].pc = "store" /\ worker[w].kind = "full"
       \/ worker[w].pc = "old"
    /\ End(w)
    /\ UNCHANGED <<doc, handler, salsa, versions, held, sessions, requests, events>>

-----------------------------------------------------------------------------
(* Semantic tokens.  The result id is the version of the snapshot.          *)

OldTokensOfAnyVersion(w) == doc.tokens
OldTokens(w) ==
    IF doc.tokens # None /\ doc.tokens.id = worker[w].prev.id THEN doc.tokens ELSE None

ReadOldTokens(w) ==
    /\ worker[w].pc = "old" /\ doc # NoDocument
    /\ Become(w, [worker[w] EXCEPT !.pc = "store", !.old = OldTokens(w)])
    /\ UNCHANGED <<doc, handler, salsa, versions, held, sessions, requests, events>>

Tokens(w) == TokensOf[worker[w].file.text]

\* Whatever version the document has by now.
StoreTokens(w) ==
    /\ worker[w].pc = "store"
    /\ doc' = IF doc = NoDocument THEN NoDocument
              ELSE [doc EXCEPT !.tokens =
                       [id |-> worker[w].file.version, data |-> Tokens(w),
                        late |-> worker[w].session # sessions]]
    /\ Goto(w, "answer")
    /\ UNCHANGED <<handler, salsa, versions, held, sessions, requests, events>>

\* The client applies a delta to the result it named in the request.
ReceiveTokens(w) ==
    /\ worker[w].pc = "answer" /\ worker[w].kind # "context"
    /\ held' = IF worker[w].session # sessions \/ doc = NoDocument THEN held
               ELSE [id |-> worker[w].file.version, text |-> worker[w].file.text,
                     data |-> IF worker[w].old = None THEN Flat(Tokens(w))
                              ELSE ApplyToArray(DiffSemanticTokens(worker[w].old.data, Tokens(w)),
                                                worker[w].prev.data)]
    /\ End(w)
    /\ UNCHANGED <<doc, handler, salsa, versions, sessions, requests, events>>

-----------------------------------------------------------------------------
(* Semantic contexts.                                                       *)

\* load_analysis_state_for_uri
LoadIndex(w) ==
    /\ worker[w].pc = "load"
    /\ Become(w, [worker[w] EXCEPT !.pc = "view", !.index = Current])
    /\ UNCHANGED <<doc, handler, salsa, versions, held, sessions, requests, events>>

\* get_index_view_for_context asks the handle again; the view reads live buckets.
GetView(w) ==
    /\ worker[w].pc = "view"
    /\ Become(w, [worker[w] EXCEPT !.pc = "sync", !.view = Current])
    /\ UNCHANGED <<doc, handler, salsa, versions, held, sessions, requests, events>>

\* get_or_update_salsa_file_for_snapshot: the request's own snapshot, however old.
SyncSalsaFile(w) ==
    /\ worker[w].pc = "sync"
    /\ salsa' = worker[w].file.text
    /\ worker' = Disturb([worker EXCEPT ![w].pc = "key"], worker[w].file.text)
    /\ UNCHANGED <<doc, handler, versions, held, sessions, requests, events>>

KeyOfLiveDocument(w) ==
    [document_version |-> IF doc = NoDocument THEN worker[w].file.version ELSE doc.version,
     workspace_version |-> versions[worker[w].index]]
CacheKey(w) ==
    [document_version |-> worker[w].file.version,
     workspace_version |-> versions[worker[w].index]]

\* The index version is read last, and the key looked up in the document's cache.
LookUpContext(w) ==
    /\ worker[w].pc = "key"
    /\ LET hit == doc # NoDocument /\ CacheKey(w) \in DOMAIN doc.contexts IN
       Become(w, [worker[w] EXCEPT
           !.pc = IF hit THEN "answer" ELSE "extract",
           !.key = CacheKey(w),
           !.context = IF hit THEN doc.contexts[CacheKey(w)] ELSE None])
    /\ UNCHANGED <<doc, handler, salsa, versions, held, sessions, requests, events>>

Extract(w) ==
    /\ worker[w].pc = "extract"
    /\ Become(w, [worker[w] EXCEPT !.pc = "build", !.extracted = salsa])
    /\ UNCHANGED <<doc, handler, salsa, versions, held, sessions, requests, events>>

BuildContext(w) ==
    /\ worker[w].pc = "build"
    /\ Become(w, [worker[w] EXCEPT !.pc = "keep",
           !.context = [texts |-> {worker[w].extracted, salsa},
                        index |-> <<worker[w].view, versions[worker[w].view]>>,
                        disturbed |-> worker[w].disturbed, late |-> FALSE]])
    /\ UNCHANGED <<doc, handler, salsa, versions, held, sessions, requests, events>>

\* The cache with the entry for a key added or replaced.
Insert(contexts, key, context) ==
    [k \in {key} \cup DOMAIN contexts |-> IF k = key THEN context ELSE contexts[k]]

\* The entry is put in the cache if the document still has the request's version.
KeepAnyVersion(w) == doc # NoDocument
Keep(w) == doc # NoDocument /\ doc.version = worker[w].key.document_version

CacheContextUnderVersionNow(w) ==
    /\ worker[w].pc = "keep"
    /\ doc' = IF Keep(w)
              THEN [doc EXCEPT !.contexts = Insert(@,
                       [worker[w].key EXCEPT !.workspace_version = versions[worker[w].index]],
                       worker[w].context)]
              ELSE doc
    /\ Goto(w, "answer")
    /\ UNCHANGED <<handler, salsa, versions, held, sessions, requests, events>>
CacheContext(w) ==
    /\ worker[w].pc = "keep"
    /\ doc' = IF Keep(w)
              THEN [doc EXCEPT !.contexts = Insert(@, worker[w].key,
                       [worker[w].context EXCEPT !.late = worker[w].session # sessions])]
              ELSE doc
    /\ Goto(w, "answer")
    /\ UNCHANGED <<handler, salsa, versions, held, sessions, requests, events>>

AnswerContext(w) ==
    /\ worker[w].pc = "answer" /\ worker[w].kind = "context"
    /\ End(w)
    /\ UNCHANGED <<doc, handler, salsa, versions, held, sessions, requests, events>>

-----------------------------------------------------------------------------
Documents ==
    \/ \E x \in Text : DidOpen(x) \/ DidChange(x)
    \/ ParseOpened \/ DidSave \/ DidClose \/ ClearLspCaches \/ Reindex \/ ReplaceIndex

Requests == \E w \in Worker :
    \/ \E kind \in {"full", "delta", "context"} : Request(w, kind)
    \/ EnsureTree(w) \/ GiveUp(w)
    \/ ReadOldTokens(w) \/ StoreTokens(w) \/ ReceiveTokens(w)
    \/ LoadIndex(w) \/ GetView(w) \/ SyncSalsaFile(w) \/ LookUpContext(w)
    \/ Extract(w) \/ BuildContext(w) \/ CacheContext(w) \/ AnswerContext(w)

Next == Documents \/ Requests
Spec == Init /\ [][Next]_vars

-----------------------------------------------------------------------------
(* Properties.                                                              *)

\* "Cached semantic contexts for the current document version" (document.rs): no entry of
\* another version gets into the cache, although a request builds its context long after
\* it took its snapshot.
ContextsOfDocumentVersion ==
    doc # NoDocument => \A k \in DOMAIN doc.contexts : k.document_version = doc.version

Answered(w) ==
    worker[w].pc = "answer" /\ worker[w].kind = "context" /\ worker[w].session = sessions

\* The context a request answers from was made of the text the request itself looks at,
\* also when another request made it, unless the Salsa file was given another text while
\* it was made or it came from a request that outlived a close of the document; the cache
\* has entries of the document's version only.
AnswersMatchSnapshot ==
    /\ ContextsOfDocumentVersion
    /\ \A w \in Worker :
           Answered(w) /\ ~worker[w].context.disturbed /\ ~worker[w].context.late
               => worker[w].context.texts = {worker[w].file.text}

\* The context a request answers from was built on the index as it was when the request
\* started, or a later one, as long as no other index was published.
AnswersNotOlder ==
    Current = 1 => \A w \in Worker :
        Answered(w) => worker[w].context.index[2] >= worker[w].started[2]

\* What is answered from the cache is current: made of the request's own text, on an index
\* not older than the request.
AnswersCurrent == AnswersMatchSnapshot /\ AnswersNotOlder

\* A delta is taken from the very tokens the client holds under the result id it named,
\* unless they come from a request that outlived a close of the document.
DeltasStartFromHeldTokens ==
    \A w \in Worker :
        /\ worker[w].pc = "answer" /\ worker[w].kind = "delta"
        /\ worker[w].session = sessions
        /\ worker[w].old # None /\ ~worker[w].old.late
        => worker[w].old.data = TokensOf[worker[w].prev.text]

\* What the client has after an answer, full or delta, are the tokens of the text the
\* answer is about ("to transform `old` into `new`", diff_semantic_tokens).
ClientTokens == held # None => held.data = Flat(TokensOf[held.text])
=============================================================================
