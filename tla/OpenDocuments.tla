---------------------------- MODULE OpenDocuments ----------------------------
(***************************************************************************)
(* Open documents and the published index: the didOpen, didChange, didSave *)
(* and didClose handlers of src/lsp/server.rs, the debounced and the       *)
(* inline document reindex, and, from src/workspace.rs, the Salsa file of  *)
(* a document, the upsert that the watcher and a closed document share,    *)
(* and the part of a full reindex that overlays open documents.            *)
(*                                                                         *)
(* Handlers run one at a time on the LSP task; an inline reindex keeps     *)
(* that task busy.  Debounced reindexes, the watcher, the reconciliation   *)
(* of closed documents, request workers and the full reindex run on other  *)
(* threads.  Everyone who changes the index entry of a document is a       *)
(* "writer"; each reads documents, Salsa, model and disk in steps of its   *)
(* own before it updates the index.                                        *)
(***************************************************************************)
EXTENDS Naturals, FiniteSets

CONSTANTS
    Uri,         \* documents
    Text,        \* document and file contents (each declares classes)
    Disk,        \* what the disk holds for each document's path
    Absent,      \* no file, no classes
    None,        \* no document, no handle
    Model,       \* workspace models an import may deliver
    NoModel,     \* the model of the fallback index
    Bucket, ContextOf,  \* resolve_analysis_context_for_snapshot
    Handle,      \* Salsa SourceFile handles of one uri
    Task,        \* debounced reindex tasks alive at a time
    Prompt,      \* TRUE: a reindex ends before the next debounce elapses
    MaxVersion,  \* bound: document versions
    MaxSaves, MaxCloses, MaxJobs, MaxRequests, MaxRebuilds  \* other bounds

ASSUME UriAssumption == Uri # {}
ASSUME TextAssumption == Absent \notin Text
ASSUME NoneAssumption ==
    /\ None \notin Nat \cup Handle
    /\ \A version \in 0 .. MaxVersion, text \in Text :
          None # [version |-> version, text |-> text]
ASSUME DiskAssumption == Disk \in [Uri -> Text \cup {Absent}]
ASSUME ModelAssumption == NoModel \notin Model
ASSUME ContextAssumption ==
    ContextOf \in [Model \cup {NoModel} -> [Uri -> Bucket]]
ASSUME TaskAssumption ==
    /\ IsFiniteSet(Task)
    /\ Task \cap {"handler", "closer", "watcher", "request", "rebuild"} = {}
\* A handle is an id of the Salsa database, which does not run out of them:
\* there are more than writers, the reindex and salsa_files can refer to.
ASSUME HandleAssumption ==
    IsFiniteSet(Handle) => Cardinality(Handle) > Cardinality(Task) + 6
ASSUME PromptAssumption == Prompt \in BOOLEAN
ASSUME BoundAssumption ==
    /\ MaxVersion \in Nat /\ MaxSaves \in Nat /\ MaxCloses \in Nat
    /\ MaxJobs \in Nat /\ MaxRequests \in Nat /\ MaxRebuilds \in Nat

VARIABLES
    documents,   \* DocumentStore: None or [version, text]
    pending,     \* pending_document_reindex_versions
    files,       \* salsa_files: uri -> handle
    content,     \* the content input of each Salsa file: uri -> handle -> text
    model,       \* published model
    classes,     \* published index: bucket -> uri -> text it was taken from
    writer,      \* the writers at work, by name
    rebuild,     \* the full reindex
    overlapped,  \* history: the writers at work that met another one
    serial,      \* history: the last writer of the entry met no other
    dropped,     \* history: a task took away the version another waits for
    saves, closes, jobs, requests, rebuilds  \* what the bounds count

docVars   == <<documents, pending, dropped>>
salsaVars == <<files, content>>
indexVars == <<model, classes, serial>>
counters  == <<saves, closes, jobs, requests, rebuilds>>
vars == <<docVars, salsaVars, indexVars, writer, rebuild, overlapped, counters>>

Models  == Model \cup {NoModel}
Content == Text \cup {Absent}

\* Who writes: the LSP task (inline reindex), the debounced tasks, the
\* reconciliation of a closed document, the watcher; and request workers,
\* which only write Salsa files.
Writer == {"handler", "closer", "watcher", "request"} \cup Task

Pc == {"off", "asleep", "begin", "sync", "context", "extract", "update",
       "settle", "clear", "check", "guard", "resolve", "upsert", "forget"}

TypeOK ==
    /\ documents \in [Uri -> [version: 0 .. MaxVersion, text: Text] \cup {None}]
    /\ pending \in [Uri -> 0 .. MaxVersion \cup {None}]
    /\ files \in [Uri -> Handle \cup {None}]
    /\ content \in [Uri -> [Handle -> Content]]
    /\ model \in Models
    /\ classes \in [Bucket -> [Uri -> Content]]
    /\ writer \in [Writer -> [pc: Pc, uri: Uri, version: 0 .. MaxVersion,
                              text: Content, file: Handle \cup {None},
                              bucket: Bucket]]
    /\ rebuild \in [pc: {"off", "scan", "inputs", "read", "overlay", "reapply",
                         "reread", "prune", "replace"},
                    target: Models, index: [Uri -> Content],
                    open: [Uri -> Content], file: [Uri -> Handle \cup {None}]]
    /\ overlapped \subseteq (Writer \X Uri) \cup ({"rebuild"} \X Uri)
    /\ serial \in [Uri -> BOOLEAN] /\ dropped \in [Uri -> BOOLEAN]
    /\ saves \in Nat /\ closes \in Nat /\ jobs \in Nat /\ requests \in Nat
    /\ rebuilds \in Nat

-----------------------------------------------------------------------------
Off(u) == [pc |-> "off", uri |-> u, version |-> 0, text |-> Absent,
           file |-> None, bucket |-> ContextOf[NoModel][u]]
AnyUri == CHOOSE u \in Uri : TRUE
Nothing == [u \in Uri |-> Absent]
NoRebuild == [pc |-> "off", target |-> NoModel, index |-> Nothing,
              open |-> Nothing, file |-> [u \in Uri |-> None]]

Open(u) == documents[u] # None
OpenTexts == [u \in Uri |-> IF Open(u) THEN documents[u].text ELSE Absent]

Init ==
    /\ documents = [u \in Uri |-> None]
    /\ pending = [u \in Uri |-> None]
    /\ files = [u \in Uri |-> None]
    /\ content = [u \in Uri |-> [h \in Handle |-> Absent]]
    /\ model \in Models
    /\ classes = [b \in Bucket |-> [u \in Uri |->
                    IF b = ContextOf[model][u] THEN Disk[u] ELSE Absent]]
    /\ writer = [w \in Writer |-> Off(AnyUri)]
    /\ rebuild = NoRebuild
    /\ overlapped = {}
    /\ serial = [u \in Uri |-> TRUE] /\ dropped = [u \in Uri |-> FALSE]
    /\ saves = 0 /\ closes = 0 /\ jobs = 0 /\ requests = 0 /\ rebuilds = 0

-----------------------------------------------------------------------------
(* Writers: program counter, and the history of who met whom               *)

\* Who is between its look at u's document and its update of u's entry.  A
\* full reindex looks when it takes its last snapshot of the open documents.
Writing(u) ==
    {w \in Writer : /\ writer[w].uri = u
                    /\ writer[w].pc \notin {"off", "asleep", "begin", "settle",
                                            "clear", "check", "guard"}}
    \cup {r \in {"rebuild"} :
            \/ rebuild.pc \in {"reapply", "reread", "prune", "replace"}
            \/ (rebuild.pc = "read" /\ rebuild.target = NoModel)}

\* w starts to write the documents us: it meets whoever is at them.
Enter(w, us) ==
    LET Others(u) == Writing(u) \ {w}
        met == UNION {{<<x, u>> : x \in Others(u) \cup {w}} :
                        u \in {v \in us : Others(v) # {}}}
    IN overlapped' = {p \in overlapped : p[1] # w} \cup met

Step(w, pc) == writer' = [writer EXCEPT ![w].pc = pc]
Stop(w) == writer' = [writer EXCEPT ![w] = Off(AnyUri)]

\* WorkspaceIndexHandle::update: the entry changes in the index published
\* now, in the bucket the writer has resolved.
UpdateIndex(w, text) ==
    LET u == writer[w].uri
        b == writer[w].bucket
    IN /\ classes' = [classes EXCEPT ![b][u] = text]
       /\ serial' = [serial EXCEPT ![u] = <<w, u>> \notin overlapped]

\* A handle of u that nobody refers to.
Fresh(u) ==
    CHOOSE h \in Handle : /\ h # files[u]
                          /\ h # rebuild.file[u]
                          /\ \A w \in Writer :
                                writer[w].uri = u => writer[w].file # h

FileOf(u) == IF files[u] = None THEN Fresh(u) ELSE files[u]

\* get_or_update_salsa_file_for_snapshot, get_or_create_salsa_file: the file
\* of every u with a text gets that text as its content.
SyncSalsa(texts) ==
    LET wanted == {u \in Uri : texts[u] # Absent} IN
    /\ files' = [u \in Uri |-> IF u \in wanted THEN FileOf(u) ELSE files[u]]
    /\ content' = [u \in Uri |->
                     IF u \in wanted THEN [content[u] EXCEPT ![FileOf(u)] = texts[u]]
                     ELSE content[u]]

Only(u, text) == [Nothing EXCEPT ![u] = text]

-----------------------------------------------------------------------------
(* Notification handlers                                                   *)

\* The LSP task is free: no inline reindex is under way.
HandlerFree == writer["handler"].pc = "off"

\* did_open and did_save reindex on the LSP task: snapshot, then the steps
\* of reindex_document_from_workspace.
ReindexInline(u, text) ==
    /\ writer' = [writer EXCEPT !["handler"] =
                    [Off(u) EXCEPT !.pc = "sync", !.text = text]]
    /\ Enter("handler", {u})

DidOpen(u, text) ==
    /\ HandlerFree
    /\ ~Open(u)
    /\ documents' = [documents EXCEPT ![u] = [version |-> 0, text |-> text]]
    /\ dropped' = [dropped EXCEPT ![u] = FALSE]
    /\ ReindexInline(u, text)
    /\ UNCHANGED <<pending, salsaVars, indexVars, rebuild, counters>>

\* Variant: a change does not replace the version that is pending already.
DidChangeKeepsPending(u, text, t) ==
    LET version == documents[u].version + 1 IN
    /\ HandlerFree
    /\ Open(u)
    /\ version <= MaxVersion
    /\ writer[t].pc = "off"
    /\ documents' = [documents EXCEPT ![u] = [version |-> version, text |-> text]]
    /\ pending' = [pending EXCEPT ![u] = IF @ = None THEN version ELSE @]
    /\ writer' = [writer EXCEPT ![t] =
                    [Off(u) EXCEPT !.pc = "asleep", !.version = version]]
    /\ dropped' = [dropped EXCEPT ![u] = FALSE]
    /\ UNCHANGED <<salsaVars, indexVars, rebuild, overlapped, counters>>

\* did_change replaces the source, then schedule_did_change_reindex.
DidChange(u, text, t) ==
    LET version == documents[u].version + 1 IN
    /\ HandlerFree
    /\ Open(u)
    /\ version <= MaxVersion
    /\ writer[t].pc = "off"
    /\ documents' = [documents EXCEPT ![u] = [version |-> version, text |-> text]]
    /\ pending' = [pending EXCEPT ![u] = version]
    /\ writer' = [writer EXCEPT ![t] =
                    [Off(u) EXCEPT !.pc = "asleep", !.version = version]]
    /\ dropped' = [dropped EXCEPT ![u] = FALSE]
    /\ UNCHANGED <<salsaVars, indexVars, rebuild, overlapped, counters>>

\* Variant: a save makes a version of its own.
DidSaveBumps(u, text) ==
    /\ HandlerFree
    /\ Open(u)
    /\ saves < MaxSaves
    /\ saves' = saves + 1
    /\ documents' = [documents EXCEPT ![u] = [version |-> @.version + 1,
                                             text |-> text]]
    /\ dropped' = [dropped EXCEPT ![u] = FALSE]
    /\ ReindexInline(u, text)
    /\ UNCHANGED <<pending, salsaVars, indexVars, rebuild, closes, jobs,
                   requests, rebuilds>>

\* did_save takes the text the client sends, if any, under the old version.
DidSave(u, text) ==
    /\ HandlerFree
    /\ Open(u)
    /\ saves < MaxSaves
    /\ saves' = saves + 1
    /\ documents' = [documents EXCEPT ![u].text = text]
    /\ dropped' = [dropped EXCEPT ![u] = FALSE]
    /\ ReindexInline(u, text)
    /\ UNCHANGED <<pending, salsaVars, indexVars, rebuild, closes, jobs,
                   requests, rebuilds>>

\* did_close drops the document and reconciles it with the disk.
DidClose(u) ==
    /\ HandlerFree
    /\ Open(u)
    /\ closes < MaxCloses
    /\ closes' = closes + 1
    /\ writer["closer"].pc = "off"
    /\ documents' = [documents EXCEPT ![u] = None]
    /\ writer' = [writer EXCEPT !["closer"] = [Off(u) EXCEPT !.pc = "check"]]
    /\ UNCHANGED <<pending, dropped, salsaVars, indexVars, rebuild, overlapped,
                   saves, jobs, requests, rebuilds>>

-----------------------------------------------------------------------------
(* The debounced task and reindex_document_from_workspace                  *)

\* The sleep is over.  A newer change, or a document at another version,
\* makes the task return.
Wake(t) ==
    LET u == writer[t].uri
        v == writer[t].version
    IN
    /\ writer[t].pc = "asleep"
    /\ Prompt => \A x \in Task \ {t} :
          writer[x].uri = u => writer[x].pc \in {"off", "asleep"}
    /\ IF pending[u] = v /\ Open(u) /\ documents[u].version = v
       THEN Step(t, "begin")
       ELSE Stop(t)
    /\ UNCHANGED <<docVars, salsaVars, indexVars, rebuild, overlapped, counters>>

\* document_snapshot, on the blocking thread.
TakeSnapshot(t) ==
    LET u == writer[t].uri IN
    /\ writer[t].pc = "begin"
    /\ IF Open(u)
       THEN /\ writer' = [writer EXCEPT ![t].pc = "sync",
                                        ![t].text = documents[u].text]
            /\ Enter(t, {u})
       ELSE /\ Step(t, "settle")
            /\ UNCHANGED overlapped
    /\ UNCHANGED <<docVars, salsaVars, indexVars, rebuild, counters>>

\* Variant: a Salsa file that exists already is used as it is.
SyncNewFile(w) ==
    LET u == writer[w].uri IN
    /\ writer[w].pc = "sync"
    /\ SyncSalsa(IF files[u] = None THEN Only(u, writer[w].text) ELSE Nothing)
    /\ IF w = "request" THEN Stop(w)
       ELSE writer' = [writer EXCEPT ![w].pc = "context", ![w].file = FileOf(u)]
    /\ UNCHANGED <<docVars, indexVars, rebuild, overlapped, counters>>

\* The Salsa file takes the snapshot's text.
SyncFile(w) ==
    LET u == writer[w].uri IN
    /\ writer[w].pc = "sync"
    /\ SyncSalsa(Only(u, writer[w].text))
    /\ IF w = "request" THEN Stop(w)
       ELSE writer' = [writer EXCEPT ![w].pc = "context", ![w].file = FileOf(u)]
    /\ UNCHANGED <<docVars, indexVars, rebuild, overlapped, counters>>

\* analysis_context_for_uri, under the model published now.
TakeContext(w) ==
    /\ writer[w].pc = "context"
    /\ writer' = [writer EXCEPT ![w].pc = "extract",
                    ![w].bucket = ContextOf[model][writer[w].uri]]
    /\ UNCHANGED <<docVars, salsaVars, indexVars, rebuild, overlapped, counters>>

\* The classes are extracted from what the Salsa file holds now.
Extract(w) ==
    /\ writer[w].pc = "extract"
    /\ writer' = [writer EXCEPT ![w].pc = "update",
                    ![w].text = content[writer[w].uri][writer[w].file]]
    /\ UNCHANGED <<docVars, salsaVars, indexVars, rebuild, overlapped, counters>>

UpdateEntry(w) ==
    /\ writer[w].pc = "update"
    /\ UpdateIndex(w, writer[w].text)
    /\ IF w \in Task THEN Step(w, "settle") ELSE Stop(w)
    /\ UNCHANGED <<docVars, salsaVars, model, rebuild, overlapped, counters>>

\* Back on the task: is the version still the pending one? ...
CheckPending(t) ==
    /\ writer[t].pc = "settle"
    /\ IF pending[writer[t].uri] = writer[t].version THEN Step(t, "clear")
       ELSE Stop(t)
    /\ UNCHANGED <<docVars, salsaVars, indexVars, rebuild, overlapped, counters>>

\* The tasks that wait for the pending version.
Waiting(u) ==
    {t \in Task : /\ writer[t].pc = "asleep" /\ writer[t].uri = u
                  /\ writer[t].version = pending[u]}

\* ... then what is pending by now is removed: the check has let go of the map.
ClearPending(t) ==
    LET u == writer[t].uri IN
    /\ writer[t].pc = "clear"
    /\ pending' = [pending EXCEPT ![u] = None]
    /\ dropped' = [dropped EXCEPT ![u] = @ \/ Waiting(u) # {}]
    /\ Stop(t)
    /\ UNCHANGED <<documents, salsaVars, indexVars, rebuild, overlapped, counters>>

-----------------------------------------------------------------------------
(* Closed documents and the watcher                                        *)

\* Variant: a closed document is left to the watcher.
ReconcileNothing ==
    /\ writer["closer"].pc = "check"
    /\ Stop("closer")
    /\ UNCHANGED <<docVars, salsaVars, indexVars, rebuild, overlapped, counters>>

\* reconcile_closed_document_blocking: a path that is gone is forgotten
\* without a further look at the documents.
Reconcile ==
    LET u == writer["closer"].uri IN
    /\ writer["closer"].pc = "check"
    /\ IF Open(u)
       THEN Stop("closer") /\ UNCHANGED overlapped
       ELSE IF Disk[u] = Absent
       THEN Step("closer", "resolve") /\ Enter("closer", {u})
       ELSE Step("closer", "guard") /\ UNCHANGED overlapped
    /\ UNCHANGED <<docVars, salsaVars, indexVars, rebuild, counters>>

\* The watcher takes up a change of u's path.
WatchJob(u) ==
    /\ jobs < MaxJobs
    /\ jobs' = jobs + 1
    /\ writer["watcher"].pc = "off"
    /\ writer' = [writer EXCEPT !["watcher"] = [Off(u) EXCEPT !.pc = "guard"]]
    /\ UNCHANGED <<docVars, salsaVars, indexVars, rebuild, overlapped, saves,
                   closes, requests, rebuilds>>

\* Variant: the disk is applied whether or not the document is open.
GuardNothing(w) ==
    /\ writer[w].pc = "guard"
    /\ Step(w, "resolve") /\ Enter(w, {writer[w].uri})
    /\ UNCHANGED <<docVars, salsaVars, indexVars, rebuild, counters>>

\* upsert_disk_source_path_blocking, remove_disk_source_path_blocking: an
\* open document is skipped.
Guard(w) ==
    LET u == writer[w].uri IN
    /\ writer[w].pc = "guard"
    /\ IF Open(u)
       THEN Stop(w) /\ UNCHANGED overlapped
       ELSE Step(w, "resolve") /\ Enter(w, {u})
    /\ UNCHANGED <<docVars, salsaVars, indexVars, rebuild, counters>>

\* They take the model and read the disk ...
Resolve(w) ==
    LET u == writer[w].uri IN
    /\ writer[w].pc = "resolve"
    /\ writer' = [writer EXCEPT ![w].pc = "upsert", ![w].text = Disk[u],
                                ![w].bucket = ContextOf[model][u]]
    /\ UNCHANGED <<docVars, salsaVars, indexVars, rebuild, overlapped, counters>>

\* ... update the index (or remove the origin) ...
Upsert(w) ==
    /\ writer[w].pc = "upsert"
    /\ UpdateIndex(w, writer[w].text)
    /\ Step(w, "forget")
    /\ UNCHANGED <<docVars, salsaVars, model, rebuild, overlapped, counters>>

\* ... and drop the Salsa file.
Forget(w) ==
    /\ writer[w].pc = "forget"
    /\ files' = [files EXCEPT ![writer[w].uri] = None]
    /\ Stop(w)
    /\ UNCHANGED <<docVars, content, indexVars, rebuild, overlapped, counters>>

\* A request worker takes a snapshot; SyncFile then syncs the Salsa file.
Request(u) ==
    /\ requests < MaxRequests
    /\ requests' = requests + 1
    /\ writer["request"].pc = "off"
    /\ Open(u)
    /\ writer' = [writer EXCEPT !["request"] =
                    [Off(u) EXCEPT !.pc = "sync", !.text = documents[u].text]]
    /\ Enter("request", {u})
    /\ UNCHANGED <<docVars, salsaVars, indexVars, rebuild, saves, closes, jobs,
                   rebuilds>>

-----------------------------------------------------------------------------
(* The full reindex: apply_workspace_model(m), index_fallback_root         *)

RebuildGoto(pc) == rebuild' = [rebuild EXCEPT !.pc = pc]

RebuildBegin(m) ==
    /\ rebuild.pc = "off"
    /\ rebuilds < MaxRebuilds
    /\ rebuilds' = rebuilds + 1
    /\ rebuild' = [NoRebuild EXCEPT !.pc = "scan", !.target = m,
                                    !.open = OpenTexts]
    /\ UNCHANGED <<docVars, salsaVars, indexVars, writer, overlapped, saves,
                   closes, jobs, requests>>

\* The files on disk, under the documents that were open at the start
\* (overlay_open_document_inputs).
RebuildScan ==
    /\ rebuild.pc = "scan"
    /\ rebuild' = [rebuild EXCEPT
         !.pc = "inputs",
         !.index = [u \in Uri |->
            IF Disk[u] # Absent /\ rebuild.open[u] # Absent THEN rebuild.open[u]
            ELSE Disk[u]]]
    /\ UNCHANGED <<docVars, salsaVars, indexVars, writer, overlapped, counters>>

\* Sync the Salsa files of the documents with a text, and keep the handles.
SyncOpen(texts, pc) ==
    /\ SyncSalsa(texts)
    /\ rebuild' = [rebuild EXCEPT
         !.pc = pc, !.open = Nothing,
         !.file = [u \in Uri |-> IF texts[u] = Absent THEN None ELSE FileOf(u)]]

\* Index the classes the kept files declare by now.
ReadOpen(pc) ==
    rebuild' = [rebuild EXCEPT
      !.pc = pc, !.file = [u \in Uri |-> None],
      !.index = [u \in Uri |-> IF rebuild.file[u] = None THEN @[u]
                               ELSE content[u][rebuild.file[u]]]]

\* index_source_inputs_with_shared_salsa: each input that is open by now is
\* taken from its document.  For the fallback index this is the last look.
RebuildInputs ==
    /\ rebuild.pc = "inputs"
    /\ SyncOpen([u \in Uri |-> IF rebuild.index[u] = Absent THEN Absent
                               ELSE OpenTexts[u]], "read")
    /\ IF rebuild.target = NoModel THEN Enter("rebuild", Uri)
       ELSE UNCHANGED overlapped
    /\ UNCHANGED <<docVars, indexVars, writer, counters>>

RebuildRead ==
    /\ rebuild.pc = "read"
    /\ ReadOpen(IF rebuild.target = NoModel THEN "prune" ELSE "overlay")
    /\ UNCHANGED <<docVars, salsaVars, indexVars, writer, overlapped, counters>>

\* The open documents are looked at once more ...
RebuildOverlay ==
    /\ rebuild.pc = "overlay"
    /\ rebuild' = [rebuild EXCEPT !.pc = "reapply", !.open = OpenTexts]
    /\ Enter("rebuild", Uri)
    /\ UNCHANGED <<docVars, salsaVars, indexVars, writer, counters>>

\* Variant: only the files found on disk are indexed.
ReapplyNothing ==
    /\ rebuild.pc = "reapply"
    /\ RebuildGoto("prune")
    /\ UNCHANGED <<docVars, salsaVars, indexVars, writer, overlapped, counters>>

\* ... and indexed through their Salsa files, on disk or not.
RebuildReapply ==
    /\ rebuild.pc = "reapply"
    /\ SyncOpen(rebuild.open, "reread")
    /\ UNCHANGED <<docVars, indexVars, writer, overlapped, counters>>

RebuildReread ==
    /\ rebuild.pc = "reread"
    /\ ReadOpen("prune")
    /\ UNCHANGED <<docVars, salsaVars, indexVars, writer, overlapped, counters>>

\* prune_indexed_salsa_files: closed documents lose their Salsa file.
RebuildPrune ==
    /\ rebuild.pc = "prune"
    /\ files' = [u \in Uri |-> IF Open(u) THEN files[u] ELSE None]
    /\ RebuildGoto("replace")
    /\ UNCHANGED <<docVars, content, indexVars, writer, overlapped, counters>>

RebuildReplace ==
    /\ rebuild.pc = "replace"
    /\ model' = rebuild.target
    /\ classes' = [b \in Bucket |-> [u \in Uri |->
                     IF b = ContextOf[rebuild.target][u] THEN rebuild.index[u]
                     ELSE Absent]]
    /\ serial' = [u \in Uri |-> <<"rebuild", u>> \notin overlapped]
    /\ rebuild' = NoRebuild
    /\ UNCHANGED <<docVars, salsaVars, writer, overlapped, counters>>

-----------------------------------------------------------------------------
Client ==
    \/ \E u \in Uri, text \in Text : DidOpen(u, text)
    \/ \E u \in Uri, text \in Text, t \in Task : DidChange(u, text, t)
    \/ \E u \in Uri, text \in Text : DidSave(u, text)
    \/ \E u \in Uri : DidClose(u)
    \/ \E u \in Uri : WatchJob(u)
    \/ \E u \in Uri : Request(u)

Background ==
    \/ \E t \in Task : Wake(t)
    \/ \E t \in Task : TakeSnapshot(t)
    \/ \E w \in Writer : SyncFile(w)
    \/ \E w \in Writer : TakeContext(w)
    \/ \E w \in Writer : Extract(w)
    \/ \E w \in Writer : UpdateEntry(w)
    \/ \E t \in Task : CheckPending(t)
    \/ \E t \in Task : ClearPending(t)
    \/ Reconcile
    \/ \E w \in {"closer", "watcher"} : Guard(w)
    \/ \E w \in {"closer", "watcher"} : Resolve(w)
    \/ \E w \in {"closer", "watcher"} : Upsert(w)
    \/ \E w \in {"closer", "watcher"} : Forget(w)

Rebuild ==
    \/ \E m \in Models : RebuildBegin(m)
    \/ RebuildScan
    \/ RebuildInputs
    \/ RebuildRead
    \/ RebuildOverlay
    \/ RebuildReapply
    \/ RebuildReread
    \/ RebuildPrune
    \/ RebuildReplace

Next == Client \/ Background \/ Rebuild

Spec == Init /\ [][Next]_vars

\* Threads run on, sleeps end; nothing is assumed of the client.
FairSpec == Spec /\ WF_vars(Background) /\ WF_vars(Rebuild /\ rebuild.pc # "off")

-----------------------------------------------------------------------------
(* Properties                                                              *)

\* Nobody is at work.
Settled == rebuild.pc = "off" /\ \A w \in Writer : writer[w].pc = "off"

Shown(u) == classes[ContextOf[model][u]][u]

\* Open-document text is authoritative: when nobody is at work, the index
\* shows the text of every open document, not the disk and not an older text.
OpenTextShown ==
    Settled => \A u \in Uri : Open(u) => Shown(u) = documents[u].text

\* The same of the edits whose version was not taken away from the task that
\* waits for it (schedule_did_change_reindex).
KeptEditsShown ==
    Settled => \A u \in Uri :
        Open(u) /\ ~dropped[u] => Shown(u) = documents[u].text

\* A reindex without a build tool has left the document out: its path is not
\* among the files on disk (index_fallback_root).
LeftOut(u) == rebuilds > 0 /\ model = NoModel /\ Disk[u] = Absent

\* Handlers, reindexes, reconciliations, watcher jobs and full reindexes that
\* do not run into each other keep open documents authoritative, whatever
\* changes between their steps: the last writer to touch the entry met no
\* other one, and no task took away the version another one waits for
\* (schedule_did_change_reindex).
SerialWritersShowOpenText ==
    Settled => \A u \in Uri :
        Open(u) /\ serial[u] /\ ~dropped[u] /\ ~LeftOut(u)
            => Shown(u) = documents[u].text

\* Once a document is closed, its entry goes back to what the disk holds.  A
\* full reindex may publish the text it had taken as overlay before the close
\* (apply_workspace_model), so there must not have been one.
ClosedTextShown ==
    Settled /\ rebuilds = 0 => \A u \in Uri :
        ~Open(u) /\ serial[u] => Shown(u) = Disk[u]

\* A document that is left alone is eventually shown, and stays shown: the
\* debounce skips superseded versions and never the last one.
LastEditShown ==
    \A u \in Uri : \A text \in Text :
        <>[](Open(u) /\ documents[u].text = text /\ ~dropped[u])
            => <>[](Shown(u) = text)
=============================================================================
