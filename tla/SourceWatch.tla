----------------------------- MODULE SourceWatch -----------------------------
(***************************************************************************)
(* Closed source files: how a change on disk reaches the published index.  *)
(*                                                                         *)
(*  - the watcher task of src/fs_watcher.rs, in its notify form and in its *)
(*    polling form (Polling), with apply_workspace_changes;                *)
(*  - the full reindex of src/workspace.rs (apply_workspace_model and      *)
(*    index_fallback_root), which scans the disk, replaces the index and   *)
(*    is announced by a counter and a serial number.  One reload loop      *)
(*    drives it, so at most one is under way;                              *)
(*  - the per-file upsert and removal the watcher runs on a blocking       *)
(*    thread, each a chain of separate reads and updates.                  *)
(*                                                                         *)
(* No document is open here, so every "is it open?" test answers no;       *)
(* module OpenDocuments has those tests.                                   *)
(***************************************************************************)
EXTENDS Naturals, Sequences, FiniteSets

CONSTANTS
    Uri,          \* the source files under the workspace root
    Text,         \* file contents
    Classless,    \* contents no class is extracted from (an emptied file)
    Unreadable,   \* contents read_to_string refuses (not UTF-8)
    Absent,       \* no such file; no classes of this origin in a bucket
    Model,        \* the workspace models an import may deliver
    NoModel,      \* the model of the fallback index
    Covers,       \* the files under the source roots of each model
    Bucket,       \* (module, source root) pairs
    ContextOf,    \* resolve_analysis_context_for_snapshot: model, file -> bucket
    Polling,      \* TRUE: the notify backend failed to start
    MaxWrites,    \* bound: changes made on disk
    MaxRebuilds,  \* bound: full reindexes
    MaxErrors     \* bound: watcher errors that lose events

ASSUME UriAssumption == Uri # {}
ASSUME TextAssumption == Absent \notin Text /\ Absent \notin Nat
ASSUME SubsetAssumption == Classless \subseteq Text /\ Unreadable \subseteq Text
ASSUME ModelAssumption == NoModel \notin Model
ASSUME CoversAssumption == Covers \in [Model -> SUBSET Uri]
ASSUME ContextAssumption ==
    ContextOf \in [Model \cup {NoModel} -> [Uri -> Bucket]]
ASSUME PollingAssumption == Polling \in BOOLEAN
ASSUME BoundAssumption ==
    MaxWrites \in Nat /\ MaxRebuilds \in Nat /\ MaxErrors \in Nat

VARIABLES
    disk,          \* what each file holds
    modified,      \* its modification time (the change that made it)
    gap,           \* history: why a file's last change may not be shown
    events,        \* the channel of debounced notify events
    published_roots, roots_changed,  \* watched_roots_tx: value, unseen
    watched,       \* desired_roots / current_roots of the watcher
    previous,      \* polling: previous_snapshot
    polled,        \* polling: the snapshot being applied
    model,         \* the published model
    classes,       \* the published index: bucket -> file -> its classes
    covered,       \* the files the published full reindex scanned
    tracked,       \* indexed_salsa_uris
    in_progress,   \* full_reindex_in_progress
    serial,        \* full_reindex_serial
    rebuild,       \* the full reindex under way
    watcher,       \* apply_workspace_changes: program counter and locals
    job,           \* the file being removed or upserted
    writes, rebuilds, errors  \* what the bounds count

diskVars  == <<disk, modified, gap, writes>>
rootVars  == <<published_roots, roots_changed, watched>>
pollVars  == <<previous, polled>>
indexVars == <<model, classes, covered, tracked>>
flagVars  == <<in_progress, serial>>
vars == <<diskVars, events, rootVars, pollVars, indexVars, flagVars,
          rebuild, watcher, job, rebuilds, errors>>

Content == Text \cup {Absent}
Models  == Model \cup {NoModel}
Snapshot == [Uri -> Content]
Fingerprints == [Uri -> Nat \cup {Absent}]
Change  == [kind: {"upsert", "remove", "rescan", "error"}, uri: Uri]

\* Why the last change to a file may not reach the index:
\*   unwatched   no watch covered the file when it changed or was handled
\*   emptied     no class is extracted from the new content
\*   unreadable  the new content is not UTF-8
\*   unnamed     the event did not name the file: only a rescan can find it
\*   aborted     another file of the batch failed first
\*   skipped     polling: the change fell between two snapshots
Gap == {"none", "unwatched", "emptied", "unreadable", "unnamed", "aborted",
        "skipped"}

WatcherPc == {"idle", "wait", "serial", "scan", "diff", "apply"}
RebuildPc == {"idle", "counted", "scan", "prune", "replace", "publish",
              "drop", "uncount"}
JobPc     == {"none", "snapshot", "read", "update", "track", "context",
              "remove", "untrack"}

TypeOK ==
    /\ disk \in Snapshot /\ modified \in [Uri -> Nat]
    /\ gap \in [Uri -> Gap]
    /\ events \in Seq(Change)
    /\ published_roots \subseteq Uri /\ roots_changed \in BOOLEAN
    /\ watched \subseteq Uri
    /\ previous \in Fingerprints /\ polled \in Fingerprints
    /\ model \in Models
    /\ classes \in [Bucket -> Snapshot]
    /\ covered \subseteq Uri
    /\ tracked \subseteq Uri
    /\ in_progress \in Nat /\ serial \in Nat
    /\ rebuild \in [pc: RebuildPc, target: Models, unread: SUBSET Uri,
                    inputs: Snapshot]
    /\ watcher \in [pc: WatcherPc, roots: SUBSET Uri, rescan: BOOLEAN,
                    again: BOOLEAN, serial: Nat, current: SUBSET Uri,
                    removals: SUBSET Uri, upserts: SUBSET Uri]
    /\ job \in [pc: JobPc, uri: Uri, model: Models, text: Content]
    /\ writes \in Nat /\ rebuilds \in Nat /\ errors \in Nat

-----------------------------------------------------------------------------
(* What the index holds for a content, and where                           *)

\* The classes extracted from a content: none from an emptied file.
ClassesOf(text) == IF text \in Classless \cup Unreadable THEN Absent ELSE text

\* The files a full reindex for model m scans: its source roots, or the
\* workspace root when there is no model.
ScannedBy(m) == IF m = NoModel THEN Uri ELSE Covers[m]

\* watched_source_roots: the model's source roots, else the workspace root.
WatchedSourceRoots(m) ==
    IF m = NoModel \/ Covers[m] = {} THEN Uri ELSE Covers[m]

\* publish_watched_source_roots: a watch channel keeps the last value.
PublishRoots(m) ==
    /\ published_roots' = WatchedSourceRoots(m)
    /\ roots_changed' = TRUE

\* snapshot_roots: the fingerprint of every file under the roots.
SnapshotRoots(roots) ==
    [u \in Uri |-> IF u \in roots /\ disk[u] # Absent THEN modified[u]
                   ELSE Absent]

NoJob == [pc |-> "none", uri |-> CHOOSE u \in Uri : TRUE, model |-> NoModel,
          text |-> Absent]
NoRebuild == [pc |-> "idle", target |-> NoModel, unread |-> {},
              inputs |-> [u \in Uri |-> Absent]]
Idle == [pc |-> "idle", roots |-> {}, rescan |-> FALSE, again |-> FALSE,
         serial |-> 0, current |-> {}, removals |-> {}, upserts |-> {}]

Init ==
    /\ disk \in Snapshot /\ modified = [u \in Uri |-> 0]
    /\ gap = [u \in Uri |-> "none"]
    /\ events = <<>>
    /\ published_roots = {} /\ roots_changed = FALSE
    /\ watched = {}
    /\ previous = [u \in Uri |-> Absent] /\ polled = [u \in Uri |-> Absent]
    /\ model = NoModel
    /\ classes = [b \in Bucket |-> [u \in Uri |-> Absent]]
    /\ covered = {}
    /\ tracked = {}
    /\ in_progress = 0 /\ serial = 0
    /\ rebuild = NoRebuild
    /\ watcher = Idle
    /\ job = NoJob
    /\ writes = 0 /\ rebuilds = 0 /\ errors = 0

-----------------------------------------------------------------------------
(* The file system and the notify backend                                  *)

\* Events are raised for watched paths only.
Raise(u, change) ==
    events' = IF ~Polling /\ u \in watched THEN Append(events, change)
              ELSE events

\* The gap of a change: `otherwise` when the file is watched.
Watched(u, otherwise) ==
    gap' = [gap EXCEPT ![u] = IF u \in watched THEN otherwise ELSE "unwatched"]

ContentGap(text) == CASE text \in Unreadable -> "unreadable"
                      [] text \in Classless  -> "emptied"
                      [] OTHER               -> "none"

Write(u, text) ==
    /\ writes < MaxWrites
    /\ disk[u] # text
    /\ disk' = [disk EXCEPT ![u] = text]
    /\ modified' = [modified EXCEPT ![u] = writes + 1]
    /\ writes' = writes + 1
    /\ Raise(u, [kind |-> "upsert", uri |-> u])
    /\ Watched(u, ContentGap(text))
    /\ UNCHANGED <<rootVars, pollVars, indexVars, flagVars, rebuild, watcher,
                   job, rebuilds, errors>>

\* Polling: no snapshot the next one is compared with has the file, be it the
\* one that is kept or, once a batch is through, the one it was made from.
Unseen(u) ==
    previous[u] = Absent \/ (watcher.pc # "idle" /\ polled[u] = Absent)

\* The file goes, by itself or with its directory.
Delete(u) ==
    /\ writes < MaxWrites
    /\ disk[u] # Absent
    /\ disk' = [disk EXCEPT ![u] = Absent]
    /\ UNCHANGED modified
    /\ writes' = writes + 1
    /\ \/ /\ Raise(u, [kind |-> "remove", uri |-> u])
          /\ Watched(u, IF Polling /\ Unseen(u) THEN "skipped" ELSE "none")
       \/ /\ ~Polling
          /\ Raise(u, [kind |-> "rescan", uri |-> u])
          /\ Watched(u, "unnamed")
    /\ UNCHANGED <<rootVars, pollVars, indexVars, flagVars, rebuild, watcher,
                   job, rebuilds, errors>>

\* Changes that were reported so far get a gap.
Mark(files, why) ==
    gap' = [u \in Uri |-> IF u \in files /\ gap[u] \in {"none", "unnamed"}
                          THEN why ELSE gap[u]]

\* The files named by what the backend reported; an error names none.
NamedBy(changes) == {c.uri : c \in {d \in changes : d.kind # "error"}}

\* The backend loses what it has not delivered and reports an error.
WatchError ==
    /\ ~Polling
    /\ errors < MaxErrors
    /\ errors' = errors + 1
    /\ Mark(NamedBy({events[i] : i \in 1 .. Len(events)}), "unnamed")
    /\ events' = << [kind |-> "error", uri |-> NoJob.uri] >>
    /\ UNCHANGED <<disk, modified, writes, rootVars, pollVars, indexVars, flagVars, rebuild,
                   watcher, job, rebuilds>>

-----------------------------------------------------------------------------
(* The watcher loop                                                        *)

\* run_notify_loop, roots_rx.changed(): the watched paths follow the roots.
RootsChanged ==
    /\ watcher.pc = "idle"
    /\ roots_changed
    /\ watched' = published_roots
    /\ roots_changed' = FALSE
    /\ IF Polling
       THEN /\ previous' = SnapshotRoots(published_roots)
            /\ Mark({u \in Uri : previous[u] # SnapshotRoots(Uri)[u]},
                    "skipped")
       ELSE UNCHANGED <<previous, gap>>
    /\ UNCHANGED <<disk, modified, writes, events, published_roots, polled, indexVars,
                   flagVars, rebuild, watcher, job, rebuilds, errors>>

Start(rescan, removals, upserts) ==
    watcher' = [Idle EXCEPT !.pc = "wait", !.roots = watched,
                            !.rescan = rescan, !.removals = removals,
                            !.upserts = upserts]

\* run_notify_loop, event_rx.recv(): a batch is what one debounce window
\* gathered; paths outside the roots are dropped, a rescan request wins.
ReceiveBatch(n) ==
    LET batch == {events[i] : i \in 1 .. n}
        Named(kind) == {u \in Uri : [kind |-> kind, uri |-> u] \in batch}
        named  == NamedBy(batch)
        later  == NamedBy({events[i] : i \in n + 1 .. Len(events)})
        error  == Named("error") # {}
        rescan == error \/ Named("rescan") \cap watched # {}
    IN
    /\ ~Polling
    /\ watcher.pc = "idle"
    /\ n <= Len(events)
    /\ events' = SubSeq(events, n + 1, Len(events))
    /\ IF watched # {} /\ (rescan \/ named \cap watched # {})
       THEN Start(rescan, Named("remove") \cap watched,
                  Named("upsert") \cap watched)
       ELSE UNCHANGED watcher
    /\ gap' = [u \in Uri |->
                 IF u \notin watched /\ (error \/ u \in named) THEN "unwatched"
                 ELSE IF rescan /\ u \in named \ later /\ gap[u] = "none" THEN "unnamed"
                 ELSE gap[u]]
    /\ UNCHANGED <<disk, modified, writes, rootVars, pollVars, indexVars,
                   flagVars, rebuild, job, rebuilds, errors>>

\* run_polling_fallback_loop, interval.tick(): diff_snapshots of two scans.
PollTick ==
    LET current == SnapshotRoots(watched)
        removed == {u \in Uri : previous[u] # Absent /\ current[u] = Absent}
        changed == {u \in Uri : current[u] # Absent /\ previous[u] # current[u]}
    IN
    /\ Polling
    /\ watcher.pc = "idle"
    /\ watched # {}
    /\ removed \cup changed # {}
    /\ polled' = current
    /\ Start(FALSE, removed, changed)
    /\ UNCHANGED <<diskVars, events, rootVars, previous, indexVars, flagVars,
                   rebuild, job, rebuilds, errors>>

-----------------------------------------------------------------------------
(* apply_workspace_changes                                                 *)

Goto(pc) == watcher' = [watcher EXCEPT !.pc = pc]

\* Variant: the changes are applied without waiting.
DoNotWait ==
    /\ watcher.pc = "wait"
    /\ Goto(IF watcher.again THEN "scan" ELSE "serial")
    /\ UNCHANGED <<diskVars, events, rootVars, pollVars, indexVars, flagVars,
                   rebuild, job, rebuilds, errors>>

\* wait_for_full_reindex: polls until no full reindex is in progress.
WaitForFullReindex ==
    /\ watcher.pc = "wait"
    /\ in_progress = 0
    /\ Goto(IF watcher.again THEN "scan" ELSE "serial")
    /\ UNCHANGED <<diskVars, events, rootVars, pollVars, indexVars, flagVars,
                   rebuild, job, rebuilds, errors>>

\* The serial is read before the changes are applied.
ReadSerial ==
    /\ watcher.pc = "serial"
    /\ watcher' = [watcher EXCEPT
                     !.serial = serial,
                     !.pc = IF watcher.rescan THEN "scan" ELSE "apply"]
    /\ UNCHANGED <<diskVars, events, rootVars, pollVars, indexVars, flagVars,
                   rebuild, job, rebuilds, errors>>

\* rescan_watched_roots_blocking: first the files under the roots ...
RescanCollect ==
    /\ watcher.pc = "scan"
    /\ watcher' = [watcher EXCEPT
                     !.pc = "diff",
                     !.current = {u \in watcher.roots : disk[u] # Absent}]
    /\ UNCHANGED <<diskVars, events, rootVars, pollVars, indexVars, flagVars,
                   rebuild, job, rebuilds, errors>>

\* Variant: a rescan only looks at the files that exist.
RescanDiffKeepsDeleted ==
    /\ watcher.pc = "diff"
    /\ watcher' = [watcher EXCEPT !.pc = "apply", !.removals = {},
                                  !.upserts = watcher.current]
    /\ UNCHANGED <<diskVars, events, rootVars, pollVars, indexVars, flagVars,
                   rebuild, job, rebuilds, errors>>

\* ... then the tracked files that are no longer among them.
RescanDiff ==
    /\ watcher.pc = "diff"
    /\ watcher' = [watcher EXCEPT
                     !.pc = "apply",
                     !.removals = (tracked \cap watcher.roots) \ watcher.current,
                     !.upserts = watcher.current]
    /\ UNCHANGED <<diskVars, events, rootVars, pollVars, indexVars, flagVars,
                   rebuild, job, rebuilds, errors>>

\* All changes are applied: a serial that moved asks for a rescan, once.
FinishApply ==
    /\ watcher.pc = "apply"
    /\ job.pc = "none"
    /\ watcher.removals \cup watcher.upserts = {}
    /\ IF ~watcher.again /\ serial # watcher.serial
       THEN /\ watcher' = [watcher EXCEPT !.pc = "wait", !.again = TRUE]
            /\ UNCHANGED previous
       ELSE /\ watcher' = Idle
            /\ previous' = IF Polling THEN polled ELSE previous
    /\ UNCHANGED <<diskVars, events, rootVars, polled, indexVars, flagVars,
                   rebuild, job, rebuilds, errors>>

-----------------------------------------------------------------------------
(* apply_filesystem_changes_blocking: removals, then upserts               *)

BeginJob(pc, u) == job' = [NoJob EXCEPT !.pc = pc, !.uri = u]

NextRemoval(u) ==
    /\ watcher.pc = "apply" /\ job.pc = "none"
    /\ u \in watcher.removals
    /\ watcher' = [watcher EXCEPT !.removals = @ \ {u}]
    /\ BeginJob("context", u)
    /\ UNCHANGED <<diskVars, events, rootVars, pollVars, indexVars, flagVars,
                   rebuild, rebuilds, errors>>

NextUpsert(u) ==
    /\ watcher.pc = "apply" /\ job.pc = "none"
    /\ watcher.removals = {}
    /\ u \in watcher.upserts
    /\ watcher' = [watcher EXCEPT !.upserts = @ \ {u}]
    /\ BeginJob("snapshot", u)
    /\ UNCHANGED <<diskVars, events, rootVars, pollVars, indexVars, flagVars,
                   rebuild, rebuilds, errors>>

\* The model a job works with is the one published when it looks.
TakeModel(from, to) ==
    /\ job.pc = from
    /\ job' = [job EXCEPT !.pc = to, !.model = model]
    /\ UNCHANGED <<diskVars, events, rootVars, pollVars, indexVars, flagVars,
                   rebuild, watcher, rebuilds, errors>>

\* upsert_disk_source_path_blocking takes the model; every file of the
\* workspace is tracked, by a source root or by the workspace root.
UpsertSnapshot == TakeModel("snapshot", "read")

\* It reads the file.  A file that is gone is removed instead; one that
\* cannot be decoded fails the whole batch, and a failed poll is retried.
UpsertRead ==
    LET text == disk[job.uri] IN
    /\ job.pc = "read"
    /\ CASE text \in Unreadable ->
              /\ job' = NoJob
              /\ watcher' = Idle
              /\ Mark(watcher.upserts, "aborted")
         [] text = Absent ->
              /\ job' = [job EXCEPT !.pc = "context"]
              /\ UNCHANGED <<watcher, gap>>
         [] OTHER ->
              /\ job' = [job EXCEPT !.pc = "update", !.text = text]
              /\ UNCHANGED <<watcher, gap>>
    /\ UNCHANGED <<disk, modified, writes, events, rootVars, pollVars,
                   indexVars, flagVars, rebuild, rebuilds, errors>>

\* update_source_in_context_with_declarations on the index published now:
\* a content without classes leaves the bucket as it is.
UpsertUpdate ==
    LET u == job.uri
        b == ContextOf[job.model][u]
    IN
    /\ job.pc = "update"
    /\ classes' = IF ClassesOf(job.text) = Absent THEN classes
                  ELSE [classes EXCEPT ![b][u] = job.text]
    /\ job' = [job EXCEPT !.pc = "track"]
    /\ UNCHANGED <<diskVars, events, rootVars, pollVars, model, covered,
                   tracked, flagVars, rebuild, watcher, rebuilds, errors>>

\* The last step of a job notes the file as indexed, or as not indexed: a
\* prune of a full reindex may come before it.
EndJob(pc, uris) ==
    /\ job.pc = pc
    /\ tracked' = uris
    /\ job' = NoJob
    /\ UNCHANGED <<diskVars, events, rootVars, pollVars, model, classes,
                   covered, flagVars, rebuild, watcher, rebuilds, errors>>

TrackIndexedUri == EndJob("track", tracked \cup {job.uri})

\* remove_source_origin_for_uri_blocking resolves the context ...
RemoveContext == TakeModel("context", "remove")

\* ... and removes the origin from that bucket of the index published now.
RemoveOrigin ==
    LET u == job.uri
        b == ContextOf[job.model][u]
    IN
    /\ job.pc = "remove"
    /\ classes' = [classes EXCEPT ![b][u] = Absent]
    /\ job' = [job EXCEPT !.pc = "untrack"]
    /\ UNCHANGED <<diskVars, events, rootVars, pollVars, model, covered,
                   tracked, flagVars, rebuild, watcher, rebuilds, errors>>

UntrackIndexedUri == EndJob("untrack", tracked \ {job.uri})

-----------------------------------------------------------------------------
(* The full reindex: apply_workspace_model(m), index_fallback_root         *)

RebuildGoto(pc) == rebuild' = [rebuild EXCEPT !.pc = pc]

\* begin_full_reindex counts the reindex ...
RebuildBegin(m) ==
    /\ rebuild.pc = "idle"
    /\ rebuilds < MaxRebuilds
    /\ rebuilds' = rebuilds + 1
    /\ in_progress' = in_progress + 1
    /\ rebuild' = [NoRebuild EXCEPT !.pc = "counted", !.target = m]
    /\ UNCHANGED <<diskVars, events, rootVars, pollVars, indexVars, serial,
                   watcher, job, errors>>

\* ... then moves the serial; set_workspace_root publishes the watch roots
\* of the model that is still published.
RebuildSerial ==
    /\ rebuild.pc = "counted"
    /\ serial' = serial + 1
    /\ PublishRoots(model)
    /\ rebuild' = [rebuild EXCEPT !.pc = "scan",
                                  !.unread = ScannedBy(rebuild.target)]
    /\ UNCHANGED <<diskVars, events, watched, pollVars, indexVars, in_progress,
                   watcher, job, rebuilds, errors>>

\* collect_source_files, load_source_inputs: the files are read one by one
\* (in parallel, in no order); unreadable files are skipped.
RebuildRead(u) ==
    /\ rebuild.pc = "scan"
    /\ u \in rebuild.unread
    /\ rebuild' = [rebuild EXCEPT
                     !.unread = @ \ {u},
                     !.inputs[u] = IF disk[u] \in Unreadable THEN Absent
                                   ELSE disk[u]]
    /\ UNCHANGED <<diskVars, events, rootVars, pollVars, indexVars, flagVars,
                   watcher, job, rebuilds, errors>>

\* Variant: a failed reindex forgets to give its count back.
RebuildScannedLeaks ==
    /\ rebuild.pc = "scan"
    /\ \/ rebuild.unread = {} /\ RebuildGoto("prune")
       \/ rebuild' = NoRebuild
    /\ UNCHANGED <<diskVars, events, rootVars, pollVars, indexVars, flagVars,
                   watcher, job, rebuilds, errors>>

\* All inputs are in; or the scan failed and nothing is published.
RebuildScanned ==
    /\ rebuild.pc = "scan"
    /\ \/ rebuild.unread = {} /\ RebuildGoto("prune")
       \/ RebuildGoto("drop")
    /\ UNCHANGED <<diskVars, events, rootVars, pollVars, indexVars, flagVars,
                   watcher, job, rebuilds, errors>>

\* prune_indexed_salsa_files: the tracked files become the indexed ones.
RebuildPrune ==
    /\ rebuild.pc = "prune"
    /\ tracked' = {u \in Uri : rebuild.inputs[u] # Absent}
    /\ RebuildGoto("replace")
    /\ UNCHANGED <<diskVars, events, rootVars, pollVars, model, classes,
                   covered, flagVars, watcher, job, rebuilds, errors>>

\* WorkspaceIndexHandle::replace: index and model are swapped together.
RebuildReplace ==
    LET target == rebuild.target
        In(b, u) == u \in ScannedBy(target) /\ ContextOf[target][u] = b
    IN
    /\ rebuild.pc = "replace"
    /\ model' = target
    /\ classes' = [b \in Bucket |-> [u \in Uri |->
                     IF In(b, u) THEN ClassesOf(rebuild.inputs[u]) ELSE Absent]]
    /\ covered' = ScannedBy(target)
    /\ RebuildGoto("publish")
    /\ UNCHANGED <<diskVars, events, rootVars, pollVars, tracked, flagVars,
                   watcher, job, rebuilds, errors>>

RebuildPublishRoots ==
    /\ rebuild.pc = "publish"
    /\ PublishRoots(model)
    /\ RebuildGoto("drop")
    /\ UNCHANGED <<diskVars, events, watched, pollVars, indexVars, flagVars,
                   watcher, job, rebuilds, errors>>

\* FullReindexGuard::drop moves the serial, then takes the count back.
RebuildDrop ==
    /\ rebuild.pc = "drop"
    /\ serial' = serial + 1
    /\ RebuildGoto("uncount")
    /\ UNCHANGED <<diskVars, events, rootVars, pollVars, indexVars, in_progress,
                   watcher, job, rebuilds, errors>>

\* Variant: the count is taken back twice.
RebuildUncountTwice ==
    /\ rebuild.pc = "uncount"
    /\ in_progress' = in_progress - 2
    /\ rebuild' = NoRebuild
    /\ UNCHANGED <<diskVars, events, rootVars, pollVars, indexVars, serial,
                   watcher, job, rebuilds, errors>>

RebuildUncount ==
    /\ rebuild.pc = "uncount"
    /\ in_progress' = in_progress - 1
    /\ rebuild' = NoRebuild
    /\ UNCHANGED <<diskVars, events, rootVars, pollVars, indexVars, serial,
                   watcher, job, rebuilds, errors>>

-----------------------------------------------------------------------------
Disk ==
    \/ \E u \in Uri, text \in Text : Write(u, text)
    \/ \E u \in Uri : Delete(u)
    \/ WatchError

Watch ==
    \/ RootsChanged
    \/ \E n \in 1 .. Len(events) : ReceiveBatch(n)
    \/ PollTick
    \/ WaitForFullReindex
    \/ ReadSerial
    \/ RescanCollect
    \/ RescanDiff
    \/ FinishApply
    \/ \E u \in Uri : NextRemoval(u)
    \/ \E u \in Uri : NextUpsert(u)
    \/ UpsertSnapshot
    \/ UpsertRead
    \/ UpsertUpdate
    \/ TrackIndexedUri
    \/ RemoveContext
    \/ RemoveOrigin
    \/ UntrackIndexedUri

Rebuild ==
    \/ \E m \in Models : RebuildBegin(m)
    \/ RebuildSerial
    \/ \E u \in Uri : RebuildRead(u)
    \/ RebuildScanned
    \/ RebuildPrune
    \/ RebuildReplace
    \/ RebuildPublishRoots
    \/ RebuildDrop
    \/ RebuildUncount

Next == Disk \/ Watch \/ Rebuild

\* The watcher task and the reload task are tokio tasks: they get to run.
\* Nothing forces the disk to change or a reindex to begin.
Spec == Init /\ [][Next]_vars
FairSpec ==
    /\ Spec
    /\ WF_vars(Watch)
    /\ WF_vars(Rebuild /\ rebuild.pc # "idle")

-----------------------------------------------------------------------------
(* Properties                                                              *)

\* The watcher and the reindexes have nothing left to do.
Quiescent ==
    /\ watcher.pc = "idle"
    /\ events = <<>>
    /\ rebuild.pc = "idle"
    /\ ~roots_changed
    /\ Polling => SnapshotRoots(watched) = previous

\* The published index shows what the disk holds for u.
Shown(u) == classes[ContextOf[model][u]][u] = ClassesOf(disk[u])

\* When everything is quiet, the index shows the disk for every file the
\* published reindex covered and whose last change has no gap: no
\* interleaving of batches, rescans, root changes and full reindexes loses a
\* change that was reported by name to the watcher
\* (apply_workspace_changes against apply_workspace_model).
NamedChangesShown ==
    Quiescent => \A u \in covered : gap[u] = "none" => Shown(u)

\* A rescan finds the other reported changes, but for deleted files that
\* were not tracked any more (rescan_watched_roots_blocking).
RescannedChangesShown ==
    Quiescent => \A u \in covered :
        gap[u] \in {"none", "unnamed"} =>
            Shown(u) \/ (disk[u] = Absent /\ u \notin tracked)

\* A batch the watcher has taken up is finished: it does not wait for ever
\* for a full reindex, a failed one included (FullReindexGuard is dropped on
\* every path).
BatchesEnd == watcher.pc # "idle" ~> watcher.pc = "idle"
=============================================================================
