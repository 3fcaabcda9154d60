------------------------- MODULE SourceWatchProofs --------------------------
(***************************************************************************)
(* Proofs about closed source files: no interleaving of the watcher's      *)
(* batches, rescans, changes of the watched roots and full reindexes loses *)
(* a change on disk that was reported, for any files, models and number of *)
(* changes.                                                                *)
(*                                                                         *)
(* The argument follows one file.  A change that counts is at every moment *)
(* either still to be taken up by a later batch (Owed), in the batch that  *)
(* is under way (InBatch, InRescan), being applied (JobRepairs), or shown  *)
(* (Right).  What makes the steps of a full reindex harmless is that a     *)
(* batch waits for the reindex that runs when it is received: from then on *)
(* a reindex has read the file after the change of the batch, or a later   *)
(* change is owed.                                                         *)
(***************************************************************************)
EXTENDS SourceWatch, TLAPS

-----------------------------------------------------------------------------
(* One file.                                                                *)

\* Its last change has been reported, by name or so that a rescan finds it.
Counts(u) == gap[u] \in {"none", "unnamed"}

\* The file is gone, or has classes to show.
Plain(u) == disk[u] \notin Classless \cup Unreadable

Fingerprint(u) == IF disk[u] = Absent THEN Absent ELSE modified[u]

\* An event that names it is queued, or one that asks for a rescan.
Named(u) == \E i \in DOMAIN events : events[i].uri = u /\ events[i].kind # "error"
ErrorQueued == \E i \in DOMAIN events : events[i].kind = "error"

\* A later batch will take it up.
Owed(u) ==
    IF Polling
    THEN /\ u \in watched
         /\ Fingerprint(u) # (IF watcher.pc = "idle" THEN previous[u] ELSE polled[u])
    ELSE Named(u) \/ (gap[u] = "unnamed" /\ ErrorQueued)

\* The batch under way will apply it,
InBatch(u) ==
    /\ u \in watcher.removals \cup watcher.upserts
    /\ watcher.pc = "apply" \/ (watcher.pc \in {"wait", "serial"} /\ ~watcher.rescan)

\* or its rescan will find it.
InRescan(u) ==
    /\ gap[u] = "unnamed" /\ u \in watcher.roots
    /\ \/ watcher.pc \in {"wait", "serial", "scan"} /\ (watcher.rescan \/ watcher.again)
       \/ watcher.pc = "diff"

\* The job at work will put the file right in the model that is published.
JobRepairs(u) ==
    /\ job.pc \notin {"none", "track", "untrack"} /\ job.uri = u
    /\ job.pc \in {"read", "update", "remove"} => job.model = model

\* The index is as the two properties want it.
Right(u) ==
    u \in covered =>
        \/ Shown(u)
        \/ gap[u] = "unnamed" /\ disk[u] = Absent /\ u \notin tracked

\* The full reindex has read the file.
Scanned(u) ==
    /\ rebuild.pc \in {"scan", "prune", "replace"}
    /\ u \in ScannedBy(rebuild.target) \ rebuild.unread

\* Whatever the reindex under way publishes, the file is put right later.
Outlasts(u) ==
    Owed(u) \/ (watcher.pc = "wait" /\ (InBatch(u) \/ InRescan(u)))

-----------------------------------------------------------------------------
(* What holds of a file whose last change counts.                           *)

\* The change is under way or shown; contents without classes need nothing.
Accounted(u) ==
    \/ Right(u)
    \/ Plain(u) /\ (Owed(u) \/ InBatch(u) \/ InRescan(u) \/ JobRepairs(u))

\* Nothing is owed for contents without classes, now or when the batch fails.
OnlyPlainOwed(u) ==
    \/ Owed(u) \/ gap[u] = "unnamed"
    \/ Polling /\ u \in watched /\ previous[u] # Fingerprint(u)
    => Plain(u)

\* The reindex has read what the disk holds, or the file outlasts it.
ScanRight(u) ==
    Scanned(u) /\ ~(Plain(u) /\ Outlasts(u)) =>
        rebuild.inputs[u] = IF disk[u] \in Unreadable THEN Absent ELSE disk[u]

\* The last event that names the file says what happened to it.
LastKind(u) == IF gap[u] = "unnamed" THEN "rescan"
               ELSE IF disk[u] = Absent THEN "remove" ELSE "upsert"
LastEventRight(u) ==
    \A i \in DOMAIN events :
        events[i].uri = u /\ events[i].kind # "error" =>
            \E j \in DOMAIN events :
                j >= i /\ events[j] = [kind |-> LastKind(u), uri |-> u]

\* A batch and a rescan only remove files that are gone.
RemovalRight(u) ==
    /\ InBatch(u) /\ u \notin watcher.upserts /\ ~Owed(u) => disk[u] = Absent
    /\ watcher.pc = "diff" /\ u \in watcher.roots /\ ~Owed(u) =>
           (u \in watcher.current <=> disk[u] # Absent)

\* A job writes what the disk holds.
JobRight(u) ==
    job.uri = u /\ ~Owed(u) =>
        /\ job.pc \in {"update", "track"} => job.text = disk[u]
        /\ job.pc \in {"context", "remove"} /\ u \notin watcher.upserts => disk[u] = Absent

\* Polling: a batch that fails leaves the change to the next one.
PollRepeats(u) ==
    Polling /\ watcher.pc # "idle" /\ Owed(u) => previous[u] # Fingerprint(u)

FileRight(u) ==
    Counts(u) =>
        /\ Accounted(u) /\ OnlyPlainOwed(u) /\ ScanRight(u) /\ LastEventRight(u)
        /\ RemovalRight(u) /\ JobRight(u) /\ PollRepeats(u)

-----------------------------------------------------------------------------
(* What holds of the watcher, the job and the reindex, part by part.        *)

Reindexes == [pc: RebuildPc, target: Models, unread: SUBSET Uri, inputs: Snapshot]
Batches == [pc: WatcherPc, roots: SUBSET Uri, rescan: BOOLEAN, again: BOOLEAN,
            serial: Nat, current: SUBSET Uri, removals: SUBSET Uri,
            upserts: SUBSET Uri]
Jobs == [pc: JobPc, uri: Uri, model: Models, text: Content]

\* Modification times are those of changes so far.
DiskRight ==
    /\ disk \in Snapshot /\ modified \in [Uri -> 0 .. writes]
    /\ gap \in [Uri -> Gap] /\ writes \in Nat

\* Errors come first: they take the place of what was queued.
EventsRight ==
    /\ events \in Seq(Change)
    /\ \A i \in DOMAIN events : i > 1 => events[i].kind # "error"
    /\ Polling => events = <<>>

RootsRight ==
    published_roots \subseteq Uri /\ roots_changed \in BOOLEAN /\ watched \subseteq Uri

\* Polling knows no other modification times, and none outside the roots.
PollRight ==
    /\ previous \in [Uri -> 0 .. writes \cup {Absent}]
    /\ polled \in [Uri -> 0 .. writes \cup {Absent}]
    /\ Polling => \A u \in Uri \ watched :
           previous[u] = Absent /\ (watcher.pc # "idle" => polled[u] = Absent)

IndexRight ==
    /\ model \in Models /\ classes \in [Bucket -> Snapshot]
    /\ covered \subseteq Uri /\ tracked \subseteq Uri

FlagsRight ==
    /\ in_progress = IF rebuild.pc = "idle" THEN 0 ELSE 1
    /\ serial \in Nat

ReindexRight ==
    /\ rebuild \in Reindexes
    /\ rebuild.pc \in {"prune", "replace"} => rebuild.unread = {}
    /\ rebuild.unread \subseteq ScannedBy(rebuild.target)
    /\ \A u \in Uri : rebuild.inputs[u] # Absent => u \in ScannedBy(rebuild.target)

\* The rescan a moved serial asks for starts from an empty batch.
BatchRight ==
    /\ watcher \in Batches
    /\ watcher.pc = "wait" /\ watcher.again => watcher.removals \cup watcher.upserts = {}
    /\ watcher.pc = "serial" => ~watcher.again
    /\ watcher.pc # "idle" => watcher.roots = watched

\* Files are removed and upserted one by one, while the batch is applied.
WorkRight ==
    /\ job \in Jobs
    /\ job.pc # "none" => watcher.pc = "apply"
    /\ job.pc \in {"snapshot", "read", "update", "track"} => watcher.removals = {}
    /\ job.pc \in {"update", "track"} => job.text \in Text

CountersRight == rebuilds \in Nat /\ errors \in Nat

Shape ==
    /\ DiskRight /\ EventsRight /\ RootsRight /\ PollRight /\ IndexRight
    /\ FlagsRight /\ ReindexRight /\ BatchRight /\ WorkRight /\ CountersRight

WatchInv == Shape /\ \A u \in Uri : FileRight(u)

\* What a step leaves alone stays right.
LEMMA Unmoved ==
  /\ DiskRight /\ UNCHANGED diskVars => DiskRight'
  /\ EventsRight /\ UNCHANGED events => EventsRight'
  /\ RootsRight /\ UNCHANGED rootVars => RootsRight'
  /\ PollRight /\ UNCHANGED <<writes, pollVars, watched, watcher>> => PollRight'
  /\ IndexRight /\ UNCHANGED indexVars => IndexRight'
  /\ FlagsRight /\ UNCHANGED <<flagVars, rebuild>> => FlagsRight'
  /\ ReindexRight /\ UNCHANGED rebuild => ReindexRight'
  /\ BatchRight /\ UNCHANGED <<watcher, watched>> => BatchRight'
  /\ WorkRight /\ UNCHANGED <<job, watcher>> => WorkRight'
  /\ CountersRight /\ UNCHANGED <<rebuilds, errors>> => CountersRight'
<1>1. DiskRight /\ UNCHANGED diskVars => DiskRight'
  BY DEF DiskRight, diskVars
<1>2. EventsRight /\ UNCHANGED events => EventsRight'
  BY DEF EventsRight
<1>3. RootsRight /\ UNCHANGED rootVars => RootsRight'
  BY DEF RootsRight, rootVars
<1>4. PollRight /\ UNCHANGED <<writes, pollVars, watched, watcher>> => PollRight'
  BY DEF PollRight, pollVars
<1>5. IndexRight /\ UNCHANGED indexVars => IndexRight'
  BY DEF IndexRight, indexVars
<1>6. FlagsRight /\ UNCHANGED <<flagVars, rebuild>> => FlagsRight'
  BY DEF FlagsRight, flagVars
<1>7. ReindexRight /\ UNCHANGED rebuild => ReindexRight'
  BY DEF ReindexRight
<1>8. BatchRight /\ UNCHANGED <<watcher, watched>> => BatchRight'
  BY DEF BatchRight
<1>9. WorkRight /\ UNCHANGED <<job, watcher>> => WorkRight'
  BY DEF WorkRight
<1>10. CountersRight /\ UNCHANGED <<rebuilds, errors>> => CountersRight'
  BY DEF CountersRight
<1> QED
  BY <1>1, <1>2, <1>3, <1>4, <1>5, <1>6, <1>7, <1>8, <1>9, <1>10

\* A job that is idle, and the first state.
LEMMA NoJobTyped == NoJob \in Jobs /\ NoJob.pc = "none" /\ NoJob.uri \in Uri
  BY UriAssumption DEF NoJob, Jobs, JobPc, Models, Content

LEMMA IdleTyped == Idle \in Batches /\ Idle.pc = "idle"
  BY DEF Idle, Batches, WatcherPc

LEMMA Started ==
  ASSUME NEW rescan \in BOOLEAN, NEW removals \in SUBSET Uri,
         NEW upserts \in SUBSET Uri, RootsRight, Start(rescan, removals, upserts)
  PROVE  /\ watcher' \in Batches /\ watcher'.pc = "wait" /\ watcher'.roots = watched
         /\ watcher'.rescan = rescan /\ watcher'.again = FALSE
         /\ watcher'.removals = removals /\ watcher'.upserts = upserts
<1>1. watched \in SUBSET Uri
  BY DEF RootsRight
<1>2. watcher' = [pc |-> "wait", roots |-> watched, rescan |-> rescan, again |-> FALSE,
                  serial |-> 0, current |-> {}, removals |-> removals,
                  upserts |-> upserts]
  BY DEF Start, Idle
<1>3. watcher' \in Batches
  BY <1>1, <1>2 DEF Batches, WatcherPc
<1> QED
  BY <1>2, <1>3

LEMMA InitShape == Init => Shape
<1> SUFFICES ASSUME Init PROVE Shape
  OBVIOUS
<1>1. DiskRight
  BY DEF Init, DiskRight, Gap
<1>2. EventsRight
  <2>1. events = <<>> /\ events \in Seq(Change)
    BY DEF Init
  <2> QED
    BY <2>1 DEF EventsRight
<1>8. RootsRight /\ CountersRight
  BY DEF Init, RootsRight, CountersRight
<1>3. PollRight
  BY DEF Init, PollRight
<1>4. IndexRight
  BY DEF Init, IndexRight, Models, Snapshot, Content
<1>5. FlagsRight
  BY DEF Init, FlagsRight, NoRebuild
<1>6. ReindexRight
  BY DEF Init, ReindexRight, NoRebuild, Reindexes, RebuildPc, Models, Snapshot, Content
<1>7. BatchRight /\ WorkRight
  BY IdleTyped, NoJobTyped DEF Init, BatchRight, WorkRight
<1> QED
  BY <1>1, <1>2, <1>3, <1>4, <1>5, <1>6, <1>7, <1>8 DEF Shape

LEMMA WriteShape ==
  ASSUME Shape, NEW u \in Uri, NEW text \in Text, Write(u, text)
  PROVE  Shape'
<1>1. DiskRight'
  BY DEF Shape, DiskRight, Write, Watched, ContentGap, Gap, Snapshot, Content
<1>2. EventsRight'
  <2>1. [kind |-> "upsert", uri |-> u] \in Change
    BY DEF Change
  <2> QED
    BY <2>1 DEF Shape, EventsRight, Write, Raise
<1>3. PollRight'
  BY DEF Shape, PollRight, DiskRight, Write, pollVars, rootVars
<1> QED
  BY <1>1, <1>2, <1>3, Unmoved
     DEF Shape, Write, diskVars, rootVars, pollVars, indexVars, flagVars

LEMMA DeleteShape ==
  ASSUME Shape, NEW u \in Uri, Delete(u)
  PROVE  Shape'
<1>1. DiskRight'
  BY DEF Shape, DiskRight, Delete, Watched, Gap, Snapshot, Content
<1>2. EventsRight'
  <2>1. [kind |-> "remove", uri |-> u] \in Change /\ [kind |-> "rescan", uri |-> u] \in Change
    BY DEF Change
  <2>2. CASE UNCHANGED events
    BY <2>2, Unmoved DEF Shape
  <2>3. CASE ~UNCHANGED events
    <3>1. ~Polling
      BY <2>3 DEF Delete, Raise
    <3>2. PICK change \in Change : change.kind # "error" /\ events' = Append(events, change)
      BY <2>1, <2>3 DEF Delete, Raise
    <3> QED
      BY <3>1, <3>2 DEF Shape, EventsRight
  <2> QED
    BY <2>2, <2>3
<1>3. PollRight'
  BY DEF Shape, PollRight, DiskRight, Delete, pollVars, rootVars
<1> QED
  BY <1>1, <1>2, <1>3, Unmoved
     DEF Shape, Delete, diskVars, rootVars, pollVars, indexVars, flagVars

LEMMA WatchErrorShape ==
  ASSUME Shape, WatchError
  PROVE  Shape'
<1>1. DiskRight'
  BY DEF Shape, DiskRight, WatchError, Mark, Gap
<1>2. EventsRight'
  BY NoJobTyped DEF Shape, EventsRight, WatchError, Change
<1>3. PollRight'
  BY DEF Shape, PollRight, WatchError, pollVars, rootVars
<1>4. CountersRight'
  BY DEF Shape, CountersRight, WatchError
<1> QED
  BY <1>1, <1>2, <1>3, <1>4, Unmoved
     DEF Shape, WatchError, diskVars, rootVars, pollVars, indexVars, flagVars

LEMMA RootsChangedShape ==
  ASSUME Shape, RootsChanged
  PROVE  Shape'
<1>1. DiskRight'
  BY DEF Shape, DiskRight, RootsChanged, Mark, Gap
<1>2. RootsRight'
  BY DEF Shape, RootsRight, RootsChanged
<1>3. PollRight'
  BY DEF Shape, PollRight, DiskRight, RootsRight, RootsChanged, SnapshotRoots
<1>4. BatchRight'
  BY DEF Shape, BatchRight, RootsChanged
<1> QED
  BY <1>1, <1>2, <1>3, <1>4, Unmoved
     DEF Shape, RootsChanged, diskVars, rootVars, pollVars, indexVars, flagVars

LEMMA ReceiveBatchShape ==
  ASSUME Shape, NEW n \in 1 .. Len(events), ReceiveBatch(n)
  PROVE  Shape'
<1>1. DiskRight'
  BY DEF Shape, DiskRight, ReceiveBatch, Gap
<1>2. EventsRight'
  BY DEF Shape, EventsRight, ReceiveBatch
<1>3. PollRight'
  BY DEF Shape, PollRight, ReceiveBatch, pollVars, rootVars, Start
<1>4. BatchRight'
  <2>1. UNCHANGED watched /\ RootsRight
    BY DEF Shape, ReceiveBatch, rootVars
  <2>2. CASE UNCHANGED watcher
    BY <2>1, <2>2, Unmoved DEF Shape
  <2>3. CASE ~UNCHANGED watcher
    <3>1. PICK rescan \in BOOLEAN, removals \in SUBSET Uri, upserts \in SUBSET Uri :
             Start(rescan, removals, upserts)
      BY <2>1, <2>3 DEF ReceiveBatch, RootsRight
    <3> QED
      BY <2>1, <3>1, Started DEF BatchRight
  <2> QED
    BY <2>2, <2>3
<1>5. WorkRight'
  BY DEF Shape, WorkRight, ReceiveBatch
<1> QED
  BY <1>1, <1>2, <1>3, <1>4, <1>5, Unmoved
     DEF Shape, ReceiveBatch, diskVars, rootVars, pollVars, indexVars, flagVars

LEMMA PollTickShape ==
  ASSUME Shape, PollTick
  PROVE  Shape'
<1>1. PollRight'
  BY DEF Shape, PollRight, DiskRight, PollTick, SnapshotRoots, rootVars, diskVars
<1>2. BatchRight'
  BY DEF Shape, BatchRight, RootsRight, PollTick, Start, Idle, Batches, WatcherPc,
         rootVars
<1>3. WorkRight'
  BY DEF Shape, WorkRight, PollTick
<1> QED
  BY <1>1, <1>2, <1>3, Unmoved
     DEF Shape, PollTick, diskVars, rootVars, pollVars, indexVars, flagVars

LEMMA WaitForFullReindexShape ==
  ASSUME Shape, WaitForFullReindex
  PROVE  Shape'
<1>1. PollRight'
  BY DEF Shape, PollRight, WaitForFullReindex, pollVars, rootVars, diskVars
<1>2. BatchRight'
  BY DEF Shape, BatchRight, WaitForFullReindex, Goto, Batches, WatcherPc, rootVars
<1>3. WorkRight'
  BY DEF Shape, WorkRight, WaitForFullReindex
<1> QED
  BY <1>1, <1>2, <1>3, Unmoved
     DEF Shape, WaitForFullReindex, diskVars, rootVars, pollVars, indexVars,
         flagVars

LEMMA ReadSerialShape ==
  ASSUME Shape, ReadSerial
  PROVE  Shape'
<1>1. PollRight'
  BY DEF Shape, PollRight, ReadSerial, pollVars, rootVars, diskVars
<1>2. BatchRight'
  BY DEF Shape, BatchRight, FlagsRight, ReadSerial, Batches, WatcherPc, rootVars
<1>3. WorkRight'
  BY DEF Shape, WorkRight, ReadSerial
<1> QED
  BY <1>1, <1>2, <1>3, Unmoved
     DEF Shape, ReadSerial, diskVars, rootVars, pollVars, indexVars, flagVars

LEMMA RescanCollectShape ==
  ASSUME Shape, RescanCollect
  PROVE  Shape'
<1>1. PollRight'
  BY DEF Shape, PollRight, RescanCollect, pollVars, rootVars, diskVars
<1>2. BatchRight'
  BY DEF Shape, BatchRight, RescanCollect, Batches, WatcherPc, rootVars
<1>3. WorkRight'
  BY DEF Shape, WorkRight, RescanCollect
<1> QED
  BY <1>1, <1>2, <1>3, Unmoved
     DEF Shape, RescanCollect, diskVars, rootVars, pollVars, indexVars, flagVars

LEMMA RescanDiffShape ==
  ASSUME Shape, RescanDiff
  PROVE  Shape'
<1>1. PollRight'
  BY DEF Shape, PollRight, RescanDiff, pollVars, rootVars, diskVars
<1>2. BatchRight'
  BY DEF Shape, BatchRight, IndexRight, RescanDiff, Batches, WatcherPc, rootVars
<1>3. WorkRight'
  BY DEF Shape, WorkRight, RescanDiff
<1> QED
  BY <1>1, <1>2, <1>3, Unmoved
     DEF Shape, RescanDiff, diskVars, rootVars, pollVars, indexVars, flagVars

LEMMA FinishApplyShape ==
  ASSUME Shape, FinishApply
  PROVE  Shape'
<1>1. PollRight'
  BY DEF Shape, PollRight, FinishApply, rootVars, diskVars, BatchRight, Batches,
         Idle
<1>2. BatchRight'
  <2>1. CASE watcher' = Idle
    BY <2>1, IdleTyped DEF Shape, BatchRight, FinishApply, rootVars
  <2>2. CASE watcher' # Idle
    <3>1. PICK yes \in BOOLEAN : watcher' = [watcher EXCEPT !.pc = "wait", !.again = yes]
      BY <2>2 DEF FinishApply
    <3>2. watcher \in Batches
      BY DEF Shape, BatchRight
    <3>3. /\ watcher' \in Batches /\ watcher'.pc = "wait"
          /\ watcher'.roots = watcher.roots /\ watcher'.removals = watcher.removals
          /\ watcher'.upserts = watcher.upserts
      BY <3>1, <3>2 DEF Batches, WatcherPc
    <3> QED
      BY <3>3 DEF Shape, BatchRight, FinishApply, rootVars
  <2> QED
    BY <2>1, <2>2
<1>3. WorkRight'
  BY DEF Shape, WorkRight, FinishApply
<1> QED
  BY <1>1, <1>2, <1>3, Unmoved
     DEF Shape, FinishApply, diskVars, rootVars, pollVars, indexVars, flagVars

LEMMA NextRemovalShape ==
  ASSUME Shape, NEW u \in Uri, NextRemoval(u)
  PROVE  Shape'
<1>1. PollRight'
  BY DEF Shape, PollRight, NextRemoval, pollVars, rootVars, diskVars, BatchRight,
         Batches
<1>2. BatchRight'
  BY DEF Shape, BatchRight, NextRemoval, Batches, WatcherPc, rootVars
<1>3. WorkRight'
  BY NoJobTyped DEF Shape, WorkRight, BatchRight, Batches, NextRemoval, BeginJob,
                    Jobs, JobPc
<1> QED
  BY <1>1, <1>2, <1>3, Unmoved
     DEF Shape, NextRemoval, diskVars, rootVars, pollVars, indexVars, flagVars

LEMMA NextUpsertShape ==
  ASSUME Shape, NEW u \in Uri, NextUpsert(u)
  PROVE  Shape'
<1>1. PollRight'
  BY DEF Shape, PollRight, NextUpsert, pollVars, rootVars, diskVars, BatchRight,
         Batches
<1>2. BatchRight'
  BY DEF Shape, BatchRight, NextUpsert, Batches, WatcherPc, rootVars
<1>3. WorkRight'
  BY NoJobTyped DEF Shape, WorkRight, BatchRight, Batches, NextUpsert, BeginJob,
                    Jobs, JobPc
<1> QED
  BY <1>1, <1>2, <1>3, Unmoved
     DEF Shape, NextUpsert, diskVars, rootVars, pollVars, indexVars, flagVars

LEMMA UpsertSnapshotShape ==
  ASSUME Shape, UpsertSnapshot
  PROVE  Shape'
<1>1. WorkRight'
  BY DEF Shape, WorkRight, IndexRight, UpsertSnapshot, TakeModel, Jobs, JobPc
<1> QED
  BY <1>1, Unmoved
     DEF Shape, UpsertSnapshot, TakeModel, diskVars, rootVars, pollVars, indexVars,
         flagVars

LEMMA RemoveContextShape ==
  ASSUME Shape, RemoveContext
  PROVE  Shape'
<1>1. WorkRight'
  BY DEF Shape, WorkRight, IndexRight, RemoveContext, TakeModel, Jobs, JobPc
<1> QED
  BY <1>1, Unmoved
     DEF Shape, RemoveContext, TakeModel, diskVars, rootVars, pollVars, indexVars,
         flagVars

LEMMA UpsertReadShape ==
  ASSUME Shape, UpsertRead
  PROVE  Shape'
<1>1. DiskRight'
  BY DEF Shape, DiskRight, UpsertRead, Mark, Gap
<1>2. PollRight'
  BY DEF Shape, PollRight, UpsertRead, pollVars, rootVars, Idle
<1>3. BatchRight'
  <2>1. CASE watcher' = Idle
    BY <2>1, IdleTyped DEF Shape, BatchRight, UpsertRead, rootVars
  <2>2. CASE watcher' # Idle
    BY <2>2 DEF Shape, BatchRight, UpsertRead, Batches, WatcherPc, rootVars
  <2> QED
    BY <2>1, <2>2
<1>4. WorkRight'
  BY NoJobTyped DEF Shape, WorkRight, DiskRight, Snapshot, Content, UpsertRead,
                    Jobs, JobPc
<1> QED
  BY <1>1, <1>2, <1>3, <1>4, Unmoved
     DEF Shape, UpsertRead, diskVars, rootVars, pollVars, indexVars, flagVars

LEMMA UpsertUpdateShape ==
  ASSUME Shape, UpsertUpdate
  PROVE  Shape'
<1>1. IndexRight'
  BY DEF Shape, IndexRight, WorkRight, Jobs, Snapshot, Content, UpsertUpdate
<1>2. WorkRight'
  BY DEF Shape, WorkRight, Jobs, JobPc, UpsertUpdate
<1> QED
  BY <1>1, <1>2, Unmoved
     DEF Shape, UpsertUpdate, diskVars, rootVars, pollVars, indexVars, flagVars

LEMMA EndJobShape ==
  ASSUME Shape, NEW pc, NEW uris \in SUBSET Uri, EndJob(pc, uris)
  PROVE  Shape'
<1>1. IndexRight' /\ WorkRight'
  BY NoJobTyped DEF Shape, IndexRight, WorkRight, EndJob
<1> QED
  BY <1>1, Unmoved
     DEF Shape, EndJob, diskVars, rootVars, pollVars, indexVars, flagVars

LEMMA TrackIndexedUriShape ==
  ASSUME Shape, TrackIndexedUri
  PROVE  Shape'
<1>1. tracked \cup {job.uri} \in SUBSET Uri
  BY DEF Shape, IndexRight, WorkRight, Jobs
<1> QED
  BY <1>1, EndJobShape DEF TrackIndexedUri

LEMMA UntrackIndexedUriShape ==
  ASSUME Shape, UntrackIndexedUri
  PROVE  Shape'
<1>1. tracked \ {job.uri} \in SUBSET Uri
  BY DEF Shape, IndexRight
<1> QED
  BY <1>1, EndJobShape DEF UntrackIndexedUri

LEMMA RemoveOriginShape ==
  ASSUME Shape, RemoveOrigin
  PROVE  Shape'
<1>1. IndexRight'
  BY DEF Shape, IndexRight, WorkRight, Jobs, Snapshot, Content, RemoveOrigin
<1>2. WorkRight'
  BY DEF Shape, WorkRight, Jobs, JobPc, RemoveOrigin
<1> QED
  BY <1>1, <1>2, Unmoved
     DEF Shape, RemoveOrigin, diskVars, rootVars, pollVars, indexVars, flagVars

LEMMA RebuildBeginShape ==
  ASSUME Shape, NEW m \in Models, RebuildBegin(m)
  PROVE  Shape'
<1>1. FlagsRight'
  BY DEF Shape, FlagsRight, RebuildBegin, NoRebuild
<1>2. ReindexRight'
  BY DEF Shape, ReindexRight, Reindexes, RebuildPc, Models, Snapshot, Content,
         RebuildBegin, NoRebuild
<1>3. CountersRight'
  BY DEF Shape, CountersRight, RebuildBegin
<1> QED
  BY <1>1, <1>2, <1>3, Unmoved
     DEF Shape, RebuildBegin, diskVars, rootVars, pollVars, indexVars, flagVars

LEMMA RebuildSerialShape ==
  ASSUME Shape, RebuildSerial
  PROVE  Shape'
<1>1. RootsRight'
  BY CoversAssumption DEF Shape, RootsRight, IndexRight, Models, RebuildSerial,
                          PublishRoots, WatchedSourceRoots
<1>2. FlagsRight'
  BY DEF Shape, FlagsRight, RebuildSerial
<1>3. ReindexRight'
  BY CoversAssumption DEF Shape, ReindexRight, Reindexes, RebuildPc, Models,
                          RebuildSerial, ScannedBy
<1>4. PollRight'
  BY DEF Shape, PollRight, RebuildSerial, pollVars, diskVars
<1> QED
  BY <1>1, <1>2, <1>3, <1>4, Unmoved
     DEF Shape, RebuildSerial, diskVars, rootVars, pollVars, indexVars, flagVars

LEMMA RebuildReadShape ==
  ASSUME Shape, NEW u \in Uri, RebuildRead(u)
  PROVE  Shape'
<1>1. FlagsRight'
  BY DEF Shape, FlagsRight, flagVars, RebuildRead, ReindexRight, Reindexes
<1>2. ReindexRight'
  <2> DEFINE text == IF disk[u] \in Unreadable THEN Absent ELSE disk[u]
  <2>1. text \in Content /\ rebuild.inputs \in Snapshot
    BY DEF Shape, DiskRight, ReindexRight, Reindexes, Snapshot, Content
  <2> HIDE DEF text
  <2>2. [rebuild.inputs EXCEPT ![u] = text] \in Snapshot
    BY <2>1 DEF Snapshot
  <2>3. rebuild' = [rebuild EXCEPT !.unread = rebuild.unread \ {u},
                                  !.inputs = [rebuild.inputs EXCEPT ![u] = text]]
    BY DEF RebuildRead, Shape, ReindexRight, Reindexes, text
  <2>4. /\ rebuild' \in Reindexes /\ rebuild'.pc = rebuild.pc
        /\ rebuild'.target = rebuild.target
        /\ rebuild'.unread = rebuild.unread \ {u}
        /\ rebuild'.inputs = [rebuild.inputs EXCEPT ![u] = text]
    BY <2>1, <2>2, <2>3 DEF Shape, ReindexRight, Reindexes
  <2>5. u \in ScannedBy(rebuild.target)
    BY DEF Shape, ReindexRight, RebuildRead
  <2> QED
    BY <2>1, <2>4, <2>5 DEF Shape, ReindexRight, RebuildRead, Snapshot, ScannedBy
<1> QED
  BY <1>1, <1>2, Unmoved
     DEF Shape, RebuildRead, diskVars, rootVars, pollVars, indexVars, flagVars

LEMMA RebuildScannedShape ==
  ASSUME Shape, RebuildScanned
  PROVE  Shape'
<1>1. FlagsRight'
  BY DEF Shape, FlagsRight, flagVars, RebuildScanned, RebuildGoto, ReindexRight,
         Reindexes
<1>2. ReindexRight'
  BY DEF Shape, ReindexRight, Reindexes, RebuildPc, RebuildScanned, RebuildGoto
<1> QED
  BY <1>1, <1>2, Unmoved
     DEF Shape, RebuildScanned, diskVars, rootVars, pollVars, indexVars, flagVars

LEMMA RebuildPruneShape ==
  ASSUME Shape, RebuildPrune
  PROVE  Shape'
<1>1. IndexRight'
  BY DEF Shape, IndexRight, RebuildPrune
<1>2. FlagsRight'
  BY DEF Shape, FlagsRight, flagVars, RebuildPrune, RebuildGoto, ReindexRight,
         Reindexes
<1>3. ReindexRight'
  BY DEF Shape, ReindexRight, Reindexes, RebuildPc, RebuildPrune, RebuildGoto
<1> QED
  BY <1>1, <1>2, <1>3, Unmoved
     DEF Shape, RebuildPrune, diskVars, rootVars, pollVars, indexVars, flagVars

LEMMA RebuildReplaceShape ==
  ASSUME Shape, RebuildReplace
  PROVE  Shape'
<1>1. IndexRight'
  BY CoversAssumption DEF Shape, IndexRight, ReindexRight, Reindexes, Models,
                          Snapshot, Content, ClassesOf, ScannedBy, RebuildReplace
<1>2. FlagsRight'
  BY DEF Shape, FlagsRight, flagVars, RebuildReplace, RebuildGoto, ReindexRight,
         Reindexes
<1>3. ReindexRight'
  BY DEF Shape, ReindexRight, Reindexes, RebuildPc, RebuildReplace, RebuildGoto
<1> QED
  BY <1>1, <1>2, <1>3, Unmoved
     DEF Shape, RebuildReplace, diskVars, rootVars, pollVars, indexVars, flagVars

LEMMA RebuildPublishRootsShape ==
  ASSUME Shape, RebuildPublishRoots
  PROVE  Shape'
<1>1. RootsRight'
  BY CoversAssumption DEF Shape, RootsRight, IndexRight, Models,
                          RebuildPublishRoots, PublishRoots, WatchedSourceRoots
<1>2. FlagsRight'
  BY DEF Shape, FlagsRight, flagVars, RebuildPublishRoots, RebuildGoto,
         ReindexRight, Reindexes
<1>3. ReindexRight'
  BY DEF Shape, ReindexRight, Reindexes, RebuildPc, RebuildPublishRoots,
         RebuildGoto
<1>4. PollRight'
  BY DEF Shape, PollRight, RebuildPublishRoots, pollVars, diskVars
<1> QED
  BY <1>1, <1>2, <1>3, <1>4, Unmoved
     DEF Shape, RebuildPublishRoots, diskVars, rootVars, pollVars, indexVars,
         flagVars

LEMMA RebuildDropShape ==
  ASSUME Shape, RebuildDrop
  PROVE  Shape'
<1>1. FlagsRight'
  BY DEF Shape, FlagsRight, RebuildDrop, RebuildGoto, ReindexRight, Reindexes
<1>2. ReindexRight'
  BY DEF Shape, ReindexRight, Reindexes, RebuildPc, RebuildDrop, RebuildGoto
<1> QED
  BY <1>1, <1>2, Unmoved
     DEF Shape, RebuildDrop, diskVars, rootVars, pollVars, indexVars, flagVars

LEMMA RebuildUncountShape ==
  ASSUME Shape, RebuildUncount
  PROVE  Shape'
<1>1. FlagsRight'
  BY DEF Shape, FlagsRight, RebuildUncount, NoRebuild
<1>2. ReindexRight'
  BY DEF Shape, ReindexRight, Reindexes, RebuildPc, Models, Snapshot, Content,
         RebuildUncount, NoRebuild
<1> QED
  BY <1>1, <1>2, Unmoved
     DEF Shape, RebuildUncount, diskVars, rootVars, pollVars, indexVars, flagVars

-----------------------------------------------------------------------------
(* What a step changes for one file.                                        *)

Pending(u) == Owed(u) \/ InBatch(u) \/ InRescan(u) \/ JobRepairs(u)
OnDisk(u) == IF disk[u] \in Unreadable THEN Absent ELSE disk[u]

\* Steps that leave the disk, the events and the snapshots alone.
LEMMA QuietFacts ==
  ASSUME NEW u \in Uri,
         UNCHANGED <<disk, modified, gap, events, watched, pollVars>>,
         watcher'.pc = "idle" <=> watcher.pc = "idle"
  PROVE  /\ Counts(u)' <=> Counts(u)
         /\ Plain(u)' <=> Plain(u)
         /\ Fingerprint(u)' = Fingerprint(u)
         /\ Owed(u)' <=> Owed(u)
         /\ OnlyPlainOwed(u)' <=> OnlyPlainOwed(u)
         /\ LastEventRight(u)' <=> LastEventRight(u)
         /\ PollRepeats(u)' <=> PollRepeats(u)
<1>1. (Counts(u)' <=> Counts(u)) /\ (Plain(u)' <=> Plain(u))
  BY DEF Counts, Plain
<1>2. Fingerprint(u)' = Fingerprint(u)
  BY DEF Fingerprint
<1>3. (Named(u)' <=> Named(u)) /\ (ErrorQueued' <=> ErrorQueued)
  BY DEF Named, ErrorQueued
<1>4. Owed(u)' <=> Owed(u)
  BY <1>2, <1>3 DEF Owed, pollVars
<1>5. OnlyPlainOwed(u)' <=> OnlyPlainOwed(u)
  BY <1>1, <1>2, <1>4 DEF OnlyPlainOwed, pollVars
<1>6. LastEventRight(u)' <=> LastEventRight(u)
  BY DEF LastEventRight, LastKind
<1>7. PollRepeats(u)' <=> PollRepeats(u)
  BY <1>2, <1>4 DEF PollRepeats, pollVars
<1> QED
  BY <1>1, <1>2, <1>4, <1>5, <1>6, <1>7

LEMMA Quiet ==
  ASSUME NEW u \in Uri, FileRight(u),
         UNCHANGED <<disk, modified, gap, events, watched, pollVars>>,
         watcher'.pc = "idle" <=> watcher.pc = "idle",
         Counts(u) => Accounted(u)' /\ ScanRight(u)' /\ RemovalRight(u)' /\ JobRight(u)'
  PROVE  FileRight(u)'
  BY QuietFacts DEF FileRight

\* The watcher and the job have their fields changed, the index stays.
LEMMA SameIndex ==
  ASSUME NEW u \in Uri, UNCHANGED <<disk, gap, indexVars>>
  PROVE  Right(u)' <=> Right(u)
  BY DEF Right, Shown, indexVars

LEMMA SameScan ==
  ASSUME NEW u \in Uri, ScanRight(u), UNCHANGED <<disk, rebuild>>,
         Scanned(u) /\ Plain(u) /\ Outlasts(u) => Plain(u)' /\ Outlasts(u)'
  PROVE  ScanRight(u)'
  BY DEF ScanRight, Scanned

\* A step of the full reindex before and after it publishes.
LEMMA ReindexStep ==
  ASSUME NEW u \in Uri, FileRight(u),
         UNCHANGED <<disk, modified, gap, events, watched, pollVars, indexVars,
                     watcher, job>>,
         Scanned(u)' => \/ Scanned(u) /\ rebuild'.inputs[u] = rebuild.inputs[u]
                        \/ rebuild'.inputs[u] = OnDisk(u)
  PROVE  FileRight(u)'
<1>1. /\ Owed(u)' <=> Owed(u)
      /\ Plain(u)' <=> Plain(u)
  BY QuietFacts
<1>2. /\ InBatch(u)' <=> InBatch(u)
      /\ InRescan(u)' <=> InRescan(u)
      /\ JobRepairs(u)' <=> JobRepairs(u)
      /\ Outlasts(u)' <=> Outlasts(u)
  BY <1>1 DEF InBatch, InRescan, JobRepairs, Outlasts, indexVars
<1>3. ASSUME Counts(u) PROVE Accounted(u)'
  BY <1>1, <1>2, <1>3, SameIndex DEF FileRight, Accounted
<1>4. ASSUME Counts(u) PROVE ScanRight(u)'
  BY <1>1, <1>2, <1>4 DEF FileRight, ScanRight, OnDisk
<1>5. ASSUME Counts(u) PROVE RemovalRight(u)' /\ JobRight(u)'
  BY <1>1, <1>2, <1>5 DEF FileRight, RemovalRight, JobRight
<1> QED
  BY <1>3, <1>4, <1>5, Quiet

LEMMA RebuildBeginFile ==
  ASSUME Shape, NEW u \in Uri, FileRight(u), NEW m \in Models, RebuildBegin(m)
  PROVE  FileRight(u)'
<1>1. rebuild'.pc = "counted"
  BY DEF RebuildBegin, NoRebuild, Shape, ReindexRight, Reindexes
<1>2. ~Scanned(u)'
  BY <1>1 DEF Scanned
<1> QED
  BY <1>2, ReindexStep DEF RebuildBegin, diskVars, rootVars

LEMMA RebuildSerialFile ==
  ASSUME Shape, NEW u \in Uri, FileRight(u), RebuildSerial
  PROVE  FileRight(u)'
<1>1. rebuild'.unread = ScannedBy(rebuild'.target)
  BY DEF RebuildSerial, Shape, ReindexRight, Reindexes
<1>2. ~Scanned(u)'
  BY <1>1 DEF Scanned
<1> QED
  BY <1>2, ReindexStep DEF RebuildSerial, diskVars, rootVars

LEMMA RebuildScannedFile ==
  ASSUME Shape, NEW u \in Uri, FileRight(u), RebuildScanned
  PROVE  FileRight(u)'
<1>1. /\ rebuild'.pc \in {"prune", "drop"} /\ rebuild.pc = "scan"
      /\ rebuild'.target = rebuild.target /\ rebuild'.inputs = rebuild.inputs
      /\ rebuild'.unread = rebuild.unread
  BY DEF RebuildScanned, RebuildGoto, Shape, ReindexRight, Reindexes
<1>2. Scanned(u)' => Scanned(u) /\ rebuild'.inputs[u] = rebuild.inputs[u]
  BY <1>1 DEF Scanned
<1> QED
  BY <1>2, ReindexStep DEF RebuildScanned, diskVars, rootVars

LEMMA RebuildPublishRootsFile ==
  ASSUME Shape, NEW u \in Uri, FileRight(u), RebuildPublishRoots
  PROVE  FileRight(u)'
<1>1. rebuild'.pc = "drop"
  BY DEF RebuildPublishRoots, RebuildGoto, Shape, ReindexRight, Reindexes
<1>2. ~Scanned(u)'
  BY <1>1 DEF Scanned
<1> QED
  BY <1>2, ReindexStep DEF RebuildPublishRoots, diskVars, rootVars

LEMMA RebuildDropFile ==
  ASSUME Shape, NEW u \in Uri, FileRight(u), RebuildDrop
  PROVE  FileRight(u)'
<1>1. rebuild'.pc = "uncount"
  BY DEF RebuildDrop, RebuildGoto, Shape, ReindexRight, Reindexes
<1>2. ~Scanned(u)'
  BY <1>1 DEF Scanned
<1> QED
  BY <1>2, ReindexStep DEF RebuildDrop, diskVars, rootVars

LEMMA RebuildUncountFile ==
  ASSUME Shape, NEW u \in Uri, FileRight(u), RebuildUncount
  PROVE  FileRight(u)'
<1>1. rebuild'.pc = "idle"
  BY DEF RebuildUncount, NoRebuild, Shape, ReindexRight, Reindexes
<1>2. ~Scanned(u)'
  BY <1>1 DEF Scanned
<1> QED
  BY <1>2, ReindexStep DEF RebuildUncount, diskVars, rootVars

LEMMA RebuildReadFile ==
  ASSUME Shape, NEW u \in Uri, FileRight(u), NEW v \in Uri, RebuildRead(v)
  PROVE  FileRight(u)'
<1>1. /\ rebuild'.pc = rebuild.pc /\ rebuild'.target = rebuild.target
      /\ rebuild'.unread = rebuild.unread \ {v}
      /\ rebuild'.inputs = [rebuild.inputs EXCEPT ![v] = OnDisk(v)]
      /\ rebuild.inputs \in Snapshot
  BY DEF RebuildRead, Shape, ReindexRight, Reindexes, OnDisk
<1>2. CASE u = v
  BY <1>1, <1>2, ReindexStep DEF RebuildRead, Snapshot, diskVars, rootVars
<1>3. CASE u # v
  <2>1. Scanned(u)' => Scanned(u) /\ rebuild'.inputs[u] = rebuild.inputs[u]
    BY <1>1, <1>3 DEF Scanned, Snapshot, ScannedBy
  <2> QED
    BY <2>1, ReindexStep DEF RebuildRead, diskVars, rootVars
<1> QED
  BY <1>2, <1>3

\* The tracked files become the indexed ones.
LEMMA RebuildPruneFile ==
  ASSUME Shape, NEW u \in Uri, FileRight(u), RebuildPrune
  PROVE  FileRight(u)'
<1>1. /\ rebuild.pc = "prune" /\ rebuild'.pc = "replace"
      /\ rebuild'.target = rebuild.target /\ rebuild'.inputs = rebuild.inputs
      /\ rebuild'.unread = rebuild.unread /\ rebuild.unread = {}
      /\ rebuild.inputs[u] # Absent => u \in ScannedBy(rebuild.target)
  BY DEF RebuildPrune, RebuildGoto, Shape, ReindexRight, Reindexes
<1>2. UNCHANGED <<disk, modified, gap, events, watched, pollVars, watcher, job,
                  model, classes, covered>>
  BY DEF RebuildPrune, diskVars, rootVars
<1>3. /\ Owed(u)' <=> Owed(u)
      /\ Plain(u)' <=> Plain(u)
      /\ Counts(u)' <=> Counts(u)
  BY <1>2, QuietFacts
<1>4. /\ InBatch(u)' <=> InBatch(u)
      /\ InRescan(u)' <=> InRescan(u)
      /\ JobRepairs(u)' <=> JobRepairs(u)
      /\ Outlasts(u)' <=> Outlasts(u)
  BY <1>2, <1>3 DEF InBatch, InRescan, JobRepairs, Outlasts
<1>5. ASSUME Counts(u) PROVE Accounted(u)'
  <2>1. CASE Plain(u) /\ Pending(u)
    BY <1>3, <1>4, <2>1 DEF Accounted, Pending
  <2>2. CASE ~(Plain(u) /\ Pending(u))
    <3>1. Right(u)
      BY <1>5, <2>2 DEF FileRight, Accounted, Pending
    <3>2. ~(Plain(u) /\ Outlasts(u))
      BY <2>2 DEF Pending, Outlasts
    <3>3. disk[u] = Absent => rebuild.inputs[u] = Absent
      BY <1>1, <1>5, <3>2, TextAssumption, SubsetAssumption
      DEF FileRight, ScanRight, Scanned
    <3>4. disk[u] = Absent => u \notin tracked'
      BY <3>3 DEF RebuildPrune
    <3>5. Right(u)'
      BY <1>2, <3>1, <3>4 DEF Right, Shown
    <3> QED
      BY <3>5 DEF Accounted
  <2> QED
    BY <2>1, <2>2
<1>6. ASSUME Counts(u) PROVE ScanRight(u)'
  BY <1>1, <1>2, <1>3, <1>4, <1>6 DEF FileRight, ScanRight, Scanned
<1>7. ASSUME Counts(u) PROVE RemovalRight(u)' /\ JobRight(u)'
  BY <1>2, <1>3, <1>4, <1>7 DEF FileRight, RemovalRight, JobRight
<1> QED
  BY <1>2, <1>5, <1>6, <1>7, Quiet

\* The index and the model are swapped: a file the reindex covers is right in
\* the new index, or it was pending in a way that outlasts the reindex.
LEMMA RebuildReplaceFile ==
  ASSUME Shape, NEW u \in Uri, FileRight(u), RebuildReplace
  PROVE  FileRight(u)'
<1>1. /\ rebuild.pc = "replace" /\ rebuild'.pc = "publish"
      /\ rebuild.unread = {} /\ rebuild.target \in Models
      /\ rebuild.inputs \in Snapshot
  BY DEF RebuildReplace, RebuildGoto, Shape, ReindexRight, Reindexes
<1>2. UNCHANGED <<disk, modified, gap, events, watched, pollVars, watcher, job>>
  BY DEF RebuildReplace, diskVars, rootVars
<1>3. /\ Owed(u)' <=> Owed(u)
      /\ Plain(u)' <=> Plain(u)
  BY <1>2, QuietFacts
<1>4. /\ InBatch(u)' <=> InBatch(u)
      /\ InRescan(u)' <=> InRescan(u)
      /\ Outlasts(u)' <=> Outlasts(u)
  BY <1>2, <1>3 DEF InBatch, InRescan, Outlasts
<1>5. ASSUME Counts(u) PROVE Accounted(u)'
  <2>1. CASE Plain(u) /\ Outlasts(u)
    BY <1>3, <1>4, <2>1 DEF Accounted, Outlasts
  <2>2. CASE ~(Plain(u) /\ Outlasts(u)) /\ u \in ScannedBy(rebuild.target)
    <3>1. rebuild.inputs[u] = OnDisk(u)
      BY <1>1, <1>5, <2>2 DEF FileRight, ScanRight, Scanned, OnDisk
    <3>2. ClassesOf(rebuild.inputs[u]) = ClassesOf(disk[u])
      BY <3>1, TextAssumption, SubsetAssumption DEF ClassesOf, OnDisk
    <3>3. model' = rebuild.target /\ ContextOf[model'][u] \in Bucket
      BY <1>1, ContextAssumption DEF RebuildReplace, Models
    <3>4. classes'[ContextOf[model'][u]][u] = ClassesOf(rebuild.inputs[u])
      BY <2>2, <3>3 DEF RebuildReplace
    <3>5. Shown(u)'
      BY <1>2, <3>2, <3>4 DEF Shown, ClassesOf
    <3> QED
      BY <3>5 DEF Accounted, Right
  <2>3. CASE u \notin ScannedBy(rebuild.target)
    <3>1. u \notin covered'
      BY <2>3 DEF RebuildReplace
    <3> QED
      BY <3>1 DEF Accounted, Right
  <2> QED
    BY <2>1, <2>2, <2>3
<1>6. ScanRight(u)'
  BY <1>1 DEF ScanRight, Scanned
<1>7. ASSUME Counts(u) PROVE RemovalRight(u)' /\ JobRight(u)'
  BY <1>2, <1>3, <1>4, <1>7 DEF FileRight, RemovalRight, JobRight
<1> QED
  BY <1>2, <1>5, <1>6, <1>7, Quiet

-----------------------------------------------------------------------------
(* Applying a batch.                                                        *)

\* A step of the job that leaves the index alone.
LEMMA TakeModelFile ==
  ASSUME Shape, NEW u \in Uri, FileRight(u), NEW from, NEW to,
         <<from, to>> \in {<<"snapshot", "read">>, <<"context", "remove">>},
         TakeModel(from, to)
  PROVE  FileRight(u)'
<1>1. /\ job.pc = from /\ job'.pc = to /\ job'.model = model /\ job'.uri = job.uri
      /\ job'.text = job.text
  BY DEF TakeModel, Shape, WorkRight, Jobs
<1>2. UNCHANGED <<disk, modified, gap, events, watched, pollVars, indexVars, watcher,
                  rebuild>>
  BY DEF TakeModel, diskVars, rootVars
<1>3. /\ Owed(u)' <=> Owed(u)
      /\ Plain(u)' <=> Plain(u)
  BY <1>2, QuietFacts
<1>4. /\ InBatch(u)' <=> InBatch(u)
      /\ InRescan(u)' <=> InRescan(u)
      /\ Outlasts(u)' <=> Outlasts(u)
  BY <1>2, <1>3 DEF InBatch, InRescan, Outlasts
<1>5. JobRepairs(u) => JobRepairs(u)'
  BY <1>1, <1>2 DEF JobRepairs, indexVars
<1>6. ASSUME Counts(u) PROVE Accounted(u)'
  BY <1>2, <1>3, <1>4, <1>5, <1>6, SameIndex DEF FileRight, Accounted
<1>7. ASSUME Counts(u) PROVE ScanRight(u)'
  BY <1>2, <1>3, <1>4, <1>7, SameScan DEF FileRight
<1>8. ASSUME Counts(u) PROVE RemovalRight(u)' /\ JobRight(u)'
  BY <1>1, <1>2, <1>3, <1>4, <1>8 DEF FileRight, RemovalRight, JobRight
<1> QED
  BY <1>2, <1>6, <1>7, <1>8, Quiet

LEMMA UpsertSnapshotFile ==
  ASSUME Shape, NEW u \in Uri, FileRight(u), UpsertSnapshot
  PROVE  FileRight(u)'
  BY TakeModelFile DEF UpsertSnapshot

LEMMA RemoveContextFile ==
  ASSUME Shape, NEW u \in Uri, FileRight(u), RemoveContext
  PROVE  FileRight(u)'
  BY TakeModelFile DEF RemoveContext

\* The next file is taken out of the batch.
LEMMA NextRemovalFile ==
  ASSUME Shape, NEW u \in Uri, FileRight(u), NEW v \in Uri, NextRemoval(v)
  PROVE  FileRight(u)'
<1>1. /\ watcher.pc = "apply" /\ watcher'.pc = "apply" /\ job.pc = "none"
      /\ v \in watcher.removals
      /\ watcher'.removals = watcher.removals \ {v}
      /\ watcher'.upserts = watcher.upserts /\ watcher'.roots = watcher.roots
      /\ job'.pc = "context" /\ job'.uri = v
  BY NoJobTyped DEF NextRemoval, BeginJob, Shape, BatchRight, Batches, Jobs
<1>2. UNCHANGED <<disk, modified, gap, events, watched, pollVars, indexVars, rebuild>>
  BY DEF NextRemoval, diskVars, rootVars
<1>3. /\ Owed(u)' <=> Owed(u)
      /\ Plain(u)' <=> Plain(u)
  BY <1>1, <1>2, QuietFacts
<1>4. /\ ~InRescan(u) /\ ~JobRepairs(u)
      /\ InBatch(u) <=> u \in watcher.removals \cup watcher.upserts
      /\ InBatch(u)' <=> u \in watcher'.removals \cup watcher'.upserts
      /\ JobRepairs(u)' <=> u = v
  BY <1>1 DEF InRescan, InBatch, JobRepairs
<1>5. ASSUME Counts(u) PROVE Accounted(u)'
  BY <1>1, <1>2, <1>3, <1>4, <1>5, SameIndex DEF FileRight, Accounted
<1>6. ASSUME Counts(u) PROVE ScanRight(u)'
  BY <1>1, <1>2, <1>3, <1>6, SameScan DEF FileRight, Outlasts
<1>7. ASSUME Counts(u) PROVE RemovalRight(u)' /\ JobRight(u)'
  BY <1>1, <1>2, <1>3, <1>4, <1>7 DEF FileRight, RemovalRight, JobRight
<1> QED
  BY <1>1, <1>2, <1>5, <1>6, <1>7, Quiet

LEMMA NextUpsertFile ==
  ASSUME Shape, NEW u \in Uri, FileRight(u), NEW v \in Uri, NextUpsert(v)
  PROVE  FileRight(u)'
<1>1. /\ watcher.pc = "apply" /\ watcher'.pc = "apply" /\ job.pc = "none"
      /\ v \in watcher.upserts /\ watcher.removals = {}
      /\ watcher'.removals = watcher.removals
      /\ watcher'.upserts = watcher.upserts \ {v} /\ watcher'.roots = watcher.roots
      /\ job'.pc = "snapshot" /\ job'.uri = v
  BY NoJobTyped DEF NextUpsert, BeginJob, Shape, BatchRight, Batches, Jobs
<1>2. UNCHANGED <<disk, modified, gap, events, watched, pollVars, indexVars, rebuild>>
  BY DEF NextUpsert, diskVars, rootVars
<1>3. /\ Owed(u)' <=> Owed(u)
      /\ Plain(u)' <=> Plain(u)
  BY <1>1, <1>2, QuietFacts
<1>4. /\ ~InRescan(u) /\ ~JobRepairs(u)
      /\ InBatch(u) <=> u \in watcher.upserts
      /\ InBatch(u)' <=> u \in watcher'.upserts
      /\ JobRepairs(u)' <=> u = v
  BY <1>1 DEF InRescan, InBatch, JobRepairs
<1>5. ASSUME Counts(u) PROVE Accounted(u)'
  BY <1>1, <1>2, <1>3, <1>4, <1>5, SameIndex DEF FileRight, Accounted
<1>6. ASSUME Counts(u) PROVE ScanRight(u)'
  BY <1>1, <1>2, <1>3, <1>6, SameScan DEF FileRight, Outlasts
<1>7. ASSUME Counts(u) PROVE RemovalRight(u)' /\ JobRight(u)'
  BY <1>1, <1>2, <1>3, <1>4, <1>7 DEF FileRight, RemovalRight, JobRight
<1> QED
  BY <1>1, <1>2, <1>5, <1>6, <1>7, Quiet

\* The file is read: what the job goes on with is what the disk holds.  An
\* unreadable one ends the batch, whose other files no longer count.
LEMMA UpsertReadFile ==
  ASSUME Shape, NEW u \in Uri, FileRight(u), UpsertRead
  PROVE  FileRight(u)'
<1>1. /\ job.pc = "read" /\ watcher.pc = "apply" /\ watcher.removals = {}
      /\ job \in Jobs
  BY DEF UpsertRead, Shape, WorkRight
<1>2. UNCHANGED <<disk, modified, events, watched, pollVars, indexVars, rebuild>>
  BY DEF UpsertRead, diskVars, rootVars
<1>3. CASE disk[job.uri] \in Unreadable
  <2> DEFINE marked == [v \in Uri |->
        IF v \in watcher.upserts /\ gap[v] \in {"none", "unnamed"} THEN "aborted"
        ELSE gap[v]]
  <2>0. job' = NoJob /\ watcher' = Idle /\ gap' = marked
    BY <1>3, TextAssumption, SubsetAssumption DEF UpsertRead, Mark
  <2>1. /\ job'.pc = "none" /\ watcher'.pc = "idle" /\ watcher'.upserts = {}
        /\ watcher'.removals = {}
    BY <2>0, NoJobTyped DEF Idle
  <2>2. Counts(u)' => Counts(u) /\ gap'[u] = gap[u] /\ u \notin watcher.upserts
    BY <2>0 DEF Counts
  <2> HIDE DEF marked
  <2> SUFFICES ASSUME Counts(u)' PROVE FileRight(u)'
    BY DEF FileRight
  <2>3. /\ Counts(u) /\ gap'[u] = gap[u] /\ u \notin watcher.upserts
        /\ Accounted(u) /\ OnlyPlainOwed(u) /\ ScanRight(u) /\ LastEventRight(u)
        /\ PollRepeats(u)
    BY <2>2 DEF FileRight
  <2>4. /\ Plain(u)' <=> Plain(u)
        /\ Fingerprint(u)' = Fingerprint(u)
        /\ Named(u)' <=> Named(u)
        /\ ErrorQueued' <=> ErrorQueued
    BY <1>2 DEF Plain, Fingerprint, Named, ErrorQueued
  <2>5. Owed(u) => Owed(u)'
    BY <1>1, <1>2, <2>1, <2>3, <2>4 DEF Owed, PollRepeats, pollVars
  <2>6. Accounted(u)'
    <3>1. ~InBatch(u) /\ ~InRescan(u)
      BY <1>1, <2>3 DEF InBatch, InRescan
    <3>2. JobRepairs(u) => ~Plain(u)
      BY <1>3 DEF JobRepairs, Plain
    <3>3. Right(u)' <=> Right(u)
      BY <1>2, <2>3 DEF Right, Shown, indexVars
    <3> QED
      BY <2>3, <2>4, <2>5, <3>1, <3>2, <3>3 DEF Accounted
  <2>7. OnlyPlainOwed(u)'
    BY <1>1, <1>2, <2>1, <2>3, <2>4 DEF OnlyPlainOwed, Owed, pollVars
  <2>8. ScanRight(u)'
    BY <1>1, <1>2, <2>3, <2>4, <2>5, SameScan DEF Outlasts
  <2>9. LastEventRight(u)'
    BY <1>2, <2>3 DEF LastEventRight, LastKind
  <2>10. RemovalRight(u)' /\ JobRight(u)' /\ PollRepeats(u)'
    BY <2>1 DEF RemovalRight, JobRight, PollRepeats, InBatch
  <2> QED
    BY <2>6, <2>7, <2>8, <2>9, <2>10 DEF FileRight
<1>4. CASE disk[job.uri] \notin Unreadable
  <2>1. /\ UNCHANGED <<gap, watcher>>
        /\ job'.uri = job.uri /\ job'.model = job.model
        /\ \/ job'.pc = "context" /\ disk[job.uri] = Absent
           \/ job'.pc = "update" /\ job'.text = disk[job.uri]
    BY <1>1, <1>4 DEF UpsertRead, Jobs
  <2>2. /\ Owed(u)' <=> Owed(u)
        /\ Plain(u)' <=> Plain(u)
    BY <1>2, <2>1, QuietFacts
  <2>3. /\ InBatch(u)' <=> InBatch(u)
        /\ InRescan(u)' <=> InRescan(u)
        /\ Outlasts(u)' <=> Outlasts(u)
    BY <2>1, <2>2 DEF InBatch, InRescan, Outlasts
  <2>4. JobRepairs(u) => JobRepairs(u)'
    BY <1>1, <1>2, <2>1 DEF JobRepairs, indexVars
  <2>5. ASSUME Counts(u) PROVE Accounted(u)'
    BY <1>2, <2>1, <2>2, <2>3, <2>4, <2>5, SameIndex DEF FileRight, Accounted
  <2>6. ASSUME Counts(u) PROVE ScanRight(u)'
    BY <1>2, <2>2, <2>3, <2>6, SameScan DEF FileRight
  <2>7. ASSUME Counts(u) PROVE RemovalRight(u)' /\ JobRight(u)'
    BY <1>1, <1>2, <2>1, <2>2, <2>3, <2>7 DEF FileRight, RemovalRight, JobRight
  <2> QED
    BY <1>2, <2>1, <2>5, <2>6, <2>7, Quiet
<1> QED
  BY <1>3, <1>4

\* The last steps of a job: what they leave in the index is what matters.
LEMMA JobDone ==
  ASSUME Shape, NEW u \in Uri, FileRight(u),
         UNCHANGED <<disk, modified, gap, events, watched, pollVars, watcher, rebuild>>,
         \/ job'.pc \in {"none", "untrack"}
         \/ /\ job.pc = "update" /\ job'.pc = "track"
            /\ job'.uri = job.uri /\ job'.text = job.text,
         Counts(u) => Accounted(u)'
  PROVE  FileRight(u)'
<1>1. /\ Owed(u)' <=> Owed(u)
      /\ Plain(u)' <=> Plain(u)
  BY QuietFacts
<1>2. /\ InBatch(u)' <=> InBatch(u)
      /\ InRescan(u)' <=> InRescan(u)
      /\ Outlasts(u)' <=> Outlasts(u)
  BY <1>1 DEF InBatch, InRescan, Outlasts
<1>3. ASSUME Counts(u) PROVE ScanRight(u)'
  BY <1>1, <1>2, <1>3, SameScan DEF FileRight
<1>4. ASSUME Counts(u) PROVE RemovalRight(u)' /\ JobRight(u)'
  BY <1>1, <1>2, <1>4 DEF FileRight, RemovalRight, JobRight
<1> QED
  BY <1>3, <1>4, Quiet

\* The job of another file, or of another bucket, does not touch this one.
LEMMA OtherEntry ==
  ASSUME Shape, NEW u \in Uri, NEW text, job.uri \in Uri,
         UNCHANGED <<disk, gap, model, covered>>,
         \/ classes' = classes
         \/ classes' = [classes EXCEPT ![ContextOf[job.model][job.uri]][job.uri] = text],
         u # job.uri \/ ContextOf[job.model][u] # ContextOf[model][u]
  PROVE  Shown(u)' <=> Shown(u)
<1>1. classes \in [Bucket -> Snapshot] /\ ContextOf[model][u] \in Bucket
  BY ContextAssumption DEF Shape, IndexRight, Models
<1> QED
  BY <1>1 DEF Shown, ClassesOf, Snapshot

LEMMA UpsertUpdateFile ==
  ASSUME Shape, NEW u \in Uri, FileRight(u), UpsertUpdate
  PROVE  FileRight(u)'
<1>1. /\ job.pc = "update" /\ job'.pc = "track" /\ job.uri \in Uri /\ job.text \in Text
      /\ watcher.pc = "apply" /\ job'.uri = job.uri /\ job'.text = job.text
  BY DEF UpsertUpdate, Shape, WorkRight, Jobs
<1>2. UNCHANGED <<disk, modified, gap, events, watched, pollVars, watcher, rebuild,
                  model, covered>>
  BY DEF UpsertUpdate, diskVars, rootVars
<1>3. /\ Owed(u)' <=> Owed(u)
      /\ Plain(u)' <=> Plain(u)
  BY <1>2, QuietFacts
<1>4. /\ InBatch(u)' <=> InBatch(u)
      /\ ~InRescan(u)
  BY <1>1, <1>2 DEF InBatch, InRescan
<1>5. ASSUME Counts(u) PROVE Accounted(u)'
  <2>1. CASE job.uri # u
    <3>1. Shown(u)' <=> Shown(u)
      BY <1>1, <1>2, <2>1, OtherEntry DEF UpsertUpdate
    <3>2. Right(u) => Right(u)'
      BY <1>2, <2>1, <3>1 DEF Right, UpsertUpdate
    <3> QED
      BY <1>3, <1>4, <1>5, <2>1, <3>2 DEF FileRight, Accounted, JobRepairs
  <2>2. CASE job.uri = u /\ Owed(u)
    BY <1>3, <1>5, <2>2 DEF FileRight, OnlyPlainOwed, Accounted
  <2>3. CASE job.uri = u /\ ~Owed(u)
    <3>1. job.text = disk[u] /\ disk[u] # Absent
      BY <1>1, <1>5, <2>3, TextAssumption DEF FileRight, JobRight
    <3>2. CASE ContextOf[job.model][u] = ContextOf[model][u] /\ ClassesOf(disk[u]) # Absent
      <4>1. classes \in [Bucket -> Snapshot] /\ ContextOf[model][u] \in Bucket
        BY ContextAssumption DEF Shape, IndexRight, Models
      <4>2. classes'[ContextOf[model][u]][u] = disk[u]
        BY <2>3, <3>1, <3>2, <4>1 DEF UpsertUpdate, Snapshot
      <4>3. Shown(u)'
        BY <1>2, <3>2, <4>2 DEF Shown, ClassesOf
      <4> QED
        BY <4>3 DEF Accounted, Right
    <3>3. CASE ContextOf[job.model][u] # ContextOf[model][u] \/ ClassesOf(disk[u]) = Absent
      <4>1. Shown(u)' <=> Shown(u)
        BY <1>1, <1>2, <2>3, <3>1, <3>3, OtherEntry DEF UpsertUpdate, Shown, ClassesOf
      <4>2. Right(u) => Right(u)'
        BY <1>2, <3>1, <4>1 DEF Right
      <4>3. JobRepairs(u) => ~Plain(u)
        BY <1>1, <2>3, <3>1, <3>3, TextAssumption DEF JobRepairs, Plain, ClassesOf
      <4> QED
        BY <1>3, <1>4, <1>5, <4>2, <4>3 DEF FileRight, Accounted
    <3> QED
      BY <3>2, <3>3
  <2> QED
    BY <2>1, <2>2, <2>3
<1> QED
  BY <1>1, <1>2, <1>5, JobDone

LEMMA RemoveOriginFile ==
  ASSUME Shape, NEW u \in Uri, FileRight(u), RemoveOrigin
  PROVE  FileRight(u)'
<1>1. /\ job.pc = "remove" /\ job'.pc = "untrack" /\ job.uri \in Uri /\ watcher.pc = "apply"
  BY DEF RemoveOrigin, Shape, WorkRight, Jobs
<1>2. UNCHANGED <<disk, modified, gap, events, watched, pollVars, watcher, rebuild,
                  model, covered>>
  BY DEF RemoveOrigin, diskVars, rootVars
<1>3. /\ Owed(u)' <=> Owed(u)
      /\ Plain(u)' <=> Plain(u)
  BY <1>2, QuietFacts
<1>4. /\ InBatch(u)' <=> InBatch(u)
      /\ ~InRescan(u)
  BY <1>1, <1>2 DEF InBatch, InRescan
<1>5. ASSUME Counts(u) PROVE Accounted(u)'
  <2>1. CASE job.uri # u
    <3>1. Shown(u)' <=> Shown(u)
      BY <1>1, <1>2, <2>1, OtherEntry DEF RemoveOrigin
    <3>2. Right(u) => Right(u)'
      BY <1>2, <2>1, <3>1 DEF Right, RemoveOrigin
    <3> QED
      BY <1>3, <1>4, <1>5, <2>1, <3>2 DEF FileRight, Accounted, JobRepairs
  <2>2. CASE job.uri = u /\ Owed(u)
    BY <1>3, <1>5, <2>2 DEF FileRight, OnlyPlainOwed, Accounted
  <2>3. CASE job.uri = u /\ ~Owed(u) /\ u \in watcher.upserts /\ Plain(u)
    BY <1>1, <1>3, <1>4, <2>3 DEF Accounted, InBatch
  <2>4. CASE job.uri = u /\ ~Owed(u) /\ (u \notin watcher.upserts \/ ~Plain(u))
    <3>1. ClassesOf(disk[u]) = Absent
      BY <1>1, <1>5, <2>4 DEF FileRight, JobRight, Plain, ClassesOf
    <3>2. CASE ContextOf[job.model][u] = ContextOf[model][u]
      <4>1. classes \in [Bucket -> Snapshot] /\ ContextOf[model][u] \in Bucket
        BY ContextAssumption DEF Shape, IndexRight, Models
      <4>2. classes'[ContextOf[model][u]][u] = Absent
        BY <2>4, <3>2, <4>1 DEF RemoveOrigin, Snapshot
      <4>3. Shown(u)'
        BY <1>2, <3>1, <4>2 DEF Shown, ClassesOf
      <4> QED
        BY <4>3 DEF Accounted, Right
    <3>3. CASE ContextOf[job.model][u] # ContextOf[model][u]
      <4>1. Shown(u)' <=> Shown(u)
        BY <1>1, <1>2, <2>4, <3>3, OtherEntry DEF RemoveOrigin
      <4>2. Right(u) => Right(u)'
        BY <1>2, <4>1 DEF Right, RemoveOrigin
      <4>3. ~JobRepairs(u)
        BY <1>1, <3>3 DEF JobRepairs
      <4> QED
        BY <1>3, <1>4, <1>5, <4>2, <4>3 DEF FileRight, Accounted
    <3> QED
      BY <3>2, <3>3
  <2> QED
    BY <2>1, <2>2, <2>3, <2>4
<1> QED
  BY <1>1, <1>2, <1>5, JobDone

\* The file is noted as indexed, or as not indexed: only a deletion that is
\* still owed could mind the first.
LEMMA EndJobFile ==
  ASSUME Shape, NEW u \in Uri, FileRight(u), NEW pc \in {"track", "untrack"},
         NEW uris, EndJob(pc, uris), Owed(u) \/ (Counts(u) /\ Right(u) => Right(u)')
  PROVE  FileRight(u)'
<1>1. /\ job.pc = pc /\ job'.pc = "none" /\ watcher.pc = "apply"
      /\ UNCHANGED <<disk, modified, gap, events, watched, pollVars, watcher, rebuild>>
  BY NoJobTyped DEF EndJob, Shape, WorkRight, diskVars, rootVars
<1>2. /\ Owed(u)' <=> Owed(u)
      /\ Plain(u)' <=> Plain(u)
  BY <1>1, QuietFacts
<1>3. /\ InBatch(u)' <=> InBatch(u)
      /\ ~InRescan(u) /\ ~JobRepairs(u)
  BY <1>1 DEF InBatch, InRescan, JobRepairs
<1>4. ASSUME Counts(u) PROVE Accounted(u)'
  BY <1>2, <1>3, <1>4 DEF FileRight, Accounted, OnlyPlainOwed
<1> QED
  BY <1>1, <1>4, JobDone

LEMMA TrackIndexedUriFile ==
  ASSUME Shape, NEW u \in Uri, FileRight(u), TrackIndexedUri
  PROVE  FileRight(u)'
<1>1. /\ job.pc = "track" /\ job.text \in Text
      /\ UNCHANGED <<disk, gap, model, classes, covered>>
      /\ tracked' = tracked \cup {job.uri}
  BY DEF TrackIndexedUri, EndJob, Shape, WorkRight, diskVars
<1>2. ASSUME ~Owed(u), Counts(u), Right(u) PROVE Right(u)'
  <2>1. Shown(u)' <=> Shown(u)
    BY <1>1 DEF Shown, ClassesOf
  <2>2. job.uri = u => disk[u] # Absent
    BY <1>1, <1>2, TextAssumption DEF FileRight, JobRight
  <2> QED
    BY <1>1, <1>2, <2>1, <2>2 DEF Right
<1> QED
  BY <1>2, EndJobFile DEF TrackIndexedUri

LEMMA UntrackIndexedUriFile ==
  ASSUME Shape, NEW u \in Uri, FileRight(u), UntrackIndexedUri
  PROVE  FileRight(u)'
<1>1. /\ UNCHANGED <<disk, gap, model, classes, covered>>
      /\ tracked' = tracked \ {job.uri}
  BY DEF UntrackIndexedUri, EndJob, diskVars
<1>2. Right(u) => Right(u)'
  BY <1>1 DEF Right, Shown, ClassesOf
<1> QED
  BY <1>2, EndJobFile DEF UntrackIndexedUri

-----------------------------------------------------------------------------
(* The watcher's own steps.                                                 *)

\* No full reindex is under way when the wait ends.
LEMMA WaitForFullReindexFile ==
  ASSUME Shape, NEW u \in Uri, FileRight(u), WaitForFullReindex
  PROVE  FileRight(u)'
<1>1. /\ watcher.pc = "wait"
      /\ watcher'.pc = IF watcher.again THEN "scan" ELSE "serial"
      /\ watcher'.again = watcher.again /\ watcher'.rescan = watcher.rescan
      /\ watcher'.roots = watcher.roots
      /\ watcher'.removals = watcher.removals /\ watcher'.upserts = watcher.upserts
  BY DEF WaitForFullReindex, Goto, Shape, BatchRight, Batches
<1>2. /\ watcher.again => watcher.removals \cup watcher.upserts = {}
      /\ job.pc = "none" /\ rebuild.pc = "idle"
  BY <1>1 DEF Shape, BatchRight, WorkRight, FlagsRight, WaitForFullReindex
<1>3. UNCHANGED <<disk, modified, gap, events, watched, pollVars, indexVars, rebuild, job>>
  BY DEF WaitForFullReindex, diskVars, rootVars
<1>4. /\ Owed(u)' <=> Owed(u)
      /\ Plain(u)' <=> Plain(u)
  BY <1>1, <1>3, QuietFacts
<1>5. /\ InBatch(u)' <=> InBatch(u)
      /\ InRescan(u) => InRescan(u)'
      /\ ~JobRepairs(u)
  BY <1>1, <1>2, <1>3 DEF InBatch, InRescan, JobRepairs
<1>6. ASSUME Counts(u) PROVE Accounted(u)'
  BY <1>3, <1>4, <1>5, <1>6, SameIndex DEF FileRight, Accounted
<1>7. ScanRight(u)'
  BY <1>2, <1>3 DEF ScanRight, Scanned
<1>8. ASSUME Counts(u) PROVE RemovalRight(u)' /\ JobRight(u)'
  BY <1>1, <1>2, <1>3, <1>4, <1>5, <1>8 DEF FileRight, RemovalRight, JobRight
<1> QED
  BY <1>1, <1>3, <1>6, <1>7, <1>8, Quiet

LEMMA ReadSerialFile ==
  ASSUME Shape, NEW u \in Uri, FileRight(u), ReadSerial
  PROVE  FileRight(u)'
<1>1. /\ watcher.pc = "serial"
      /\ watcher'.pc = IF watcher.rescan THEN "scan" ELSE "apply"
      /\ watcher'.again = watcher.again /\ watcher'.rescan = watcher.rescan
      /\ watcher'.roots = watcher.roots
      /\ watcher'.removals = watcher.removals /\ watcher'.upserts = watcher.upserts
  BY DEF ReadSerial, Shape, BatchRight, Batches
<1>2. ~watcher.again /\ job.pc = "none"
  BY <1>1 DEF Shape, BatchRight, WorkRight
<1>3. UNCHANGED <<disk, modified, gap, events, watched, pollVars, indexVars, rebuild, job>>
  BY DEF ReadSerial, diskVars, rootVars
<1>4. /\ Owed(u)' <=> Owed(u)
      /\ Plain(u)' <=> Plain(u)
  BY <1>1, <1>3, QuietFacts
<1>5. /\ InBatch(u)' <=> InBatch(u)
      /\ InRescan(u) => InRescan(u)'
      /\ ~JobRepairs(u)
  BY <1>1, <1>2, <1>3 DEF InBatch, InRescan, JobRepairs
<1>6. ASSUME Counts(u) PROVE Accounted(u)'
  BY <1>3, <1>4, <1>5, <1>6, SameIndex DEF FileRight, Accounted
<1>7. ASSUME Counts(u) PROVE ScanRight(u)'
  BY <1>1, <1>3, <1>4, <1>7, SameScan DEF FileRight, Outlasts
<1>8. ASSUME Counts(u) PROVE RemovalRight(u)' /\ JobRight(u)'
  BY <1>1, <1>2, <1>3, <1>4, <1>5, <1>8 DEF FileRight, RemovalRight, JobRight
<1> QED
  BY <1>1, <1>3, <1>6, <1>7, <1>8, Quiet

\* The rescan looks at the disk ...
LEMMA RescanCollectFile ==
  ASSUME Shape, NEW u \in Uri, FileRight(u), RescanCollect
  PROVE  FileRight(u)'
<1>1. /\ watcher.pc = "scan" /\ watcher'.pc = "diff"
      /\ watcher'.current = {v \in watcher.roots : disk[v] # Absent}
      /\ watcher'.roots = watcher.roots
  BY DEF RescanCollect, Shape, BatchRight, Batches
<1>2. job.pc = "none"
  BY <1>1 DEF Shape, WorkRight
<1>3. UNCHANGED <<disk, modified, gap, events, watched, pollVars, indexVars, rebuild, job>>
  BY DEF RescanCollect, diskVars, rootVars
<1>4. /\ Owed(u)' <=> Owed(u)
      /\ Plain(u)' <=> Plain(u)
  BY <1>1, <1>3, QuietFacts
<1>5. /\ ~InBatch(u) /\ ~InBatch(u)'
      /\ InRescan(u) => InRescan(u)'
      /\ ~JobRepairs(u)
  BY <1>1, <1>2, <1>3 DEF InBatch, InRescan, JobRepairs
<1>6. ASSUME Counts(u) PROVE Accounted(u)'
  BY <1>3, <1>4, <1>5, <1>6, SameIndex DEF FileRight, Accounted
<1>7. ASSUME Counts(u) PROVE ScanRight(u)'
  BY <1>1, <1>3, <1>4, <1>7, SameScan DEF FileRight, Outlasts
<1>8. ASSUME Counts(u) PROVE RemovalRight(u)' /\ JobRight(u)'
  BY <1>1, <1>2, <1>3, <1>4, <1>5, <1>8 DEF FileRight, RemovalRight, JobRight
<1> QED
  BY <1>1, <1>3, <1>6, <1>7, <1>8, Quiet

\* ... and finds what is there and what of the tracked files is gone.
LEMMA RescanDiffFile ==
  ASSUME Shape, NEW u \in Uri, FileRight(u), RescanDiff
  PROVE  FileRight(u)'
<1>1. /\ watcher.pc = "diff" /\ watcher'.pc = "apply"
      /\ watcher'.removals = (tracked \cap watcher.roots) \ watcher.current
      /\ watcher'.upserts = watcher.current
  BY DEF RescanDiff, Shape, BatchRight, Batches
<1>2. job.pc = "none"
  BY <1>1 DEF Shape, WorkRight
<1>3. UNCHANGED <<disk, modified, gap, events, watched, pollVars, indexVars, rebuild, job>>
  BY DEF RescanDiff, diskVars, rootVars
<1>4. /\ Owed(u)' <=> Owed(u)
      /\ Plain(u)' <=> Plain(u)
  BY <1>1, <1>3, QuietFacts
<1>5. /\ ~InBatch(u) /\ ~JobRepairs(u) /\ ~InRescan(u)'
      /\ InBatch(u)' <=> \/ u \in watcher.current
                         \/ u \in tracked /\ u \in watcher.roots /\ u \notin watcher.current
  BY <1>1, <1>2, <1>3 DEF InBatch, InRescan, JobRepairs
<1>6. ASSUME Counts(u) PROVE Accounted(u)'
  <2>1. CASE Right(u) \/ (Plain(u) /\ Owed(u))
    BY <1>3, <1>4, <2>1, SameIndex DEF Accounted
  <2>2. CASE ~Right(u) /\ ~Owed(u) /\ InRescan(u) /\ Plain(u)
    <3>1. u \in watcher.current <=> disk[u] # Absent
      BY <1>1, <1>6, <2>2 DEF FileRight, RemovalRight, InRescan
    <3>2. u \in tracked \/ disk[u] # Absent
      BY <1>6, <2>2 DEF Right, InRescan
    <3>3. InBatch(u)'
      BY <1>5, <2>2, <3>1, <3>2 DEF InRescan
    <3> QED
      BY <1>4, <2>2, <3>3 DEF Accounted
  <2> QED
    BY <1>5, <1>6, <2>1, <2>2 DEF FileRight, Accounted
<1>7. ASSUME Counts(u) PROVE ScanRight(u)'
  BY <1>1, <1>3, <1>4, <1>7, SameScan DEF FileRight, Outlasts
<1>8. ASSUME Counts(u) PROVE RemovalRight(u)' /\ JobRight(u)'
  BY <1>1, <1>2, <1>3, <1>4, <1>5, <1>8 DEF FileRight, RemovalRight, JobRight
<1> QED
  BY <1>1, <1>3, <1>6, <1>7, <1>8, Quiet

\* The batch is through; polling now compares with the batch's own snapshot.
LEMMA FinishApplyFile ==
  ASSUME Shape, NEW u \in Uri, FileRight(u), FinishApply
  PROVE  FileRight(u)'
<1>1. /\ watcher.pc = "apply" /\ job.pc = "none"
      /\ watcher.removals = {} /\ watcher.upserts = {}
  BY DEF FinishApply
<1>2. /\ watcher'.removals = {} /\ watcher'.upserts = {}
      /\ \/ watcher'.pc = "wait" /\ UNCHANGED previous
         \/ watcher'.pc = "idle" /\ previous' = IF Polling THEN polled ELSE previous
  <2>1. CASE ~watcher.again /\ serial # watcher.serial
    <3>1. PICK yes \in BOOLEAN : watcher' = [watcher EXCEPT !.pc = "wait", !.again = yes]
      BY <2>1 DEF FinishApply
    <3>2. UNCHANGED previous
      BY <2>1 DEF FinishApply
    <3>3. watcher \in Batches
      BY DEF Shape, BatchRight
    <3>4. /\ watcher'.pc = "wait" /\ watcher'.removals = watcher.removals
          /\ watcher'.upserts = watcher.upserts
      BY <3>1, <3>3 DEF Batches
    <3> QED
      BY <1>1, <3>2, <3>4
  <2>2. CASE ~(~watcher.again /\ serial # watcher.serial)
    BY <2>2 DEF FinishApply, Idle
  <2> QED
    BY <2>1, <2>2
<1>3. UNCHANGED <<disk, modified, gap, events, watched, polled, indexVars, rebuild, job>>
  BY DEF FinishApply, diskVars, rootVars
<1>4. /\ Counts(u)' <=> Counts(u)
      /\ Plain(u)' <=> Plain(u)
      /\ Fingerprint(u)' = Fingerprint(u)
      /\ Named(u)' <=> Named(u)
      /\ ErrorQueued' <=> ErrorQueued
      /\ LastEventRight(u)' <=> LastEventRight(u)
  BY <1>3 DEF Counts, Plain, Fingerprint, Named, ErrorQueued, LastEventRight, LastKind
<1>5. Owed(u)' <=> Owed(u)
  BY <1>1, <1>2, <1>3, <1>4 DEF Owed
<1>6. ~InBatch(u) /\ ~InRescan(u) /\ ~JobRepairs(u) /\ ~InBatch(u)'
  BY <1>1, <1>2 DEF InBatch, InRescan, JobRepairs
<1> SUFFICES ASSUME Counts(u) PROVE FileRight(u)'
  BY <1>4 DEF FileRight
<1>7. Accounted(u)'
  BY <1>3, <1>4, <1>5, <1>6, SameIndex DEF FileRight, Accounted
<1>8. OnlyPlainOwed(u)'
  BY <1>1, <1>2, <1>3, <1>4, <1>5 DEF FileRight, OnlyPlainOwed, Owed
<1>9. ScanRight(u)'
  BY <1>1, <1>3, <1>4, <1>5, SameScan DEF FileRight, Outlasts
<1>10. RemovalRight(u)' /\ JobRight(u)'
  BY <1>1, <1>2, <1>3, <1>6 DEF RemovalRight, JobRight
<1>11. PollRepeats(u)'
  BY <1>1, <1>2, <1>4, <1>5 DEF FileRight, PollRepeats
<1> QED
  BY <1>4, <1>7, <1>8, <1>9, <1>10, <1>11 DEF FileRight

LEMMA PollTickFile ==
  ASSUME Shape, NEW u \in Uri, FileRight(u), PollTick
  PROVE  FileRight(u)'
<1> DEFINE current == SnapshotRoots(watched)
           removals == {v \in Uri : previous[v] # Absent /\ current[v] = Absent}
           upserts == {v \in Uri : current[v] # Absent /\ previous[v] # current[v]}
<1>1. Polling /\ watcher.pc = "idle" /\ polled' = current
  BY DEF PollTick
<1>2. PICK no \in BOOLEAN : no = FALSE
  OBVIOUS
<1>3. Start(no, removals, upserts)
  BY <1>2 DEF PollTick
<1>4. removals \in SUBSET Uri /\ upserts \in SUBSET Uri /\ RootsRight /\ job.pc = "none"
  BY <1>1 DEF Shape, WorkRight
<1>5. /\ u \in watched => current[u] = Fingerprint(u)
      /\ u \notin watched => current[u] = Absent /\ previous[u] = Absent
  BY <1>1 DEF SnapshotRoots, Fingerprint, Shape, PollRight
<1>6. /\ u \in removals <=> previous[u] # Absent /\ current[u] = Absent
      /\ u \in upserts <=> current[u] # Absent /\ previous[u] # current[u]
  OBVIOUS
<1> HIDE DEF current, removals, upserts
<1>7. /\ watcher'.pc = "wait" /\ watcher'.rescan = no /\ watcher'.again = FALSE
      /\ watcher'.removals = removals /\ watcher'.upserts = upserts
  BY <1>3, <1>4, Started
<1>8. UNCHANGED <<disk, modified, gap, events, watched, previous, indexVars, rebuild, job>>
  BY DEF PollTick, diskVars, rootVars
<1>9. /\ Counts(u)' <=> Counts(u)
      /\ Plain(u)' <=> Plain(u)
      /\ Fingerprint(u)' = Fingerprint(u)
      /\ LastEventRight(u)' <=> LastEventRight(u)
  BY <1>8 DEF Counts, Plain, Fingerprint, LastEventRight, LastKind
<1>10. ~Owed(u)'
  BY <1>1, <1>5, <1>7, <1>8, <1>9 DEF Owed
<1>11. Owed(u) => u \in removals \cup upserts
  BY <1>1, <1>5, <1>6 DEF Owed
<1>12. InBatch(u)' <=> u \in removals \cup upserts
  BY <1>2, <1>7 DEF InBatch
<1>13. ~InBatch(u) /\ ~InRescan(u) /\ ~JobRepairs(u)
  BY <1>1, <1>4 DEF InBatch, InRescan, JobRepairs
<1> SUFFICES ASSUME Counts(u) PROVE FileRight(u)'
  BY <1>9 DEF FileRight
<1>14. Accounted(u)'
  BY <1>8, <1>9, <1>11, <1>12, <1>13, SameIndex DEF FileRight, Accounted
<1>15. OnlyPlainOwed(u)'
  BY <1>1, <1>8, <1>9, <1>10 DEF FileRight, OnlyPlainOwed
<1>16. ScanRight(u)'
  BY <1>1, <1>7, <1>8, <1>9, <1>11, <1>12, SameScan DEF FileRight, Outlasts
<1>17. RemovalRight(u)'
  <2>1. u \in removals => disk[u] = Absent
    BY <1>5, <1>6, TextAssumption DEF Fingerprint, Shape, DiskRight
  <2> QED
    BY <1>7, <1>8, <1>12, <2>1 DEF RemovalRight
<1>18. JobRight(u)' /\ PollRepeats(u)'
  BY <1>4, <1>8, <1>10 DEF JobRight, PollRepeats
<1> QED
  BY <1>9, <1>14, <1>15, <1>16, <1>17, <1>18 DEF FileRight

\* Polling takes a new snapshot under the new roots: what it could not have
\* seen does not count any more.
LEMMA RootsChangedFile ==
  ASSUME Shape, NEW u \in Uri, FileRight(u), RootsChanged
  PROVE  FileRight(u)'
<1>1. watcher.pc = "idle" /\ job.pc = "none"
  BY DEF RootsChanged, Shape, WorkRight
<1>2. UNCHANGED <<disk, modified, events, polled, indexVars, rebuild, watcher, job>>
  BY DEF RootsChanged
<1>3. /\ Polling => previous'[u] = IF u \in watched' THEN Fingerprint(u) ELSE Absent
      /\ ~Polling => UNCHANGED <<previous, gap>>
      /\ Counts(u)' => Counts(u) /\ gap'[u] = gap[u]
  BY DEF RootsChanged, SnapshotRoots, Fingerprint, Mark, Counts
<1> SUFFICES ASSUME Counts(u)' PROVE FileRight(u)'
  BY DEF FileRight
<1>4. Counts(u) /\ gap'[u] = gap[u]
  BY <1>3
<1>5. /\ Plain(u)' <=> Plain(u)
      /\ Fingerprint(u)' = Fingerprint(u)
      /\ Named(u)' <=> Named(u)
      /\ ErrorQueued' <=> ErrorQueued
      /\ LastEventRight(u)' <=> LastEventRight(u)
      /\ Right(u)' <=> Right(u)
  BY <1>2, <1>4 DEF Plain, Fingerprint, Named, ErrorQueued, LastEventRight, LastKind,
                    Right, Shown, indexVars
<1>6. Owed(u)' <=> Owed(u)
  <2>1. CASE Polling
    <3>1. previous[u] = SnapshotRoots(Uri)[u]
      BY <1>4, <2>1 DEF RootsChanged, Mark, Counts
    <3>2. previous[u] = Fingerprint(u)
      BY <3>1 DEF SnapshotRoots, Fingerprint
    <3> QED
      BY <1>1, <1>2, <1>3, <1>5, <2>1, <3>2 DEF Owed
  <2>2. CASE ~Polling
    BY <1>4, <1>5, <2>2 DEF Owed
  <2> QED
    BY <2>1, <2>2
<1>7. ~InBatch(u) /\ ~InRescan(u) /\ ~JobRepairs(u) /\ ~InBatch(u)'
  BY <1>1, <1>2 DEF InBatch, InRescan, JobRepairs
<1>8. Accounted(u)'
  BY <1>4, <1>5, <1>6, <1>7 DEF FileRight, Accounted
<1>9. OnlyPlainOwed(u)'
  BY <1>3, <1>4, <1>5, <1>6 DEF FileRight, OnlyPlainOwed
<1>10. ScanRight(u)'
  BY <1>1, <1>2, <1>4, <1>5, <1>6, SameScan DEF FileRight, Outlasts
<1>11. RemovalRight(u)' /\ JobRight(u)' /\ PollRepeats(u)'
  BY <1>1, <1>2, <1>7 DEF RemovalRight, JobRight, PollRepeats
<1> QED
  BY <1>4, <1>5, <1>8, <1>9, <1>10, <1>11 DEF FileRight

-----------------------------------------------------------------------------
(* The disk and what is reported of it.                                     *)

\* A change of the file itself: it counts when it will be taken up.
LEMMA Reported ==
  ASSUME Shape, NEW u \in Uri,
         Counts(u)' => Plain(u)' /\ Owed(u)' /\ LastEventRight(u)' /\ PollRepeats(u)'
  PROVE  FileRight(u)'
<1> SUFFICES ASSUME Counts(u)' PROVE FileRight(u)'
  BY DEF FileRight
<1>1. Plain(u)' /\ Owed(u)' /\ LastEventRight(u)' /\ PollRepeats(u)'
  OBVIOUS
<1>2. Accounted(u)' /\ OnlyPlainOwed(u)' /\ ScanRight(u)'
  BY <1>1 DEF Accounted, OnlyPlainOwed, ScanRight, Outlasts
<1>3. RemovalRight(u)' /\ JobRight(u)'
  BY <1>1 DEF RemovalRight, JobRight
<1> QED
  BY <1>1, <1>2, <1>3 DEF FileRight

\* A change of another file only adds an event that does not name this one.
LEMMA OtherFile ==
  ASSUME Shape, NEW u \in Uri, NEW v \in Uri \ {u}, FileRight(u),
         NEW change \in Change, change.uri = v, change.kind # "error",
         events' = events \/ events' = Append(events, change),
         disk'[u] = disk[u], modified'[u] = modified[u], gap'[u] = gap[u],
         UNCHANGED <<watched, pollVars, indexVars, rebuild, watcher, job>>
  PROVE  FileRight(u)'
<1>1. events \in Seq(Change)
  BY DEF Shape, EventsRight
<1>2. /\ Counts(u)' <=> Counts(u)
      /\ Plain(u)' <=> Plain(u)
      /\ Fingerprint(u)' = Fingerprint(u)
      /\ Right(u)' <=> Right(u)
  BY DEF Counts, Plain, Fingerprint, Right, Shown, ClassesOf, indexVars
<1>3. (Named(u)' <=> Named(u)) /\ (ErrorQueued' <=> ErrorQueued)
  BY <1>1 DEF Named, ErrorQueued
<1>4. LastEventRight(u) => LastEventRight(u)'
  BY <1>1 DEF LastEventRight, LastKind
<1>5. Owed(u)' <=> Owed(u)
  BY <1>2, <1>3 DEF Owed, pollVars
<1>6. /\ InBatch(u)' <=> InBatch(u)
      /\ InRescan(u)' <=> InRescan(u)
      /\ JobRepairs(u)' <=> JobRepairs(u)
      /\ Outlasts(u)' <=> Outlasts(u)
  BY <1>5 DEF InBatch, InRescan, JobRepairs, Outlasts, indexVars
<1> SUFFICES ASSUME Counts(u) PROVE FileRight(u)'
  BY <1>2 DEF FileRight
<1>7. Accounted(u)'
  BY <1>2, <1>5, <1>6 DEF FileRight, Accounted
<1>8. OnlyPlainOwed(u)'
  BY <1>2, <1>5 DEF FileRight, OnlyPlainOwed, pollVars
<1>9. ScanRight(u)'
  BY <1>2, <1>6 DEF FileRight, ScanRight, Scanned
<1>10. RemovalRight(u)' /\ JobRight(u)'
  BY <1>5, <1>6 DEF FileRight, RemovalRight, JobRight
<1>11. PollRepeats(u)'
  BY <1>2, <1>5 DEF FileRight, PollRepeats, pollVars
<1> QED
  BY <1>2, <1>4, <1>7, <1>8, <1>9, <1>10, <1>11 DEF FileRight

\* The event of the change is the last of the queue.
LEMMA LastOfQueue ==
  ASSUME NEW queue \in Seq(Change), NEW change \in Change, events' = Append(queue, change)
  PROVE  /\ Len(queue) + 1 \in DOMAIN events'
         /\ events'[Len(queue) + 1] = change
         /\ \A i \in DOMAIN events' : Len(queue) + 1 >= i
  OBVIOUS

LEMMA WriteFile ==
  ASSUME Shape, NEW u \in Uri, FileRight(u), NEW v \in Uri, NEW text \in Text, Write(v, text)
  PROVE  FileRight(u)'
<1> DEFINE change == [kind |-> "upsert", uri |-> v]
<1>1. /\ change \in Change /\ change.uri = v /\ change.kind = "upsert"
      /\ events \in Seq(Change)
  BY DEF Change, Shape, EventsRight
<1>2. /\ events' = IF ~Polling /\ v \in watched THEN Append(events, change) ELSE events
      /\ disk' = [disk EXCEPT ![v] = text] /\ modified' = [modified EXCEPT ![v] = writes + 1]
      /\ gap' = [gap EXCEPT ![v] = IF v \in watched THEN ContentGap(text) ELSE "unwatched"]
      /\ UNCHANGED <<watched, pollVars, indexVars, rebuild, watcher, job>>
  BY DEF Write, Raise, Watched, rootVars
<1>3. disk \in Snapshot /\ modified \in [Uri -> 0 .. writes] /\ gap \in [Uri -> Gap] /\ writes \in Nat
  BY DEF Shape, DiskRight
<1> HIDE DEF change
<1>4. CASE u # v
  BY <1>1, <1>2, <1>3, <1>4, OtherFile DEF Snapshot
<1>5. CASE u = v
  <2> SUFFICES ASSUME Counts(u)' PROVE Plain(u)' /\ Owed(u)' /\ LastEventRight(u)' /\ PollRepeats(u)'
    BY Reported
  <2>1. /\ u \in watched /\ gap'[u] = "none" /\ disk'[u] = text
        /\ text \notin Classless \cup Unreadable
        /\ modified'[u] = writes + 1
    BY <1>2, <1>3, <1>5 DEF Counts, ContentGap, Snapshot
  <2>2. Plain(u)'
    BY <2>1 DEF Plain
  <2>3. Fingerprint(u)' = writes + 1
    BY <2>1, TextAssumption DEF Fingerprint
  <2>4. previous[u] # writes + 1 /\ polled[u] # writes + 1
    BY <1>3, TextAssumption DEF Shape, PollRight
  <2>5. CASE Polling
    <3>1. events' = <<>>
      BY <1>2, <2>5 DEF Shape, EventsRight
    <3> QED
      BY <1>2, <2>1, <2>2, <2>3, <2>4, <2>5, <3>1 DEF Owed, PollRepeats, LastEventRight, pollVars
  <2>6. CASE ~Polling
    <3>1. events' = Append(events, change)
      BY <1>2, <1>5, <2>1, <2>6
    <3>2. /\ Len(events) + 1 \in DOMAIN events' /\ events'[Len(events) + 1] = change
          /\ \A i \in DOMAIN events' : Len(events) + 1 >= i
      BY <1>1, <3>1, LastOfQueue
    <3>3. Named(u)'
      BY <1>1, <1>5, <3>2 DEF Named
    <3>4. LastKind(u)' = "upsert"
      BY <2>1, TextAssumption DEF LastKind
    <3>5. LastEventRight(u)'
      BY <1>5, <3>2, <3>4 DEF LastEventRight, change
    <3> QED
      BY <2>2, <2>6, <3>3, <3>5 DEF Owed, PollRepeats
  <2> QED
    BY <2>5, <2>6
<1> QED
  BY <1>4, <1>5

LEMMA DeleteFile ==
  ASSUME Shape, NEW u \in Uri, FileRight(u), NEW v \in Uri, Delete(v)
  PROVE  FileRight(u)'
<1>1. PICK change \in Change :
        /\ change.uri = v
        /\ events' = IF ~Polling /\ v \in watched THEN Append(events, change) ELSE events
        /\ \/ /\ change = [kind |-> "remove", uri |-> v]
              /\ gap' = [gap EXCEPT ![v] =
                    IF v \in watched THEN IF Polling /\ Unseen(v) THEN "skipped" ELSE "none"
                    ELSE "unwatched"]
           \/ /\ change = [kind |-> "rescan", uri |-> v]
              /\ ~Polling
              /\ gap' = [gap EXCEPT ![v] = IF v \in watched THEN "unnamed" ELSE "unwatched"]
  <2>1. [kind |-> "remove", uri |-> v] \in Change /\ [kind |-> "rescan", uri |-> v] \in Change
    BY DEF Change
  <2> QED
    BY <2>1 DEF Delete, Raise, Watched
<1>2. change.kind \in {"remove", "rescan"} /\ events \in Seq(Change)
  BY <1>1 DEF Shape, EventsRight
<1>3. /\ disk' = [disk EXCEPT ![v] = Absent]
      /\ UNCHANGED <<modified, watched, pollVars, indexVars, rebuild, watcher, job>>
  BY DEF Delete, rootVars
<1>4. disk \in Snapshot /\ gap \in [Uri -> Gap]
  BY DEF Shape, DiskRight
<1>5. CASE u # v
  <2>1. disk'[u] = disk[u] /\ gap'[u] = gap[u]
    BY <1>1, <1>3, <1>4, <1>5 DEF Snapshot
  <2>2. change.kind # "error" /\ (events' = events \/ events' = Append(events, change))
    BY <1>1, <1>2
  <2> QED
    BY <1>1, <1>3, <1>5, <2>1, <2>2, OtherFile
<1>6. CASE u = v
  <2> SUFFICES ASSUME Counts(u)' PROVE Plain(u)' /\ Owed(u)' /\ LastEventRight(u)' /\ PollRepeats(u)'
    BY Reported
  <2>1. disk'[u] = Absent /\ u \in watched
    BY <1>1, <1>3, <1>4, <1>6 DEF Counts, Snapshot
  <2>2. Plain(u)' /\ Fingerprint(u)' = Absent
    BY <2>1, TextAssumption, SubsetAssumption DEF Plain, Fingerprint
  <2>3. CASE Polling
    <3>1. ~Unseen(u)
      BY <1>1, <1>4, <1>6, <2>1, <2>3 DEF Counts
    <3>2. events' = <<>>
      BY <1>1, <2>3 DEF Shape, EventsRight
    <3> QED
      BY <1>3, <2>1, <2>2, <2>3, <3>1, <3>2 DEF Owed, PollRepeats, LastEventRight, Unseen, pollVars
  <2>4. CASE ~Polling
    <3>1. events' = Append(events, change)
      BY <1>1, <1>6, <2>1, <2>4
    <3>2. /\ Len(events) + 1 \in DOMAIN events' /\ events'[Len(events) + 1] = change
          /\ \A i \in DOMAIN events' : Len(events) + 1 >= i
      BY <1>2, <3>1, LastOfQueue
    <3>3. Named(u)'
      BY <1>1, <1>2, <1>6, <3>2 DEF Named
    <3>4. change = [kind |-> LastKind(u)', uri |-> u]
      BY <1>1, <1>4, <1>6, <2>1, <2>4 DEF LastKind
    <3>5. LastEventRight(u)'
      BY <3>2, <3>4 DEF LastEventRight
    <3> QED
      BY <2>2, <2>4, <3>3, <3>5 DEF Owed, PollRepeats
  <2> QED
    BY <2>3, <2>4
<1> QED
  BY <1>5, <1>6

\* The backend forgets its queue: what was named there has a gap now, and the
\* error will ask for a rescan.
LEMMA WatchErrorFile ==
  ASSUME Shape, NEW u \in Uri, FileRight(u), WatchError
  PROVE  FileRight(u)'
<1> DEFINE lost == NamedBy({events[i] : i \in 1 .. Len(events)})
<1>1. /\ ~Polling
      /\ gap'[u] = IF u \in lost /\ gap[u] \in {"none", "unnamed"} THEN "unnamed" ELSE gap[u]
      /\ UNCHANGED <<disk, modified, watched, pollVars, indexVars, rebuild, watcher, job>>
  BY DEF WatchError, Mark, rootVars
<1>2. Len(events') = 1 /\ events'[1].kind = "error" /\ DOMAIN events' = {1}
  BY DEF WatchError
<1>3. u \in lost <=> Named(u)
  BY DEF NamedBy, Named, Shape, EventsRight
<1> HIDE DEF lost
<1>4. /\ Counts(u)' <=> Counts(u)
      /\ Plain(u)' <=> Plain(u)
      /\ gap[u] = "unnamed" => gap'[u] = "unnamed"
      /\ gap'[u] = "unnamed" => Named(u) \/ gap[u] = "unnamed"
  BY <1>1, <1>3 DEF Counts, Plain
<1>5. ErrorQueued' /\ ~Named(u)'
  BY <1>2 DEF ErrorQueued, Named
<1> SUFFICES ASSUME Counts(u) PROVE FileRight(u)'
  BY <1>4 DEF FileRight
<1>6. Named(u) => gap'[u] = "unnamed"
  BY <1>1, <1>3 DEF Counts
<1>7. Owed(u) => Owed(u)'
  BY <1>1, <1>4, <1>5, <1>6 DEF Owed
<1>8. gap'[u] = "unnamed" => Plain(u)
  BY <1>1, <1>4 DEF FileRight, OnlyPlainOwed, Owed
<1>9. /\ InBatch(u)' <=> InBatch(u)
      /\ InRescan(u) => InRescan(u)'
      /\ JobRepairs(u)' <=> JobRepairs(u)
      /\ Right(u) => Right(u)'
      /\ Outlasts(u) => Outlasts(u)'
  BY <1>1, <1>4, <1>7 DEF InBatch, InRescan, JobRepairs, Right, Shown, ClassesOf, Outlasts, indexVars
<1>10. Accounted(u)'
  BY <1>4, <1>7, <1>9 DEF FileRight, Accounted
<1>11. OnlyPlainOwed(u)'
  BY <1>1, <1>4, <1>5, <1>8 DEF OnlyPlainOwed, Owed
<1>12. ScanRight(u)'
  BY <1>1, <1>4, <1>9, SameScan DEF FileRight
<1>13. LastEventRight(u)'
  BY <1>2 DEF LastEventRight
<1>14. RemovalRight(u)' /\ JobRight(u)'
  BY <1>1, <1>7, <1>9 DEF FileRight, RemovalRight, JobRight
<1>15. PollRepeats(u)'
  BY <1>1 DEF PollRepeats
<1> QED
  BY <1>4, <1>10, <1>11, <1>12, <1>13, <1>14, <1>15 DEF FileRight

-----------------------------------------------------------------------------
(* A batch is taken up.                                                     *)

\* The events after a batch are the rest of the queue.
LEMMA Rest ==
  ASSUME NEW queue \in Seq(Change), NEW n \in 1 .. Len(queue),
         NEW rest, rest = SubSeq(queue, n + 1, Len(queue))
  PROVE  /\ rest \in Seq(Change) /\ Len(rest) = Len(queue) - n
         /\ \A i \in DOMAIN rest : i + n \in DOMAIN queue /\ i + n > n /\ rest[i] = queue[i + n]
         /\ \A j \in DOMAIN queue : j > n => j - n \in DOMAIN rest /\ rest[j - n] = queue[j]
  OBVIOUS

LEMMA ReceiveBatchFile ==
  ASSUME Shape, NEW u \in Uri, FileRight(u), NEW n \in 1 .. Len(events), ReceiveBatch(n)
  PROVE  FileRight(u)'
<1> DEFINE batch == {events[i] : i \in 1 .. n}
           Of(kind) == {v \in Uri : [kind |-> kind, uri |-> v] \in batch}
           named  == NamedBy(batch)
           later  == NamedBy({events[i] : i \in n + 1 .. Len(events)})
           error  == Of("error") # {}
           rescan == error \/ Of("rescan") \cap watched # {}
           starts == watched # {} /\ (rescan \/ named \cap watched # {})
           removals == Of("remove") \cap watched
           upserts == Of("upsert") \cap watched
<1>1. /\ ~Polling /\ watcher.pc = "idle"
      /\ events' = SubSeq(events, n + 1, Len(events))
      /\ starts => Start(rescan, removals, upserts)
      /\ ~starts => UNCHANGED watcher
      /\ gap'[u] = IF u \notin watched /\ (error \/ u \in named) THEN "unwatched"
                   ELSE IF rescan /\ u \in named \ later /\ gap[u] = "none" THEN "unnamed"
                   ELSE gap[u]
      /\ UNCHANGED <<disk, modified, watched, pollVars, indexVars, rebuild, job>>
  BY DEF ReceiveBatch, rootVars
<1>2. events \in Seq(Change) /\ RootsRight /\ job.pc = "none"
  BY <1>1 DEF Shape, EventsRight, WorkRight
<1>3. /\ events' \in Seq(Change)
      /\ \A i \in DOMAIN events' : i + n \in DOMAIN events /\ i + n > n /\ events'[i] = events[i + n]
      /\ \A j \in DOMAIN events : j > n => j - n \in DOMAIN events' /\ events'[j - n] = events[j]
  BY <1>1, <1>2, Rest
\* Who is named, before and after.
<1>4. /\ u \in named <=> \E i \in 1 .. n : events[i].uri = u /\ events[i].kind # "error"
      /\ u \in later <=> \E i \in n + 1 .. Len(events) :
                             events[i].uri = u /\ events[i].kind # "error"
  BY DEF NamedBy
<1>5. Named(u) <=> u \in named \/ u \in later
  BY <1>2, <1>4 DEF Named
<1>6. Named(u)' <=> u \in later
  <2>1. ASSUME Named(u)' PROVE u \in later
    <3>1. PICK i \in DOMAIN events' : events'[i].uri = u /\ events'[i].kind # "error"
      BY <2>1 DEF Named
    <3>2. i + n \in n + 1 .. Len(events) /\ events[i + n] = events'[i]
      BY <1>2, <1>3
    <3> QED
      BY <1>4, <3>1, <3>2
  <2>2. ASSUME u \in later PROVE Named(u)'
    <3>1. PICK j \in n + 1 .. Len(events) : events[j].uri = u /\ events[j].kind # "error"
      BY <1>4, <2>2
    <3>2. j \in DOMAIN events /\ j > n
      BY <1>2, <3>1
    <3> QED
      BY <1>3, <3>1, <3>2 DEF Named
  <2> QED
    BY <2>1, <2>2
<1>7. ErrorQueued => error
  <2> SUFFICES ASSUME ErrorQueued PROVE error
    OBVIOUS
  <2>1. PICK i \in DOMAIN events : events[i].kind = "error"
    BY DEF ErrorQueued
  <2>2. i = 1 /\ events[1] \in Change /\ 1 \in 1 .. n
    BY <1>2, <2>1 DEF Shape, EventsRight
  <2>3. events[1].uri \in Of("error")
    BY <2>1, <2>2 DEF Change
  <2> QED
    BY <2>3
\* The last event of a file that is not named later is in the batch.
<1>8. ASSUME LastEventRight(u), u \in named, u \notin later
      PROVE  u \in Of(LastKind(u))
  <2>1. PICK i \in 1 .. n : events[i].uri = u /\ events[i].kind # "error"
    BY <1>4, <1>8
  <2>2. i \in DOMAIN events
    BY <1>2
  <2>3. PICK j \in DOMAIN events : j >= i /\ events[j] = [kind |-> LastKind(u), uri |-> u]
    BY <1>8, <2>1, <2>2 DEF LastEventRight
  <2>4. LastKind(u) # "error"
    BY DEF LastKind
  <2>5. j \in 1 .. n
    BY <1>2, <1>4, <1>8, <2>3, <2>4
  <2> QED
    BY <2>3, <2>5
<1>9. LastEventRight(u) /\ (u \in later => gap'[u] = gap[u]) => LastEventRight(u)'
  <2> SUFFICES ASSUME LastEventRight(u), u \in later => gap'[u] = gap[u],
                      NEW i \in DOMAIN events', events'[i].uri = u, events'[i].kind # "error"
               PROVE  \E j \in DOMAIN events' :
                          j >= i /\ events'[j] = [kind |-> LastKind(u)', uri |-> u]
    BY DEF LastEventRight
  <2>1. u \in later
    BY <1>6 DEF Named
  <2>2. LastKind(u)' = LastKind(u)
    BY <1>1, <2>1 DEF LastKind
  <2>3. i + n \in DOMAIN events /\ i + n > n /\ events[i + n] = events'[i]
    BY <1>3
  <2>4. PICK j \in DOMAIN events : j >= i + n /\ events[j] = [kind |-> LastKind(u), uri |-> u]
    BY <2>3 DEF LastEventRight
  <2>5. j - n \in DOMAIN events' /\ events'[j - n] = events[j] /\ j - n >= i
    <3>1. i \in Nat /\ j \in Nat /\ n \in Nat
      BY <1>2, <1>3
    <3>2. j > n /\ j - n >= i
      BY <2>3, <2>4, <3>1
    <3> QED
      BY <1>3, <3>2
  <2> QED
    BY <2>2, <2>4, <2>5
<1>10. LastKind(u) = "rescan" <=> gap[u] = "unnamed"
  BY DEF LastKind
<1>11. LastKind(u) = "remove" => disk[u] = Absent
  BY DEF LastKind
<1>12. LastKind(u) \in {"rescan", "remove", "upsert"}
  BY DEF LastKind
\* The batch that is started.
<1>13. starts => /\ watcher'.pc = "wait" /\ watcher'.roots = watched
                 /\ watcher'.rescan = rescan /\ watcher'.again = FALSE
                 /\ watcher'.removals = removals /\ watcher'.upserts = upserts
  <2> SUFFICES ASSUME starts
               PROVE  /\ watcher'.pc = "wait" /\ watcher'.roots = watched
                      /\ watcher'.rescan = rescan /\ watcher'.again = FALSE
                      /\ watcher'.removals = removals /\ watcher'.upserts = upserts
    OBVIOUS
  <2>1. Start(rescan, removals, upserts)
    BY <1>1
  <2>2. PICK asked \in BOOLEAN : asked = rescan
    OBVIOUS
  <2>3. removals \in SUBSET Uri /\ upserts \in SUBSET Uri
    OBVIOUS
  <2>4. Start(asked, removals, upserts)
    BY <2>1, <2>2
  <2> HIDE DEF removals, upserts, rescan, starts
  <2>5. /\ watcher'.pc = "wait" /\ watcher'.roots = watched
        /\ watcher'.rescan = asked /\ watcher'.again = FALSE
        /\ watcher'.removals = removals /\ watcher'.upserts = upserts
    BY <1>2, <2>3, <2>4, Started
  <2> QED
    BY <2>2, <2>5
<1>14. /\ u \in removals <=> u \in Of("remove") /\ u \in watched
       /\ u \in upserts <=> u \in Of("upsert") /\ u \in watched
       /\ u \in Of("rescan") /\ u \in watched => rescan
       /\ error => rescan
       /\ u \in watched /\ (rescan \/ u \in named) => starts
       /\ u \in Of("remove") => u \in named
       /\ u \in Of("upsert") => u \in named
  <2>1. ASSUME NEW kind \in {"remove", "upsert"}, u \in Of(kind) PROVE u \in named
    <3>1. [kind |-> kind, uri |-> u] \in batch
      BY <2>1
    <3> QED
      BY <2>1, <3>1 DEF NamedBy
  <2>2. /\ u \in removals <=> u \in Of("remove") /\ u \in watched
        /\ u \in upserts <=> u \in Of("upsert") /\ u \in watched
        /\ u \in Of("rescan") /\ u \in watched => rescan
        /\ error => rescan
    OBVIOUS
  <2>3. u \in watched /\ (rescan \/ u \in named) => starts
    <3> HIDE DEF named, rescan
    <3> QED
      OBVIOUS
  <2> QED
    BY <2>1, <2>2, <2>3
<1> HIDE DEF batch, Of, named, later, error, rescan, starts, removals, upserts
<1> SUFFICES ASSUME Counts(u)' PROVE FileRight(u)'
  BY DEF FileRight
<1>15. /\ Counts(u)
       /\ u \in watched \/ (~error /\ u \notin named)
       /\ gap[u] = "unnamed" => gap'[u] = "unnamed"
       /\ gap'[u] # gap[u] => gap'[u] = "unnamed" /\ u \in named /\ u \notin later
       /\ rescan /\ u \in named /\ u \notin later => gap'[u] = "unnamed"
  BY <1>1 DEF Counts
<1>16. /\ Accounted(u) /\ OnlyPlainOwed(u) /\ ScanRight(u) /\ LastEventRight(u)
  BY <1>15 DEF FileRight
<1>17. Plain(u)' <=> Plain(u)
  BY <1>1 DEF Plain
<1>18. ~InBatch(u) /\ ~InRescan(u) /\ ~JobRepairs(u)
  BY <1>1, <1>2 DEF InBatch, InRescan, JobRepairs
\* Whoever was owed is still owed or in the new batch.
<1>19. Owed(u) => Owed(u)' \/ (watcher'.pc = "wait" /\ (InBatch(u)' \/ InRescan(u)'))
  <2> SUFFICES ASSUME Owed(u), ~Owed(u)'
               PROVE  watcher'.pc = "wait" /\ (InBatch(u)' \/ InRescan(u)')
    OBVIOUS
  <2>1. u \notin later
    BY <1>1, <1>6 DEF Owed
  <2>2. u \in named \/ (gap[u] = "unnamed" /\ error)
    BY <1>1, <1>5, <1>7, <2>1 DEF Owed
  <2>3. u \in watched /\ starts
    BY <1>14, <1>15, <2>2
  <2>4. CASE rescan
    <3>1. gap'[u] = "unnamed"
      BY <1>15, <2>1, <2>2, <2>4
    <3> QED
      BY <1>13, <2>3, <2>4, <3>1 DEF InRescan
  <2>5. CASE ~rescan
    <3>1. u \in named
      BY <1>14, <2>2, <2>5
    <3>2. u \in Of("remove") \/ u \in Of("upsert")
      BY <1>8, <1>12, <1>14, <1>16, <2>1, <2>3, <2>5, <3>1
    <3> QED
      BY <1>13, <1>14, <2>3, <2>5, <3>2 DEF InBatch
  <2> QED
    BY <2>4, <2>5
<1>20. Accounted(u)'
  <2>1. Right(u) => Right(u)'
    BY <1>1, <1>15 DEF Right, Shown, ClassesOf, indexVars
  <2> QED
    BY <1>16, <1>17, <1>18, <1>19, <2>1 DEF Accounted
<1>21. OnlyPlainOwed(u)'
  <2>1. Owed(u)' \/ gap'[u] = "unnamed" => Named(u) \/ gap[u] = "unnamed"
    BY <1>1, <1>5, <1>6, <1>15 DEF Owed
  <2>2. Named(u) \/ gap[u] = "unnamed" => Plain(u)
    BY <1>1, <1>16 DEF OnlyPlainOwed, Owed
  <2> QED
    BY <1>1, <1>17, <2>1, <2>2 DEF OnlyPlainOwed
<1>22. ScanRight(u)'
  <2>1. Outlasts(u) => Outlasts(u)'
    BY <1>18, <1>19 DEF Outlasts
  <2> QED
    BY <1>1, <1>16, <1>17, <2>1, SameScan
<1>23. LastEventRight(u)'
  BY <1>9, <1>15, <1>16
<1>24. RemovalRight(u)'
  <2> SUFFICES ASSUME InBatch(u)', u \notin watcher'.upserts, ~Owed(u)'
               PROVE  disk'[u] = Absent
    BY <1>1, <1>13 DEF RemovalRight
  <2>1. starts /\ ~rescan /\ u \in removals /\ u \notin upserts
    BY <1>1, <1>13 DEF InBatch
  <2>2. u \in named /\ u \in watched /\ u \notin later
    BY <1>1, <1>6, <1>14, <2>1 DEF Owed
  <2>3. u \in Of(LastKind(u))
    BY <1>8, <1>16, <2>2
  <2>4. LastKind(u) = "remove"
    BY <1>12, <1>14, <2>1, <2>2, <2>3
  <2> QED
    BY <1>1, <1>11, <2>4
<1>25. JobRight(u)' /\ PollRepeats(u)'
  BY <1>1, <1>2 DEF JobRight, PollRepeats
<1> QED
  BY <1>20, <1>21, <1>22, <1>23, <1>24, <1>25 DEF FileRight

-----------------------------------------------------------------------------
(* The invariant.                                                           *)

LEMMA StutterShape == Shape /\ UNCHANGED vars => Shape'
  BY Unmoved DEF Shape, vars, diskVars, rootVars, pollVars, indexVars, flagVars

\* One step for the shape, then one for a file.
LEMMA DiskShape ==
  ASSUME Shape, Disk
  PROVE  Shape'
<1>1. CASE \E v \in Uri, text \in Text : Write(v, text)
  BY <1>1, WriteShape
<1>2. CASE \E v \in Uri : Delete(v)
  BY <1>2, DeleteShape
<1>3. CASE WatchError
  BY <1>3, WatchErrorShape
<1> QED
  BY <1>1, <1>2, <1>3 DEF Disk

LEMMA DiskFile ==
  ASSUME Shape, NEW u \in Uri, FileRight(u), Disk
  PROVE  FileRight(u)'
<1>1. CASE \E v \in Uri, text \in Text : Write(v, text)
  BY <1>1, WriteFile
<1>2. CASE \E v \in Uri : Delete(v)
  BY <1>2, DeleteFile
<1>3. CASE WatchError
  BY <1>3, WatchErrorFile
<1> QED
  BY <1>1, <1>2, <1>3 DEF Disk

LEMMA WatchShape ==
  ASSUME Shape, Watch
  PROVE  Shape'
<1>1. CASE RootsChanged
  BY <1>1, RootsChangedShape
<1>2. CASE \E n \in 1 .. Len(events) : ReceiveBatch(n)
  BY <1>2, ReceiveBatchShape
<1>3. CASE PollTick
  BY <1>3, PollTickShape
<1>4. CASE WaitForFullReindex
  BY <1>4, WaitForFullReindexShape
<1>5. CASE ReadSerial
  BY <1>5, ReadSerialShape
<1>6. CASE RescanCollect
  BY <1>6, RescanCollectShape
<1>7. CASE RescanDiff
  BY <1>7, RescanDiffShape
<1>8. CASE FinishApply
  BY <1>8, FinishApplyShape
<1>9. CASE \E v \in Uri : NextRemoval(v)
  BY <1>9, NextRemovalShape
<1>10. CASE \E v \in Uri : NextUpsert(v)
  BY <1>10, NextUpsertShape
<1>11. CASE UpsertSnapshot
  BY <1>11, UpsertSnapshotShape
<1>12. CASE RemoveContext
  BY <1>12, RemoveContextShape
<1>13. CASE UpsertRead
  BY <1>13, UpsertReadShape
<1>14. CASE UpsertUpdate
  BY <1>14, UpsertUpdateShape
<1>15. CASE RemoveOrigin
  BY <1>15, RemoveOriginShape
<1>16. CASE TrackIndexedUri
  BY <1>16, TrackIndexedUriShape
<1>17. CASE UntrackIndexedUri
  BY <1>17, UntrackIndexedUriShape
<1> QED
  BY <1>1, <1>2, <1>3, <1>4, <1>5, <1>6, <1>7, <1>8, <1>9, <1>10, <1>11, <1>12,
     <1>13, <1>14, <1>15, <1>16, <1>17 DEF Watch

LEMMA WatchFile ==
  ASSUME Shape, NEW u \in Uri, FileRight(u), Watch
  PROVE  FileRight(u)'
<1>1. CASE RootsChanged
  BY <1>1, RootsChangedFile
<1>2. CASE \E n \in 1 .. Len(events) : ReceiveBatch(n)
  BY <1>2, ReceiveBatchFile
<1>3. CASE PollTick
  BY <1>3, PollTickFile
<1>4. CASE WaitForFullReindex
  BY <1>4, WaitForFullReindexFile
<1>5. CASE ReadSerial
  BY <1>5, ReadSerialFile
<1>6. CASE RescanCollect
  BY <1>6, RescanCollectFile
<1>7. CASE RescanDiff
  BY <1>7, RescanDiffFile
<1>8. CASE FinishApply
  BY <1>8, FinishApplyFile
<1>9. CASE \E v \in Uri : NextRemoval(v)
  BY <1>9, NextRemovalFile
<1>10. CASE \E v \in Uri : NextUpsert(v)
  BY <1>10, NextUpsertFile
<1>11. CASE UpsertSnapshot
  BY <1>11, UpsertSnapshotFile
<1>12. CASE RemoveContext
  BY <1>12, RemoveContextFile
<1>13. CASE UpsertRead
  BY <1>13, UpsertReadFile
<1>14. CASE UpsertUpdate
  BY <1>14, UpsertUpdateFile
<1>15. CASE RemoveOrigin
  BY <1>15, RemoveOriginFile
<1>16. CASE TrackIndexedUri
  BY <1>16, TrackIndexedUriFile
<1>17. CASE UntrackIndexedUri
  BY <1>17, UntrackIndexedUriFile
<1> QED
  BY <1>1, <1>2, <1>3, <1>4, <1>5, <1>6, <1>7, <1>8, <1>9, <1>10, <1>11, <1>12,
     <1>13, <1>14, <1>15, <1>16, <1>17 DEF Watch

LEMMA RebuildShape ==
  ASSUME Shape, Rebuild
  PROVE  Shape'
<1>1. CASE \E m \in Models : RebuildBegin(m)
  BY <1>1, RebuildBeginShape
<1>2. CASE RebuildSerial
  BY <1>2, RebuildSerialShape
<1>3. CASE \E v \in Uri : RebuildRead(v)
  BY <1>3, RebuildReadShape
<1>4. CASE RebuildScanned
  BY <1>4, RebuildScannedShape
<1>5. CASE RebuildPrune
  BY <1>5, RebuildPruneShape
<1>6. CASE RebuildReplace
  BY <1>6, RebuildReplaceShape
<1>7. CASE RebuildPublishRoots
  BY <1>7, RebuildPublishRootsShape
<1>8. CASE RebuildDrop
  BY <1>8, RebuildDropShape
<1>9. CASE RebuildUncount
  BY <1>9, RebuildUncountShape
<1> QED
  BY <1>1, <1>2, <1>3, <1>4, <1>5, <1>6, <1>7, <1>8, <1>9 DEF Rebuild

LEMMA RebuildFile ==
  ASSUME Shape, NEW u \in Uri, FileRight(u), Rebuild
  PROVE  FileRight(u)'
<1>1. CASE \E m \in Models : RebuildBegin(m)
  BY <1>1, RebuildBeginFile
<1>2. CASE RebuildSerial
  BY <1>2, RebuildSerialFile
<1>3. CASE \E v \in Uri : RebuildRead(v)
  BY <1>3, RebuildReadFile
<1>4. CASE RebuildScanned
  BY <1>4, RebuildScannedFile
<1>5. CASE RebuildPrune
  BY <1>5, RebuildPruneFile
<1>6. CASE RebuildReplace
  BY <1>6, RebuildReplaceFile
<1>7. CASE RebuildPublishRoots
  BY <1>7, RebuildPublishRootsFile
<1>8. CASE RebuildDrop
  BY <1>8, RebuildDropFile
<1>9. CASE RebuildUncount
  BY <1>9, RebuildUncountFile
<1> QED
  BY <1>1, <1>2, <1>3, <1>4, <1>5, <1>6, <1>7, <1>8, <1>9 DEF Rebuild

LEMMA ShapeStep == Shape /\ [Next]_vars => Shape'
<1> SUFFICES ASSUME Shape, [Next]_vars PROVE Shape'
  OBVIOUS
<1> QED
  BY StutterShape, DiskShape, WatchShape, RebuildShape DEF Next

LEMMA ShapeTyped == Shape => TypeOK
<1> SUFFICES ASSUME Shape PROVE TypeOK
  OBVIOUS
<1>1. writes \in Nat /\ 0 .. writes \subseteq Nat
  BY DEF Shape, DiskRight
<1>2. modified \in [Uri -> Nat]
  BY <1>1 DEF Shape, DiskRight
<1>3. previous \in Fingerprints /\ polled \in Fingerprints
  BY <1>1 DEF Shape, PollRight, Fingerprints
<1>4. in_progress \in Nat
  BY DEF Shape, FlagsRight
<1> QED
  BY <1>2, <1>3, <1>4
  DEF Shape, TypeOK, DiskRight, EventsRight, RootsRight, IndexRight, FlagsRight,
      ReindexRight, Reindexes, BatchRight, Batches, WorkRight, Jobs, CountersRight

\* The state of the watcher, the reindexes and the published index has the
\* shape it is meant to have after every step.
THEOREM WatchTypeCorrect == Spec => []TypeOK
<1>1. Init => Shape
  BY InitShape
<1>2. Shape /\ [Next]_vars => Shape'
  BY ShapeStep
<1>3. Shape => TypeOK
  BY ShapeTyped
<1> QED
  BY <1>1, <1>2, <1>3, PTL DEF Spec

LEMMA InitFile ==
  ASSUME Init, NEW u \in Uri
  PROVE  FileRight(u)
<1>1. /\ covered = {} /\ events = <<>> /\ watched = {} /\ gap[u] = "none"
      /\ watcher.pc = "idle" /\ rebuild.pc = "idle" /\ job.pc = "none"
  BY NoJobTyped, IdleTyped DEF Init, NoRebuild
<1>2. ~Owed(u)
  BY <1>1 DEF Owed, Named
<1>3. Accounted(u) /\ OnlyPlainOwed(u)
  BY <1>1, <1>2 DEF Accounted, Right, OnlyPlainOwed
<1>4. ScanRight(u) /\ LastEventRight(u) /\ RemovalRight(u) /\ JobRight(u) /\ PollRepeats(u)
  BY <1>1 DEF ScanRight, Scanned, LastEventRight, RemovalRight, InBatch, JobRight, PollRepeats
<1> QED
  BY <1>3, <1>4 DEF FileRight

LEMMA StutterFile ==
  ASSUME Shape, NEW u \in Uri, FileRight(u), UNCHANGED vars
  PROVE  FileRight(u)'
<1>1. UNCHANGED <<disk, modified, gap, events, watched, pollVars, indexVars, watcher,
                  job, rebuild>>
  BY DEF vars, diskVars, rootVars
<1>2. Scanned(u)' => Scanned(u) /\ rebuild'.inputs[u] = rebuild.inputs[u]
  BY <1>1 DEF Scanned
<1> QED
  BY <1>1, <1>2, ReindexStep

LEMMA InvariantStep == WatchInv /\ [Next]_vars => WatchInv'
<1> SUFFICES ASSUME WatchInv, [Next]_vars PROVE WatchInv'
  OBVIOUS
<1>1. Shape'
  BY ShapeStep DEF WatchInv
<1>2. ASSUME NEW u \in Uri PROVE FileRight(u)'
  BY StutterFile, DiskFile, WatchFile, RebuildFile DEF WatchInv, Next
<1> QED
  BY <1>1, <1>2 DEF WatchInv

\* When everything is quiet no change is pending any more.
LEMMA QuietRight ==
  ASSUME WatchInv, Quiescent, NEW u \in Uri, Counts(u)
  PROVE  Right(u)
<1>1. /\ watcher.pc = "idle" /\ events = <<>> /\ job.pc = "none"
      /\ Polling => SnapshotRoots(watched) = previous
  BY DEF WatchInv, Shape, WorkRight, Quiescent
<1>2. Polling /\ u \in watched => Fingerprint(u) = previous[u]
  <2>1. u \in watched => SnapshotRoots(watched)[u] = Fingerprint(u)
    BY DEF SnapshotRoots, Fingerprint
  <2> QED
    BY <1>1, <2>1
<1>3. ~Named(u) /\ ~ErrorQueued
  BY <1>1 DEF Named, ErrorQueued
<1>4. ~Owed(u) /\ ~InBatch(u) /\ ~InRescan(u) /\ ~JobRepairs(u)
  BY <1>1, <1>2, <1>3 DEF Owed, InBatch, InRescan, JobRepairs
<1> QED
  BY <1>4 DEF WatchInv, FileRight, Accounted

\* The inductive invariant: what every file's last change is waiting for.
THEOREM WatchInvariant == Spec => []WatchInv
<1>1. Init => WatchInv
  BY InitShape, InitFile DEF WatchInv
<1>2. WatchInv /\ [Next]_vars => WatchInv'
  BY InvariantStep
<1> QED
  BY <1>1, <1>2, PTL DEF Spec

\* When everything is quiet the published index shows what the disk holds, for
\* every covered file whose last change was reported by name: no interleaving
\* of batches, rescans, root changes and full reindexes loses the change
\* (apply_workspace_changes against apply_workspace_model).
THEOREM NamedChangesReachTheIndex == Spec => []NamedChangesShown
<1>1. WatchInv => NamedChangesShown
  <2> SUFFICES ASSUME WatchInv, Quiescent, NEW u \in covered, gap[u] = "none"
               PROVE  Shown(u)
    BY DEF NamedChangesShown
  <2>1. u \in Uri
    BY DEF WatchInv, Shape, IndexRight
  <2> QED
    BY <2>1, QuietRight DEF Right, Counts
<1> QED
  BY <1>1, WatchInvariant, PTL

\* And for every covered file whose last change was reported in a way that only
\* a rescan can resolve, but for a deleted file that is not tracked any more
\* (rescan_watched_roots_blocking looks for deletions among the tracked files).
THEOREM RescansFindTheRest == Spec => []RescannedChangesShown
<1>1. WatchInv => RescannedChangesShown
  <2> SUFFICES ASSUME WatchInv, Quiescent, NEW u \in covered, gap[u] \in {"none", "unnamed"}
               PROVE  Shown(u) \/ (disk[u] = Absent /\ u \notin tracked)
    BY DEF RescannedChangesShown
  <2>1. u \in Uri
    BY DEF WatchInv, Shape, IndexRight
  <2> QED
    BY <2>1, QuietRight DEF Right, Counts
<1> QED
  BY <1>1, WatchInvariant, PTL
=============================================================================
