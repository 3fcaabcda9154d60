--------------------------- MODULE WorkspaceIndex ---------------------------
(***************************************************************************)
(* The published workspace index and its scope cache                       *)
(* (index/workspace_index.rs, index/handle.rs, index/scope_snapshot.rs).   *)
(*                                                                         *)
(* Writers go through WorkspaceIndexHandle::update or replace and are      *)
(* serialised by its mutex.  A change of a source file is several steps:   *)
(* the bucket loses the file's old classes, gains the new ones, the scope  *)
(* cache is cleared, the version is incremented.  Readers take no part in  *)
(* that mutex: they load the index, read the version, look in the scope    *)
(* cache, build a snapshot of the layers, read the version again before    *)
(* they put the snapshot in the cache, and make the snapshot's name table  *)
(* from the buckets one after the other, once for all who share it.        *)
(*                                                                         *)
(* A full reindex publishes another index object, with an empty cache and  *)
(* a version of its own.  What a bucket does inside is BucketIndex; here   *)
(* it is the set of classes of BucketContents.                             *)
(***************************************************************************)
EXTENDS ScopeLayers, ClassLists, Functions

CONSTANTS
    Model,        \* workspace models: topologies without the JDK
    Class,        \* classes, with internal_name and origin
    Origin,       \* source files
    Texts,        \* Texts[o]: the class lists the texts of file o declare
    ContextOf,    \* ContextOf[x][o]: key of the analysis context of file o under model x
    Jdk,          \* the JDK archive
    ArchiveNames, \* the class names of the classpath entries and the JDK
    Reader,       \* requests that use the index
    None,         \* nothing there
    MaxChanges,   \* writes that are looked at
    MaxSnapshots, \* scope snapshots that are built
    MaxIndexes    \* index objects that are published

ASSUME ModelAssumption ==
    \A x \in Model :
        /\ x.deps \in [Module -> Seq(Module)]
        /\ x.classpath \in [Module -> [Classpath -> Seq(DOMAIN ArchiveNames)]]
        /\ \A y \in Module : DOMAIN x.roots[y] \subseteq SourceRoot
ASSUME ContextAssumption ==
    \A x \in Model, o \in Origin :
        /\ ContextOf[x][o].module \in Module
        /\ ContextOf[x][o].classpath \in Classpath
        /\ ContextOf[x][o].root \in SourceRoot \cup {NoRoot}
ASSUME JdkAssumption == Jdk \in DOMAIN ArchiveNames
ASSUME BoundAssumption == MaxChanges \in Nat

VARIABLES
    idx,          \* the index objects, oldest first
    current,      \* the one the handle holds
    active_jdk,   \* the JDK artifact a new index is given
    snaps,        \* the scope snapshots, shared by reference
    writer,       \* the writer that holds the handle's mutex
    reader,       \* where each request is
    changes       \* writes so far

vars == <<idx, current, active_jdk, snaps, writer, reader, changes>>

Key == {ContextOf[x][o] : x \in Model, o \in Origin}

Idle == [pc |-> "idle", bucket |-> None, batch |-> <<>>, origin |-> None]

Fresh == [pc |-> "idle", index |-> 0, key |-> None, started |-> 0, snap |-> 0,
          todo |-> <<>>, names |-> {}, calm |-> TRUE]

NewIndex(x, jdk, buckets) ==
    [model |-> x, jdk |-> jdk, buckets |-> buckets, version |-> 1,
     scope_cache |-> [k \in {} |-> None]]

Topology(ix) == [deps |-> ix.model.deps, roots |-> ix.model.roots,
                 classpath |-> ix.model.classpath, jdk |-> ix.jdk]

LayersOf(ix, key) == BuildScopeLayers(Topology(ix), key.module, key.classpath, key.root)

Bucket(ix, l) == IF l \in DOMAIN ix.buckets THEN ix.buckets[l] ELSE {}
NamesIn(ix, l) ==
    IF l.kind = "entry" THEN ArchiveNames[l.of] ELSE {c.internal_name : c \in Bucket(ix, l)}
NamesOf(ix, layers) == UNION {NamesIn(ix, l) : l \in Flat(layers)}

FromOrigin(classes, o) == {c \in classes : c.origin = o}

-----------------------------------------------------------------------------
(* Writers.                                                                 *)

Change(w) ==
    /\ writer.pc = "idle"
    /\ changes < MaxChanges
    /\ changes' = changes + 1
    /\ writer' = w
    /\ reader' = [r \in Reader |-> [reader[r] EXCEPT !.calm = @ /\ reader[r].pc = "idle"]]

BucketFor(ix, o) ==
    LET key == ContextOf[ix.model][o] IN TargetBucket(Topology(ix), key.module, key.root)

SetBuckets(l, classes) ==
    idx' = [idx EXCEPT ![current].buckets =
              [k \in DOMAIN @ \cup {l} |-> IF k = l THEN classes ELSE @[k]]]

Target(o) == BucketFor(idx[current], o)

(* update_source_in_context: nothing to do for a file without classes or    *)
(* whose classes are these already.                                         *)
UpdateSource(o, batch) ==
    LET here == FromOrigin(Bucket(idx[current], Target(o)), o) IN
    /\ batch # <<>>
    /\ here # Listed(batch)
    /\ Change([pc |-> "add", bucket |-> Target(o), batch |-> batch, origin |-> o])
    /\ SetBuckets(Target(o), Bucket(idx[current], Target(o)) \ here)
    /\ UNCHANGED <<current, active_jdk, snaps>>

AddClasses ==
    /\ writer.pc = "add"
    /\ SetBuckets(writer.bucket, Overlay(Bucket(idx[current], writer.bucket), writer.batch))
    /\ writer' = [writer EXCEPT !.pc = "clear"]
    /\ UNCHANGED <<current, active_jdk, snaps, reader, changes>>

RemoveSourceOrigin(o) ==
    LET here == FromOrigin(Bucket(idx[current], Target(o)), o) IN
    /\ here # {}
    /\ Change([Idle EXCEPT !.pc = "clear"])
    /\ SetBuckets(Target(o), Bucket(idx[current], Target(o)) \ here)
    /\ UNCHANGED <<current, active_jdk, snaps>>

(* set_jdk_archive at start-up: stored as an artifact that later indexes    *)
(* are given too, or, when it cannot be stored, kept in this index only.    *)
SetJdk(stored) ==
    /\ idx[current].jdk = NoJdk
    /\ Change([Idle EXCEPT !.pc = "clear"])
    /\ active_jdk' = IF stored THEN Jdk ELSE NoJdk
    /\ idx' = [idx EXCEPT ![current].jdk = Jdk]
    /\ UNCHANGED <<current, snaps>>

(* invalidate_analysis_caches and invalidate_dependency_caches.             *)
ClearScopeCache ==
    /\ writer.pc = "clear"
    /\ idx' = [idx EXCEPT ![current].scope_cache = [k \in {} |-> None]]
    /\ writer' = [writer EXCEPT !.pc = "bump"]
    /\ UNCHANGED <<current, active_jdk, snaps, reader, changes>>

IncrementVersion ==
    /\ writer.pc = "bump"
    /\ idx' = [idx EXCEPT ![current].version = @ + 1]
    /\ writer' = Idle
    /\ UNCHANGED <<current, active_jdk, snaps, reader, changes>>

(* clear_analysis_caches, the command of the user: no version changes.      *)
ClearAnalysisCaches ==
    /\ writer.pc = "idle"
    /\ DOMAIN idx[current].scope_cache # {}
    /\ idx' = [idx EXCEPT ![current].scope_cache = [k \in {} |-> None]]
    /\ UNCHANGED <<current, active_jdk, snaps, writer, reader, changes>>

(* A full reindex: the new index is filled before anyone sees it.           *)
Refiled(ix, classes) ==
    [l \in {BucketFor(ix, c.origin) : c \in classes} |->
        {c \in classes : BucketFor(ix, c.origin) = l}]

Replace(x) ==
    LET classes == UNION {idx[current].buckets[l] : l \in DOMAIN idx[current].buckets}
        empty == NewIndex(x, active_jdk, [l \in {} |-> {}])
    IN
    /\ writer.pc = "idle"
    /\ Len(idx) < MaxIndexes
    /\ idx' = Append(idx, [empty EXCEPT !.buckets = Refiled(empty, classes)])
    /\ current' = Len(idx) + 1
    /\ reader' = [r \in Reader |-> [reader[r] EXCEPT !.calm = @ /\ reader[r].pc = "idle"]]
    /\ UNCHANGED <<active_jdk, snaps, writer, changes>>

-----------------------------------------------------------------------------
(* Readers: scope_for_analysis_context, then build_name_table.              *)

Step(r, changed) == reader' = [reader EXCEPT ![r] = changed]

(* The index object is loaded and its version read.                         *)
Load(r, o) ==
    /\ reader[r].pc \in {"idle", "served"}
    /\ Step(r, [Fresh EXCEPT !.pc = "lookup", !.index = current,
                             !.key = ContextOf[idx[current].model][o],
                             !.started = idx[current].version,
                             !.calm = writer.pc = "idle"])
    /\ UNCHANGED <<idx, current, active_jdk, snaps, writer, changes>>

CachedAtAnyVersion(ix, key, started) == key \in DOMAIN ix.scope_cache

Cached(ix, key, started) ==
    key \in DOMAIN ix.scope_cache /\ ix.scope_cache[key].version = started

LookUpScope(r) ==
    LET d == reader[r]  ix == idx[reader[r].index] IN
    /\ d.pc = "lookup"
    /\ \/ /\ Cached(ix, d.key, d.started)
          /\ Step(r, [d EXCEPT !.pc = "table", !.snap = ix.scope_cache[d.key].snap])
          /\ UNCHANGED snaps
       \/ /\ ~Cached(ix, d.key, d.started)
          /\ Len(snaps) < MaxSnapshots
          /\ snaps' = Append(snaps, [layers |-> LayersOf(ix, d.key), table |-> None])
          /\ Step(r, [d EXCEPT !.pc = "store", !.snap = Len(snaps) + 1])
    /\ UNCHANGED <<idx, current, active_jdk, writer, changes>>

CacheEntryAsOfNow(ix, d) == [version |-> ix.version, snap |-> d.snap]

CacheEntryOfNextVersion(ix, d) == [version |-> ix.version + 1, snap |-> d.snap]

CacheEntry(ix, d) == [version |-> d.started, snap |-> d.snap]

(* The version is read before the entry goes in: a writer may come between. *)
RecheckVersion(r) ==
    LET d == reader[r]  ix == idx[reader[r].index] IN
    /\ d.pc = "store"
    /\ Step(r, [d EXCEPT !.pc = IF ix.version = d.started THEN "insert" ELSE "table"])
    /\ UNCHANGED <<idx, current, active_jdk, snaps, writer, changes>>

InsertScope(r) ==
    LET d == reader[r]  ix == idx[reader[r].index] IN
    /\ d.pc = "insert"
    /\ idx' = [idx EXCEPT ![d.index].scope_cache =
                 [k \in DOMAIN @ \cup {d.key} |-> IF k = d.key THEN CacheEntry(ix, d) ELSE @[k]]]
    /\ Step(r, [d EXCEPT !.pc = "table"])
    /\ UNCHANGED <<current, active_jdk, snaps, writer, changes>>

(* The table is made by the first who asks; others wait for it.             *)
GetNameTable(r) ==
    LET d == reader[r] IN
    /\ d.pc = "table"
    /\ \A q \in Reader : reader[q].pc = "names" => reader[q].snap # d.snap
    /\ IF snaps[d.snap].table # None
       THEN Step(r, [Fresh EXCEPT !.pc = "served", !.key = d.key, !.calm = d.calm,
                                  !.names = snaps[d.snap].table])
       ELSE Step(r, [d EXCEPT !.pc = "names", !.todo = snaps[d.snap].layers])
    /\ UNCHANGED <<idx, current, active_jdk, snaps, writer, changes>>

ReadLayerNames(r) ==
    LET d == reader[r] IN
    /\ d.pc = "names"
    /\ d.todo # <<>>
    /\ Step(r, [d EXCEPT !.todo = Tail(@),
                         !.names = @ \cup NamesOf(idx[d.index], <<Head(d.todo)>>)])
    /\ UNCHANGED <<idx, current, active_jdk, snaps, writer, changes>>

FinishNameTable(r) ==
    LET d == reader[r] IN
    /\ d.pc = "names"
    /\ d.todo = <<>>
    /\ snaps' = [snaps EXCEPT ![d.snap].table = d.names]
    /\ Step(r, [Fresh EXCEPT !.pc = "served", !.key = d.key, !.calm = d.calm, !.names = d.names])
    /\ UNCHANGED <<idx, current, active_jdk, writer, changes>>

-----------------------------------------------------------------------------
Init ==
    /\ \E x \in Model : idx = <<NewIndex(x, NoJdk, [l \in {} |-> {}])>>
    /\ current = 1
    /\ active_jdk = NoJdk
    /\ snaps = <<>>
    /\ writer = Idle
    /\ reader = [r \in Reader |-> Fresh]
    /\ changes = 0

ReaderNext(r) ==
    \/ \E o \in Origin : Load(r, o)
    \/ LookUpScope(r)
    \/ RecheckVersion(r)
    \/ InsertScope(r)
    \/ GetNameTable(r)
    \/ ReadLayerNames(r)
    \/ FinishNameTable(r)

Next ==
    \/ \E o \in Origin : \E batch \in Texts[o] : UpdateSource(o, batch)
    \/ AddClasses
    \/ \E o \in Origin : RemoveSourceOrigin(o)
    \/ \E stored \in BOOLEAN : SetJdk(stored)
    \/ ClearScopeCache
    \/ IncrementVersion
    \/ ClearAnalysisCaches
    \/ \E x \in Model : Replace(x)
    \/ \E r \in Reader : ReaderNext(r)

Spec == Init /\ [][Next]_vars

-----------------------------------------------------------------------------
(* Properties.                                                              *)

(* Entries, requests and the handle point at objects that exist.            *)
TypeOK ==
    /\ current = Len(idx)
    /\ changes \in 0..MaxChanges
    /\ writer.pc \in {"idle", "add", "clear", "bump"}
    /\ \A i \in DOMAIN idx : \A k \in DOMAIN idx[i].scope_cache :
         /\ k \in Key
         /\ idx[i].scope_cache[k].snap \in DOMAIN snaps
         /\ idx[i].scope_cache[k].version <= idx[i].version
    /\ \A r \in Reader :
         /\ reader[r].pc \in {"idle", "lookup", "store", "insert", "table", "names", "served"}
         /\ reader[r].pc \in {"store", "insert", "table", "names"} =>
              reader[r].snap \in DOMAIN snaps

(* While no writer is at work, a scope the cache would serve at the current *)
(* version has the layers a new scope would have, and its name table, if    *)
(* someone made it, names the classes of the index: neither a table made in *)
(* the middle of an update nor an entry put in after the cache was cleared  *)
(* survives the version increment (scope_for_analysis_context).             *)
CurrentScopesAreFresh ==
    writer.pc = "idle" =>
        LET ix == idx[current] IN
        \A k \in DOMAIN ix.scope_cache :
            ix.scope_cache[k].version = ix.version =>
              LET snap == snaps[ix.scope_cache[k].snap] IN
              /\ snap.layers = LayersOf(ix, k)
              /\ snap.table # None => snap.table = NamesOf(ix, snap.layers)

(* A request during which no writer was at work is told the names of the    *)
(* index as it is, whatever other requests put in the cache before.         *)
UndisturbedRequestsSeeIndex ==
    \A r \in Reader :
        (reader[r].pc = "served" /\ reader[r].calm) =>
            reader[r].names = NamesOf(idx[current], LayersOf(idx[current], reader[r].key))
=============================================================================
