---------------------------- MODULE ArtifactStore ----------------------------
(***************************************************************************)
(* The store of indexed archives that all servers of a user share          *)
(* (index/store/lmdb.rs, index/cache.rs), and the servers that fill it: a  *)
(* jar of a classpath is looked up by the hash of its content, indexed     *)
(* when it is not there, and saved (WorkspaceIndex::get_or_index_jar,      *)
(* index_jar of index.rs), then read by artifact id                        *)
(* (index/artifact_reader.rs).                                             *)
(*                                                                         *)
(* An LMDB write transaction is one step: writers exclude one another, in  *)
(* all processes, and a process that dies in it leaves nothing of it.      *)
(* What happens between transactions is not protected: jars are rewritten, *)
(* threads save the same jar twice, a server of another schema version     *)
(* removes the directory while others have it open.  A removed store stays *)
(* usable for those who have it open (they mapped its file).               *)
(***************************************************************************)
EXTENDS Naturals, Sequences, Functions

CONSTANTS
    Process,      \* servers
    Schema,       \* Schema[p]: INDEX_SCHEMA_VERSION of the build p runs
    OldSchema,    \* the schema of the store found on disk, or None
    Path,         \* jars
    Content,      \* contents of jars; the content hash tells them apart
    None,
    MaxRewrites, MaxCrashes, MaxJars  \* bounds

VARIABLES
    disk,         \* content of each jar
    dbs,          \* the stores ever created, oldest first
    live,         \* the one in the directory, or 0: no directory
    proc,         \* the servers
    rewrites, crashes, jars  \* what the bounds count

vars == <<disk, dbs, live, proc, rewrites, crashes, jars>>

Nothing == [x \in {} |-> None]
With(f, x, y) == [z \in DOMAIN f \cup {x} |-> IF z = x THEN y ELSE f[z]]
EmptyStore == [schema |-> None, next_id |-> 0, artifacts |-> Nothing,
               artifact_by_hash |-> Nothing, inits |-> 0]

Idle == [pc |-> "idle", path |-> None, data |-> None]
Off == [pc |-> "off", env |-> 0, job |-> Idle, savers |-> {},
        jar_cache |-> Nothing, readers |-> Nothing]

Init ==
    /\ disk \in [Path -> Content]
    /\ dbs = <<[EmptyStore EXCEPT !.schema = OldSchema,
                                  !.next_id = IF OldSchema = None THEN 0 ELSE 1]>>
    /\ live = 1
    /\ proc = [p \in Process |-> Off]
    /\ rewrites = 0 /\ crashes = 0 /\ jars = 0

Db(p) == dbs[proc[p].env]

-----------------------------------------------------------------------------
(* LmdbIndexStore::open, by the first who needs the store.                  *)

Opened(p, pc) ==
    /\ IF live = 0
       THEN dbs' = Append(dbs, EmptyStore) /\ live' = Len(dbs) + 1
       ELSE UNCHANGED <<dbs, live>>
    /\ proc' = [proc EXCEPT ![p].pc = pc, ![p].env = live']

Open(p) ==
    /\ proc[p].pc = "off"
    /\ Opened(p, "check")
    /\ UNCHANGED <<disk, rewrites, crashes, jars>>

\* initialize_schema; "inits" is a history: how often it ran on this store.
Initialized(db, p) == [db EXCEPT !.schema = Schema[p], !.next_id = 1, !.inits = @ + 1]

CheckNothing(p) ==
    /\ proc[p].pc = "check"
    /\ proc' = [proc EXCEPT ![p].pc = "ready"]
    /\ UNCHANGED <<disk, dbs, live, rewrites, crashes, jars>>
CheckSchema(p) ==
    /\ proc[p].pc = "check"
    /\ \/ /\ Db(p).schema = None
          /\ dbs' = [dbs EXCEPT ![proc[p].env] = Initialized(@, p)]
          /\ proc' = [proc EXCEPT ![p].pc = "ready"]
       \/ /\ Db(p).schema = Schema[p]
          /\ proc' = [proc EXCEPT ![p].pc = "ready"]
          /\ UNCHANGED dbs
       \/ /\ Db(p).schema \notin {None, Schema[p]}
          /\ proc' = [proc EXCEPT ![p].pc = "remove", ![p].env = 0]
          /\ UNCHANGED dbs
    /\ UNCHANGED <<disk, live, rewrites, crashes, jars>>

\* remove_dir_all; a directory that is gone is an error, and this server has no store.
RemoveStore(p) ==
    /\ proc[p].pc = "remove"
    /\ live' = 0
    /\ proc' = [proc EXCEPT ![p].pc = IF live = 0 THEN "without" ELSE "recreate"]
    /\ UNCHANGED <<disk, dbs, rewrites, crashes, jars>>

\* create_dir_all and open_unchecked: the new store, or the one another server made.
Recreate(p) ==
    /\ proc[p].pc = "recreate"
    /\ Opened(p, "initialize")
    /\ UNCHANGED <<disk, rewrites, crashes, jars>>

InitializeRecreated(p) ==
    /\ proc[p].pc = "initialize"
    /\ dbs' = [dbs EXCEPT ![proc[p].env] = Initialized(@, p)]
    /\ proc' = [proc EXCEPT ![p].pc = "ready"]
    /\ UNCHANGED <<disk, live, rewrites, crashes, jars>>

-----------------------------------------------------------------------------
(* The store's transactions.                                                *)

\* next_artifact_id
NextIdUnsaved(db) == <<db.next_id, db.next_id>>
NextId(db) == <<db.next_id, db.next_id + 1>>

\* encode_hash_key
EncodeHashKeyByLength(path) == CHOOSE c \in Content : TRUE
EncodeHashKey(path) == disk[path]

Artifact(key, data) == [key |-> key, data |-> data]

StoreAlways(db, key, data) ==
    LET id == NextId(db)[1] IN
    [db EXCEPT !.next_id = NextId(db)[2],
               !.artifacts = With(@, id, Artifact(key, data)),
               !.artifact_by_hash = With(@, key, id)]
StoreArtifact(db, key, data) ==
    IF key \in DOMAIN db.artifact_by_hash THEN db
    ELSE LET id == NextId(db)[1] IN
         [db EXCEPT !.next_id = NextId(db)[2],
                    !.artifacts = With(@, id, Artifact(key, data)),
                    !.artifact_by_hash = With(@, key, id)]

LoadArtifact(db, key) ==
    IF key \in DOMAIN db.artifact_by_hash THEN db.artifact_by_hash[key] ELSE None

-----------------------------------------------------------------------------
(* get_or_index_jar.  "torn" is a history: the jar was rewritten while it   *)
(* was looked up, indexed or waited to be saved.                            *)

Working(p) == proc[p].pc \in {"ready", "without"}
HasStore(p) == proc[p].pc = "ready"
Job(p) == proc[p].job

Found(p, path, id) == [kind |-> "artifact", id |-> id, content |-> disk[path], torn |-> FALSE]

StartJar(p, path) ==
    /\ Working(p) /\ Job(p).pc = "idle" /\ path \notin DOMAIN proc[p].jar_cache
    /\ jars < MaxJars /\ jars' = jars + 1
    /\ proc' = [proc EXCEPT ![p].job = [pc |-> "load", path |-> path, data |-> None]]
    /\ UNCHANGED <<disk, dbs, live, rewrites, crashes>>

Resolve(p, entry) ==
    [proc EXCEPT ![p].job = Idle,
                 ![p].jar_cache = With(@, Job(p).path, entry)]

\* load_cached_artifact, by the hash of the jar as it is now; index_jar looks once more.
LoadCached(p) ==
    /\ Job(p).pc = "load"
    /\ LET id == IF HasStore(p) THEN LoadArtifact(Db(p), EncodeHashKey(Job(p).path)) ELSE None IN
       proc' = IF id = None THEN [proc EXCEPT ![p].job.pc = "index"]
               ELSE Resolve(p, Found(p, Job(p).path, id))
    /\ UNCHANGED <<disk, dbs, live, rewrites, crashes, jars>>

\* index_jar: what the store has by now, or the jar itself and a thread that saves it.
IndexJar(p) ==
    /\ Job(p).pc = "index"
    /\ LET id == IF HasStore(p) THEN LoadArtifact(Db(p), EncodeHashKey(Job(p).path)) ELSE None
           indexed == [content |-> disk[Job(p).path], torn |-> FALSE]
           data == IF id = None THEN indexed ELSE Db(p).artifacts[id].data
       IN  proc' = [proc EXCEPT
               ![p].job = [@ EXCEPT !.pc = "save", !.data = data],
               ![p].savers = IF id = None
                             THEN @ \cup {[path |-> Job(p).path, data |-> data]} ELSE @]
    /\ UNCHANGED <<disk, dbs, live, rewrites, crashes, jars>>

IndexFails(p) ==
    /\ Job(p).pc = "index"
    /\ proc' = Resolve(p, [kind |-> "empty"])
    /\ UNCHANGED <<disk, dbs, live, rewrites, crashes, jars>>

\* save_cached_artifact: the hash is taken again, of the jar as it is now.
SaveCached(p) ==
    /\ Job(p).pc = "save" /\ HasStore(p)
    /\ LET key == EncodeHashKey(Job(p).path)
           db == StoreArtifact(Db(p), key, Job(p).data)
       IN  /\ dbs' = [dbs EXCEPT ![proc[p].env] = db]
           /\ proc' = Resolve(p, [Found(p, Job(p).path, db.artifact_by_hash[key])
                                     EXCEPT !.torn = Job(p).data.torn])
    /\ UNCHANGED <<disk, live, rewrites, crashes, jars>>

SaveFails(p) ==
    /\ Job(p).pc = "save"
    /\ proc' = Resolve(p, [kind |-> "overlay", data |-> Job(p).data])
    /\ UNCHANGED <<disk, dbs, live, rewrites, crashes, jars>>

\* The thread that index_jar started.
SaveDetached(p, s) ==
    /\ s \in proc[p].savers
    /\ proc' = [proc EXCEPT ![p].savers = @ \ {s}]
    /\ dbs' = IF HasStore(p)
              THEN [dbs EXCEPT ![proc[p].env] = StoreArtifact(@, EncodeHashKey(s.path), s.data)]
              ELSE dbs
    /\ UNCHANGED <<disk, live, rewrites, crashes, jars>>

Ids(p) == {e.id : e \in {x \in Range(proc[p].jar_cache) : x.kind = "artifact"}}

\* ArtifactReaderCache::get
Read(p) ==
    /\ HasStore(p)
    /\ \E id \in Ids(p) \ DOMAIN proc[p].readers :
           /\ id \in DOMAIN Db(p).artifacts
           /\ proc' = [proc EXCEPT ![p].readers = With(@, id, Db(p).artifacts[id].data)]
    /\ UNCHANGED <<disk, dbs, live, rewrites, crashes, jars>>

-----------------------------------------------------------------------------
(* The world.                                                               *)

Torn(data, path, changed) ==
    IF data # None /\ path = changed THEN [data EXCEPT !.torn = TRUE] ELSE data

RewriteJar(path, c) ==
    /\ rewrites < MaxRewrites /\ rewrites' = rewrites + 1
    /\ disk' = [disk EXCEPT ![path] = c]
    /\ proc' = [p \in Process |->
           [proc[p] EXCEPT
               !.job.data = Torn(@, Job(p).path, path),
               !.savers = {[path |-> s.path, data |-> Torn(s.data, s.path, path)] :
                              s \in proc[p].savers}]]
    /\ UNCHANGED <<dbs, live, crashes, jars>>

Crash(p) ==
    /\ proc[p].pc # "off" /\ crashes < MaxCrashes
    /\ crashes' = crashes + 1
    /\ proc' = [proc EXCEPT ![p] = Off]
    /\ UNCHANGED <<disk, dbs, live, rewrites, jars>>

-----------------------------------------------------------------------------
Server(p) ==
    \/ Open(p) \/ CheckSchema(p) \/ RemoveStore(p) \/ Recreate(p) \/ InitializeRecreated(p)
    \/ \E path \in Path : StartJar(p, path)
    \/ LoadCached(p) \/ IndexJar(p) \/ IndexFails(p) \/ SaveCached(p) \/ SaveFails(p)
    \/ \E s \in proc[p].savers : SaveDetached(p, s)
    \/ Read(p)
    \/ Crash(p)

Next ==
    \/ \E p \in Process : Server(p)
    \/ \E path \in Path, c \in Content : disk[path] # c /\ RewriteJar(path, c)

Spec == Init /\ [][Next]_vars

-----------------------------------------------------------------------------
(* Properties.  Where a store was initialised twice (two servers replaced   *)
(* an old store at the same time) ids are given out again and none of this  *)
(* holds; CheckSchema initialises under the lock it checked under,          *)
(* InitializeRecreated does not check again.                                *)

Data == [content : Content, torn : BOOLEAN]
StoreRecord(db) ==
    /\ db.schema \in Range(Schema) \cup {OldSchema, None}
    /\ DOMAIN db.artifacts \subseteq Nat /\ db.next_id \in Nat
    /\ \A id \in DOMAIN db.artifacts : db.artifacts[id].data \in Data
    /\ Range(db.artifact_by_hash) \subseteq Nat

\* Stores and servers have their types, and a server that works has opened a store of its
\* own schema version, unless a server of another one made that store anew.
TypeOK ==
    /\ disk \in [Path -> Content]
    /\ live \in 0..Len(dbs)
    /\ \A k \in 1..Len(dbs) : StoreRecord(dbs[k])
    /\ \A p \in Process :
           /\ HasStore(p) /\ Db(p).inits <= 1 => Db(p).schema = Schema[p]
           /\ proc[p].savers \subseteq [path : Path, data : Data]
           /\ Range(proc[p].readers) \subseteq Data

\* The rows of store_artifact agree, whatever servers and threads save at a time and
\* whichever of them dies: a hash leads to the artifact of that content, every content
\* has one artifact, and no id that was given out will be given out again.
RowsAgree ==
    \A k \in 1..Len(dbs) : dbs[k].inits <= 1 =>
        LET db == dbs[k] IN
        /\ \A key \in DOMAIN db.artifact_by_hash :
               /\ db.artifact_by_hash[key] \in DOMAIN db.artifacts
               /\ db.artifacts[db.artifact_by_hash[key]].key = key
        /\ \A id, other \in DOMAIN db.artifacts :
               db.artifacts[id].key = db.artifacts[other].key => id = other
        /\ \A id \in DOMAIN db.artifacts : id < db.next_id

\* A cached reader has what its artifact has.
ReadersMatchArtifacts ==
    \A p \in Process : HasStore(p) /\ Db(p).inits <= 1 =>
        \A id \in DOMAIN proc[p].readers : proc[p].readers[id] = Db(p).artifacts[id].data

\* An id in a server's jar_cache loads from the store that server has open, also after
\* another server removed it, and gives the classes of the content the jar had, unless
\* the jar was rewritten between indexing and saving; the readers kept in memory agree.
EntriesLoadTheirJar ==
    /\ \A p \in Process : HasStore(p) /\ Db(p).inits <= 1 =>
        \A e \in Range(proc[p].jar_cache) : e.kind = "artifact" =>
            /\ e.id \in DOMAIN Db(p).artifacts
            /\ LET data == Db(p).artifacts[e.id].data IN
               ~e.torn /\ ~data.torn => data.content = e.content
    /\ ReadersMatchArtifacts
=============================================================================
