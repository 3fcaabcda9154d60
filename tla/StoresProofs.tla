---------------------------- MODULE StoresProofs -----------------------------
(***************************************************************************)
(* Proofs about the artifact store that servers share, and about the files *)
(* of decompiled sources.                                                  *)
(***************************************************************************)
EXTENDS MCStores, BucketIndexProofs

-----------------------------------------------------------------------------
(* Decompiled sources.                                                      *)

SourceStage == {"idle", "look", "run", "write", "clean", "read", "answer"}
SourceRequest == [pc : SourceStage, bytes : Bytes \cup {Absent},
                  shown : Bytes \cup {Absent, Partial}, alone : BOOLEAN]

SourceTypes ==
    /\ jar \in Bytes
    /\ files \in [Bytes -> Bytes \cup {Absent, Partial}]
    /\ request \in [Request -> SourceRequest]
    /\ faults \in Nat
BytesTaken == \A r \in Request : request[r].pc # "idle" => request[r].bytes \in Bytes

(* A file shows the bytes that its name says, if it is complete.            *)
FilesNamed == \A b \in Bytes : files[b] \in {Absent, Partial, b}
ShownNamed ==
    \A r \in Request : request[r].pc = "answer" =>
        request[r].shown \in {request[r].bytes, Partial, Absent}

(* What "alone" records: nobody else is at work.                            *)
AloneAtWork ==
    \A r, q \in Request :
        request[r].pc # "idle" /\ request[r].alone /\ q # r => request[q].pc = "idle"

(* The file a lone request looks at is complete once it has been written or *)
(* found, and stays so until it is read.                                    *)
LoneFileComplete ==
    faults = 0 => \A r \in Request : request[r].alone =>
        /\ request[r].pc \in {"clean", "read"} => files[request[r].bytes] = request[r].bytes
        /\ request[r].pc = "answer" => request[r].shown = request[r].bytes
PartialIsWritten ==
    faults = 0 => \A b \in Bytes : files[b] = Partial =>
        \E r \in Request : request[r].pc = "write" /\ request[r].bytes = b

SourceInv ==
    /\ SourceTypes /\ BytesTaken /\ FilesNamed /\ ShownNamed
    /\ AloneAtWork /\ LoneFileComplete /\ PartialIsWritten

LEMMA BegunRequest ==
  ASSUME NEW alone \in BOOLEAN, jar \in Bytes
  PROVE  LET new == [D!Idle EXCEPT !.pc = "look", !.bytes = jar, !.alone = alone] IN
         new \in SourceRequest /\ new.pc = "look" /\ new.bytes = jar /\ new.alone = alone
<1>1. D!Idle \in SourceRequest
  BY DEF D!Idle, SourceRequest, SourceStage
<1> QED
  BY <1>1 DEF SourceRequest, SourceStage

LEMMA SourceInit == D!Init => SourceInv
<1> SUFFICES ASSUME D!Init PROVE SourceInv
  OBVIOUS
<1>1. /\ jar \in Bytes /\ files = [b \in Bytes |-> Absent] /\ faults = 0
      /\ request = [r \in Request |-> [pc |-> "idle", bytes |-> Absent, shown |-> Absent, alone |-> TRUE]]
  BY DEF D!Init, D!Idle
<1>2. SourceTypes
  BY <1>1 DEF SourceTypes, SourceRequest, SourceStage
<1>3. FilesNamed /\ PartialIsWritten
  BY <1>1, SourceAssumption DEF FilesNamed, PartialIsWritten
<1>4. BytesTaken /\ ShownNamed /\ AloneAtWork /\ LoneFileComplete
  BY <1>1 DEF BytesTaken, ShownNamed, AloneAtWork, LoneFileComplete
<1> QED
  BY <1>2, <1>3, <1>4 DEF SourceInv

(* A step in which one request goes on and no file changes.                 *)
LEMMA SourceGoesOn ==
  ASSUME SourceInv, NEW r \in Request, NEW new \in SourceRequest,
         request' = [request EXCEPT ![r] = new], UNCHANGED files, jar' \in Bytes,
         faults' \in Nat, faults' = 0 => faults = 0,
         new.pc # "idle" => /\ request[r].pc # "idle" /\ new.bytes = request[r].bytes
                            /\ new.alone = request[r].alone,
         new.pc = "answer" => new.shown \in {new.bytes, Partial, Absent},
         faults' = 0 => /\ request[r].pc # "write"
                        /\ new.pc # "idle" /\ new.alone =>
                              /\ new.pc \in {"clean", "read"} => files[new.bytes] = new.bytes
                              /\ new.pc = "answer" => new.shown = new.bytes,
         new.pc # "write"
  PROVE  SourceInv'
<1> USE DEF SourceInv
<1>1. SourceTypes'
  BY DEF SourceTypes
<1>2. \A q \in Request : request'[q] = IF q = r THEN new ELSE request[q]
  BY DEF SourceTypes
<1>3. BytesTaken'
  BY <1>2 DEF BytesTaken
<1>4. FilesNamed' /\ ShownNamed'
  BY <1>2 DEF FilesNamed, ShownNamed
<1>5. AloneAtWork'
  <2> SUFFICES ASSUME NEW s \in Request, NEW q \in Request, request'[s].pc # "idle", request'[s].alone, q # s
               PROVE  request'[q].pc = "idle"
    BY DEF AloneAtWork
  <2>1. request[s].pc # "idle" /\ request[s].alone
    BY <1>2
  <2>2. request[q].pc = "idle"
    BY <2>1 DEF AloneAtWork
  <2> QED
    BY <1>2, <2>2
<1>6. LoneFileComplete'
  BY <1>2 DEF LoneFileComplete
<1>7. PartialIsWritten'
  BY <1>2 DEF PartialIsWritten
<1> QED
  BY <1>1, <1>3, <1>4, <1>5, <1>6, <1>7

LEMMA SourceStep == SourceInv /\ [D!Next]_decompilerVars => SourceInv'
<1> SUFFICES ASSUME SourceInv, [D!Next]_decompilerVars PROVE SourceInv'
  OBVIOUS
<1>0. /\ \A r \in Request : request[r] \in SourceRequest
      /\ \A r \in Request : \A pc : [request EXCEPT ![r].pc = pc] = [request EXCEPT ![r] = [request[r] EXCEPT !.pc = pc]]
  BY DEF SourceInv, SourceTypes
<1>1. CASE UNCHANGED decompilerVars
  BY <1>1 DEF decompilerVars, SourceInv, SourceTypes, BytesTaken, FilesNamed, ShownNamed, AloneAtWork,
              LoneFileComplete, PartialIsWritten
<1>2. CASE D!Rebuild
  BY <1>2 DEF D!Rebuild, SourceInv, SourceTypes, BytesTaken, FilesNamed, ShownNamed, AloneAtWork,
              LoneFileComplete, PartialIsWritten
<1>3. CASE D!Crash
  <2>1. /\ UNCHANGED <<jar, files>> /\ faults' = faults + 1
        /\ request' = [r \in Request |-> [pc |-> "idle", bytes |-> Absent, shown |-> Absent, alone |-> TRUE]]
    BY <1>3 DEF D!Crash, D!Idle
  <2>2. SourceTypes' /\ faults' # 0
    BY <2>1 DEF SourceInv, SourceTypes, SourceRequest, SourceStage
  <2> QED
    BY <2>1, <2>2 DEF SourceInv, BytesTaken, FilesNamed, ShownNamed, AloneAtWork, LoneFileComplete, PartialIsWritten
<1>4. ASSUME NEW r \in Request, D!Begin(r) PROVE SourceInv'
  <2> DEFINE others == {q \in Request \ {r} : request[q].pc # "idle"}
             alone == others = {}
             new == [D!Idle EXCEPT !.pc = "look", !.bytes = jar, !.alone = alone]
             old(q) == [request[q] EXCEPT !.alone = request[q].alone /\ request[q].pc = "idle"]
  <2>1. /\ request[r].pc = "idle" /\ UNCHANGED <<jar, files, faults>>
        /\ request' = [q \in Request |-> IF q = r THEN new ELSE old(q)]
    BY <1>4 DEF D!Begin
  <2>2. \A q \in Request : old(q) \in SourceRequest
    BY <1>0 DEF SourceRequest, SourceStage
  <2>3. \A q \in Request : /\ old(q).pc = request[q].pc /\ old(q).bytes = request[q].bytes
                           /\ old(q).shown = request[q].shown
                           /\ old(q).alone = (request[q].alone /\ request[q].pc = "idle")
    BY <1>0 DEF SourceRequest
  <2>4. new \in SourceRequest /\ new.pc = "look" /\ new.bytes = jar /\ new.alone = alone
    BY BegunRequest DEF SourceInv, SourceTypes
  <2>5. \A q \in Request : request'[q] = IF q = r THEN new ELSE old(q)
    BY <2>1
  <2>6. SourceTypes'
    <3> HIDE DEF new, old
    <3> QED
      BY <2>1, <2>2, <2>4 DEF SourceInv, SourceTypes
  <2>7. BytesTaken' /\ FilesNamed' /\ ShownNamed'
    <3> HIDE DEF new, old
    <3> QED
      BY <2>1, <2>3, <2>4, <2>5 DEF SourceInv, SourceTypes, BytesTaken, FilesNamed, ShownNamed
  <2>8. AloneAtWork'
    <3> SUFFICES ASSUME NEW s \in Request, NEW q \in Request, request'[s].pc # "idle", request'[s].alone, q # s
                 PROVE  request'[q].pc = "idle"
      BY DEF AloneAtWork
    <3> HIDE DEF new, old
    <3>1. s = r
      BY <2>3, <2>5
    <3>2. others = {}
      BY <3>1, <2>4, <2>5
    <3>3. request[q].pc = "idle"
      BY <3>1, <3>2
    <3> QED
      BY <3>1, <3>3, <2>3, <2>5
  <2>9. LoneFileComplete' /\ PartialIsWritten'
    <3> HIDE DEF new, old, others
    <3>1. \A q \in Request : request'[q].alone /\ q # r => request'[q].pc = "idle"
      BY <2>3, <2>5
    <3>2. request'[r].pc = "look"
      BY <2>4, <2>5
    <3>3. LoneFileComplete'
      BY <3>1, <3>2 DEF LoneFileComplete
    <3>4. \A q \in Request : request[q].pc = "write" =>
             request'[q].pc = "write" /\ request'[q].bytes = request[q].bytes
      BY <2>1, <2>3, <2>5
    <3>5. PartialIsWritten'
      BY <2>1, <3>4 DEF SourceInv, PartialIsWritten
    <3> QED
      BY <3>3, <3>5
  <2> QED
    BY <2>6, <2>7, <2>8, <2>9 DEF SourceInv
<1>5. ASSUME NEW r \in Request,
             D!LookUp(r) \/ D!NoSource(r) \/ D!WriteFails(r) \/ D!ReadSource(r) \/ D!Answer(r) \/ D!Cancelled(r)
      PROVE  SourceInv'
  <2>1. PICK new \in SourceRequest :
          /\ request' = [request EXCEPT ![r] = new]
          /\ new.pc # "idle" => /\ request[r].pc # "idle" /\ new.bytes = request[r].bytes
                                /\ new.alone = request[r].alone
          /\ \/ new.pc = "idle" /\ (faults' = 0 => request[r].pc # "write")
             \/ new.pc = "run" /\ request[r].pc = "look"
             \/ new.pc = "read" /\ request[r].pc = "look" /\ files[new.bytes] # Absent
             \/ new.pc = "answer" /\ request[r].pc = "read" /\ new.shown = files[new.bytes]
          /\ UNCHANGED <<jar, files>> /\ (faults' = faults \/ faults' = faults + 1)
    <3>1. CASE D!LookUp(r)
      <4> DEFINE new == [request[r] EXCEPT !.pc = IF files[request[r].bytes] = Absent THEN "run" ELSE "read"]
      <4>1. new \in SourceRequest
        BY <1>0 DEF SourceRequest, SourceStage
      <4>2. request' = [request EXCEPT ![r] = new] /\ request[r].pc = "look" /\ UNCHANGED <<jar, files, faults>>
        BY <3>1, <1>0 DEF D!LookUp, D!Goto, D!Resolve
      <4>3. /\ new.bytes = request[r].bytes /\ new.alone = request[r].alone
            /\ new.pc = IF files[request[r].bytes] = Absent THEN "run" ELSE "read"
        BY <1>0 DEF SourceRequest
      <4> HIDE DEF new
      <4> QED
        BY <4>1, <4>2, <4>3
    <3>2. CASE D!NoSource(r) \/ D!Cancelled(r) \/ D!WriteFails(r)
      <4> DEFINE new == [request[r] EXCEPT !.pc = "idle"]
      <4>1. new \in SourceRequest /\ new.pc = "idle"
        BY <1>0 DEF SourceRequest, SourceStage
      <4>2. /\ request' = [request EXCEPT ![r] = new] /\ UNCHANGED <<jar, files>>
            /\ \/ faults' = faults /\ request[r].pc # "write"
               \/ faults' = faults + 1
        BY <3>2, <1>0 DEF D!NoSource, D!Cancelled, D!WriteFails, D!Goto
      <4>3. faults + 1 # 0
        BY DEF SourceInv, SourceTypes
      <4> HIDE DEF new
      <4> QED
        BY <4>1, <4>2, <4>3
    <3>3. CASE D!Answer(r)
      <4> DEFINE new == [pc |-> "idle", bytes |-> Absent, shown |-> Absent, alone |-> TRUE]
      <4>1. new \in SourceRequest /\ new.pc = "idle"
        BY DEF SourceRequest, SourceStage
      <4>2. /\ request' = [request EXCEPT ![r] = new] /\ UNCHANGED <<jar, files, faults>>
            /\ request[r].pc = "answer"
        BY <3>3 DEF D!Answer, D!Idle
      <4> HIDE DEF new
      <4> QED
        BY <4>1, <4>2
    <3>4. CASE D!ReadSource(r)
      <4> DEFINE new == [request[r] EXCEPT !.pc = "answer", !.shown = files[request[r].bytes]]
      <4>1. /\ request' = [request EXCEPT ![r] = new] /\ request[r].pc = "read"
            /\ UNCHANGED <<jar, files, faults>>
        BY <3>4 DEF D!ReadSource, D!Resolve
      <4>2. files[request[r].bytes] \in Bytes \cup {Absent, Partial}
        BY <4>1 DEF SourceInv, SourceTypes, BytesTaken
      <4>3. new \in SourceRequest
        BY <1>0, <4>2 DEF SourceRequest, SourceStage
      <4>4. /\ new.pc = "answer" /\ new.bytes = request[r].bytes /\ new.alone = request[r].alone
            /\ new.shown = files[request[r].bytes]
        BY <1>0 DEF SourceRequest
      <4> HIDE DEF new
      <4> QED
        BY <4>1, <4>3, <4>4
    <3> QED
      BY <1>5, <3>1, <3>2, <3>3, <3>4
  <2>2. new.pc # "idle" => new.bytes \in Bytes
    BY <2>1 DEF SourceInv, BytesTaken
  <2>3. new.pc = "answer" => new.shown \in {new.bytes, Partial, Absent}
    BY <2>1, <2>2 DEF SourceInv, FilesNamed
  <2>4. new.pc # "write" /\ (faults' = 0 => faults = 0 /\ request[r].pc # "write") /\ faults' \in Nat /\ jar' \in Bytes
    BY <2>1 DEF SourceInv, SourceTypes
  <2>5. ASSUME faults' = 0, new.pc = "read", new.alone PROVE files[new.bytes] = new.bytes
    <3>1. /\ request[r].pc = "look" /\ request[r].alone /\ faults = 0 /\ files[new.bytes] # Absent
          /\ new.bytes \in Bytes
      BY <2>1, <2>2, <2>4, <2>5
    <3>2. files[new.bytes] # Partial
      <4> SUFFICES ASSUME files[new.bytes] = Partial PROVE FALSE
        OBVIOUS
      <4>1. PICK q \in Request : request[q].pc = "write"
        BY <3>1 DEF SourceInv, PartialIsWritten
      <4>2. q # r
        BY <4>1, <3>1
      <4> QED
        BY <4>1, <4>2, <3>1 DEF SourceInv, AloneAtWork
    <3> QED
      BY <3>1, <3>2 DEF SourceInv, FilesNamed
  <2>6. ASSUME faults' = 0, new.pc = "answer", new.alone PROVE new.shown = new.bytes
    BY <2>6, <2>1, <2>4 DEF SourceInv, LoneFileComplete
  <2>7. new.pc # "clean"
    BY <2>1
  <2> QED
    BY <2>1, <2>3, <2>4, <2>5, <2>6, <2>7, SourceGoesOn
<1>6. ASSUME NEW r \in Request, D!StartWrite(r) \/ D!FinishWrite(r) \/ D!CleanupStale(r) PROVE SourceInv'
  <2> DEFINE b == request[r].bytes
  <2>1. PICK stage \in {"write", "clean", "read"} :
          /\ request' = [request EXCEPT ![r] = [request[r] EXCEPT !.pc = stage]]
          /\ \/ /\ stage = "write" /\ request[r].pc = "run" /\ files' = [files EXCEPT ![b] = Partial]
             \/ /\ stage = "clean" /\ request[r].pc = "write" /\ files' = [files EXCEPT ![b] = b]
             \/ /\ stage = "read" /\ request[r].pc = "clean"
                /\ files' = [c \in Bytes |-> IF c = b THEN files[c] ELSE Absent]
    BY <1>6, <1>0 DEF D!StartWrite, D!FinishWrite, D!CleanupStale, D!Goto, D!Resolve, D!Keep
  <2>2. UNCHANGED <<jar, faults>> /\ request[r].pc # "idle" /\ b \in Bytes
    BY <1>6 DEF D!StartWrite, D!FinishWrite, D!CleanupStale, D!Goto, SourceInv, BytesTaken
  <2>3. \A q \in Request : /\ request'[q].pc = IF q = r THEN stage ELSE request[q].pc
                           /\ request'[q].bytes = request[q].bytes
                           /\ request'[q].shown = request[q].shown
                           /\ request'[q].alone = request[q].alone
                           /\ request'[q] \in SourceRequest
    BY <1>0, <2>1 DEF SourceRequest, SourceStage, SourceInv, SourceTypes
  <2>4. /\ files' \in [Bytes -> Bytes \cup {Absent, Partial}]
        /\ FilesNamed'
        /\ \A c \in Bytes : c # b => files'[c] \in {files[c], Absent}
        /\ stage = "write" \/ (stage = "clean" /\ files'[b] = b) \/ (stage = "read" /\ files'[b] = files[b])
    BY <2>1, <2>2 DEF SourceInv, SourceTypes, FilesNamed
  <2>5. SourceTypes'
    BY <2>1, <2>2, <2>3, <2>4 DEF SourceInv, SourceTypes
  <2>6. BytesTaken' /\ ShownNamed'
    BY <2>2, <2>3 DEF SourceInv, BytesTaken, ShownNamed
  <2>7. AloneAtWork'
    BY <2>2, <2>3 DEF SourceInv, AloneAtWork
  <2>8. LoneFileComplete'
    <3> SUFFICES ASSUME faults = 0, NEW s \in Request, request[s].alone
                 PROVE  /\ request'[s].pc \in {"clean", "read"} => files'[request[s].bytes] = request[s].bytes
                        /\ request'[s].pc = "answer" => request[s].shown = request[s].bytes
      BY <2>2, <2>3 DEF LoneFileComplete
    <3>1. CASE s = r
      BY <3>1, <2>1, <2>3, <2>4 DEF SourceInv, LoneFileComplete
    <3>2. CASE s # r
      <4>1. request[s].pc = "idle"
        BY <3>2, <2>2 DEF SourceInv, AloneAtWork
      <4> QED
        BY <4>1, <3>2, <2>3
    <3> QED
      BY <3>1, <3>2
  <2>9. PartialIsWritten'
    <3> SUFFICES ASSUME faults = 0, NEW c \in Bytes, files'[c] = Partial
                 PROVE  \E q \in Request : request'[q].pc = "write" /\ request'[q].bytes = c
      BY <2>2 DEF PartialIsWritten
    <3>1. CASE stage = "write" /\ c = b
      BY <3>1, <2>3
    <3>2. CASE ~(stage = "write" /\ c = b)
      <4>1. files[c] = Partial /\ ~(stage = "clean" /\ c = b)
        BY <3>2, <2>2, <2>4, SourceAssumption
      <4>2. PICK q \in Request : request[q].pc = "write" /\ request[q].bytes = c
        BY <4>1 DEF SourceInv, PartialIsWritten
      <4>3. q # r
        BY <4>1, <4>2, <2>1
      <4> QED
        BY <4>2, <4>3, <2>3
    <3> QED
      BY <3>1, <3>2
  <2> QED
    BY <2>4, <2>5, <2>6, <2>7, <2>8, <2>9 DEF SourceInv
<1> QED
  BY <1>1, <1>2, <1>3, <1>4, <1>5, <1>6 DEF D!Next

(* Whatever requests, rebuilds, failed writes and crashes do to the cache   *)
(* directory, a request never shows the source of other bytes than it took  *)
(* from the jar; without faults a lone one shows all of it.                 *)
THEOREM SourcesCorrect == D!Spec => []DecompiledSourceShown
<1>1. SourceInv => DecompiledSourceShown
  <2> SUFFICES ASSUME SourceInv PROVE DecompiledSourceShown
    OBVIOUS
  <2>1. D!ShowsItsOwnBytes
    BY DEF SourceInv, ShownNamed, D!ShowsItsOwnBytes
  <2>2. D!AloneShowsSource
    BY DEF SourceInv, LoneFileComplete, D!AloneShowsSource
  <2>3. D!IncompleteMeansWriting
    BY DEF SourceInv, PartialIsWritten, D!IncompleteMeansWriting, D!Resolve
  <2> QED
    BY <2>1, <2>2, <2>3 DEF DecompiledSourceShown, D!DecompiledSourceShown
<1> QED
  BY <1>1, SourceInit, SourceStep, PTL DEF D!Spec, D!vars, decompilerVars

-----------------------------------------------------------------------------
(* The artifact store.                                                      *)

(* Tables: functions from some of the keys.                                 *)
TableOf(K, V) == UNION {[keys -> V] : keys \in SUBSET K}

LEMMA TableHas ==
  ASSUME NEW K, NEW V, NEW t \in TableOf(K, V)
  PROVE  DOMAIN t \subseteq K /\ \A y \in DOMAIN t : t[y] \in V
BY DEF TableOf

LEMMA TableWith ==
  ASSUME NEW K, NEW V, NEW t \in TableOf(K, V), NEW k \in K, NEW v \in V
  PROVE  A!With(t, k, v) \in TableOf(K, V)
<1>1. DOMAIN t \subseteq K /\ \A y \in DOMAIN t : t[y] \in V
  BY TableHas
<1>2. A!With(t, k, v) \in [DOMAIN t \cup {k} -> V]
  BY <1>1 DEF A!With
<1>3. DOMAIN t \cup {k} \in SUBSET K
  BY <1>1
<1> QED
  BY <1>2, <1>3 DEF TableOf

LEMMA TableEmpty ==
  ASSUME NEW K, NEW V
  PROVE  A!Nothing \in TableOf(K, V) /\ DOMAIN A!Nothing = {}
<1>1. A!Nothing \in [{} -> V] /\ DOMAIN A!Nothing = {}
  BY DEF A!Nothing
<1> QED
  BY <1>1 DEF TableOf

LEMMA WithValues ==
  ASSUME NEW t, NEW k, NEW v
  PROVE  /\ DOMAIN A!With(t, k, v) = DOMAIN t \cup {k}
         /\ A!With(t, k, v)[k] = v
         /\ \A y \in DOMAIN t : y # k => A!With(t, k, v)[y] = t[y]
BY DEF A!With

(* What stores and servers are.                                             *)
StoredArtifact == [key : Content, data : A!Data]
StoreState ==
    [schema : Range(Schema) \cup {OldSchema, None}, next_id : Nat, artifacts : TableOf(Nat, StoredArtifact),
     artifact_by_hash : TableOf(Content, Nat), inits : Nat]
CacheEntry ==
    [kind : {"artifact"}, id : Nat, content : Content, torn : BOOLEAN]
      \cup [kind : {"empty"}] \cup [kind : {"overlay"}, data : A!Data]
ArchiveJob == [pc : {"idle", "load", "index", "save"}, path : Path \cup {None}, data : A!Data \cup {None}]
ArchiveSaver == [path : Path, data : A!Data]
ServerState ==
    [pc : {"off", "check", "remove", "recreate", "initialize", "ready", "without"}, env : Nat,
     job : ArchiveJob, savers : SUBSET ArchiveSaver, jar_cache : TableOf(Path, CacheEntry),
     readers : TableOf(Nat, A!Data)]

StoreTypes ==
    /\ disk \in [Path -> Content]
    /\ dbs \in Seq(StoreState) /\ Len(dbs) >= 1
    /\ live \in 0..Len(dbs)
    /\ proc \in [Process -> ServerState]

(* A hash leads to an artifact.  A store that was initialised once at most  *)
(* gives every content one artifact, of that content unless the jar was     *)
(* rewritten while it was indexed.                                          *)
RowsSound(db) ==
    /\ \A key \in DOMAIN db.artifact_by_hash : db.artifact_by_hash[key] \in DOMAIN db.artifacts
    /\ db.inits <= 1 =>
         /\ \A key \in DOMAIN db.artifact_by_hash :
               db.artifacts[db.artifact_by_hash[key]].key = key
         /\ \A id \in DOMAIN db.artifacts :
               /\ db.artifacts[id].key \in DOMAIN db.artifact_by_hash
               /\ db.artifact_by_hash[db.artifacts[id].key] = id
               /\ id < db.next_id
               /\ ~db.artifacts[id].data.torn => db.artifacts[id].data.content = db.artifacts[id].key

(* Nothing is stored before the schema is, and only the first store may     *)
(* have a schema it was not given since.                                    *)
StoreFresh(k, db) ==
    /\ db.schema = None => DOMAIN db.artifacts = {} /\ DOMAIN db.artifact_by_hash = {}
    /\ k # 1 /\ db.inits = 0 => db.schema = None

(* Where a server is with the store.                                        *)
EnvOpen(s, bs, l) ==
    /\ s.pc \in {"check", "initialize", "ready"} => s.env \in 1..Len(bs)
    /\ s.pc = "recreate" => l # 1
    /\ s.pc = "initialize" => s.env # 1
NothingYet(s) ==
    s.pc \notin {"ready", "without"} =>
      s.job = A!Idle /\ s.savers = {} /\ DOMAIN s.jar_cache = {} /\ DOMAIN s.readers = {}
JobShaped(s) ==
    /\ s.job.pc # "idle" => s.job.path \in Path
    /\ IF s.job.pc = "save" THEN s.job.data \in A!Data ELSE s.job.data = None
SaversTrue(s, d) == \A v \in s.savers : ~v.data.torn => v.data.content = d[v.path]

(* A server that works with a store initialised once at most.               *)
Trusts(s, bs) == s.pc = "ready" /\ bs[s.env].inits <= 1
LinkedTo(who, s, db) ==
    /\ db.schema = Schema[who]
    /\ \A path \in DOMAIN s.jar_cache : s.jar_cache[path].kind = "artifact" =>
          /\ s.jar_cache[path].id \in DOMAIN db.artifacts
          /\ db.artifacts[s.jar_cache[path].id].key = s.jar_cache[path].content
    /\ \A id \in DOMAIN s.readers :
          id \in DOMAIN db.artifacts /\ s.readers[id] = db.artifacts[id].data
JobTrue(s, d) ==
    s.job.pc = "save" /\ ~s.job.data.torn => s.job.data.content = d[s.job.path]

ServerSound(who, s, d, bs, l) ==
    /\ EnvOpen(s, bs, l) /\ NothingYet(s) /\ JobShaped(s) /\ SaversTrue(s, d)
    /\ s.pc = "ready" => bs[s.env].schema # None
    /\ Trusts(s, bs) => LinkedTo(who, s, bs[s.env])
    /\ Trusts(s, bs) \/ s.pc # "ready" => JobTrue(s, d)

StoreInv ==
    /\ StoreTypes
    /\ \A k \in 1..Len(dbs) : RowsSound(dbs[k]) /\ StoreFresh(k, dbs[k])
    /\ \A y \in Process : ServerSound(y, proc[y], disk, dbs, live)

(* How a store may change under those who have it open.                     *)
Later(db, new) ==
    /\ new.inits >= db.inits
    /\ db.schema # None => new.schema # None
    /\ new.inits <= 1 =>
         /\ db.schema # None => new.schema = db.schema
         /\ \A id \in DOMAIN db.artifacts : id \in DOMAIN new.artifacts /\ new.artifacts[id] = db.artifacts[id]

LEMMA ServerStaysSound ==
  ASSUME NEW y \in Process, NEW s \in ServerState, NEW d, NEW bs \in Seq(StoreState), NEW l,
         ServerSound(y, s, d, bs, l),
         NEW cs \in Seq(StoreState), NEW m, Len(cs) >= Len(bs), m = 1 => l = 1,
         \A k \in 1..Len(bs) : Later(bs[k], cs[k])
  PROVE  ServerSound(y, s, d, cs, m)
<1>1. EnvOpen(s, cs, m)
  BY DEF ServerSound, EnvOpen
<1>2. NothingYet(s) /\ JobShaped(s) /\ SaversTrue(s, d)
  BY DEF ServerSound
<1>3. CASE s.pc # "ready"
  BY <1>1, <1>2, <1>3 DEF ServerSound, Trusts
<1>4. CASE s.pc = "ready"
  <2>1. s.env \in 1..Len(bs) /\ bs[s.env] \in StoreState /\ cs[s.env] \in StoreState
    BY <1>4 DEF ServerSound, EnvOpen
  <2>2. Later(bs[s.env], cs[s.env])
    BY <2>1
  <2>3. cs[s.env].schema # None
    BY <1>4, <2>2 DEF ServerSound, Later
  <2>4. Trusts(s, cs) => Trusts(s, bs)
    <3>1. bs[s.env].inits \in Nat /\ cs[s.env].inits \in Nat
      BY <2>1 DEF StoreState
    <3>2. cs[s.env].inits >= bs[s.env].inits
      BY <2>2 DEF Later
    <3> QED
      BY <3>1, <3>2 DEF Trusts
  <2>5. Trusts(s, cs) => LinkedTo(y, s, cs[s.env])
    <3> SUFFICES ASSUME Trusts(s, cs) PROVE LinkedTo(y, s, cs[s.env])
      OBVIOUS
    <3>1. LinkedTo(y, s, bs[s.env]) /\ bs[s.env].schema # None
      BY <1>4, <2>4 DEF ServerSound
    <3>2. /\ cs[s.env].schema = bs[s.env].schema
          /\ \A id \in DOMAIN bs[s.env].artifacts :
                id \in DOMAIN cs[s.env].artifacts /\ cs[s.env].artifacts[id] = bs[s.env].artifacts[id]
      BY <2>2, <3>1 DEF Later, Trusts
    <3> QED
      BY <3>1, <3>2 DEF LinkedTo
  <2>6. Trusts(s, cs) => JobTrue(s, d)
    BY <2>4 DEF ServerSound
  <2> QED
    BY <1>1, <1>2, <1>4, <2>3, <2>5, <2>6 DEF ServerSound
<1> QED
  BY <1>3, <1>4

(* A step of one server.                                                    *)
LEMMA ServerMoves ==
  ASSUME StoreInv, NEW y \in Process, NEW new \in ServerState, proc' = [proc EXCEPT ![y] = new],
         UNCHANGED disk, dbs' \in Seq(StoreState), Len(dbs') >= Len(dbs), live' \in 0..Len(dbs'), live' = 1 => live = 1,
         \A k \in 1..Len(dbs) : Later(dbs[k], dbs'[k]),
         \A k \in 1..Len(dbs') : RowsSound(dbs'[k]) /\ StoreFresh(k, dbs'[k]),
         ServerSound(y, new, disk, dbs', live')
  PROVE  StoreInv'
<1>1. StoreTypes'
  BY DEF StoreInv, StoreTypes
<1>2. ASSUME NEW z \in Process PROVE ServerSound(z, proc'[z], disk, dbs', live')
  <2>1. proc[z] \in ServerState /\ dbs \in Seq(StoreState) /\ ServerSound(z, proc[z], disk, dbs, live)
    BY DEF StoreInv, StoreTypes
  <2>2. ServerSound(z, proc[z], disk, dbs', live')
    BY <2>1, ServerStaysSound
  <2>3. proc'[z] = IF z = y THEN new ELSE proc[z]
    BY DEF StoreInv, StoreTypes
  <2> QED
    BY <2>2, <2>3
<1> QED
  BY <1>1, <1>2 DEF StoreInv

LEMMA LaterItself == ASSUME NEW db \in StoreState PROVE Later(db, db)
BY DEF Later, StoreState

LEMMA ServerMovesAlone ==
  ASSUME StoreInv, NEW y \in Process, NEW new \in ServerState, proc' = [proc EXCEPT ![y] = new],
         UNCHANGED <<disk, dbs>>, live' \in {0, live}, ServerSound(y, new, disk, dbs, live')
  PROVE  StoreInv'
<1>1. \A k \in 1..Len(dbs) : Later(dbs[k], dbs[k])
  BY LaterItself DEF StoreInv, StoreTypes
<1>2. Len(dbs) >= Len(dbs) /\ live' \in 0..Len(dbs) /\ (live' = 1 => live = 1) /\ dbs \in Seq(StoreState)
  BY DEF StoreInv, StoreTypes
<1>3. \A k \in 1..Len(dbs) : RowsSound(dbs[k]) /\ StoreFresh(k, dbs[k])
  BY DEF StoreInv
<1> QED
  BY <1>1, <1>2, <1>3, ServerMoves

(* A step of one server that also writes the store it has open.             *)
LEMMA ServerWrites ==
  ASSUME StoreInv, NEW y \in Process, NEW new \in ServerState, proc' = [proc EXCEPT ![y] = new],
         UNCHANGED <<disk, live>>, NEW k \in 1..Len(dbs), NEW db \in StoreState, dbs' = [dbs EXCEPT ![k] = db],
         Later(dbs[k], db), RowsSound(db), StoreFresh(k, db), ServerSound(y, new, disk, dbs', live)
  PROVE  StoreInv'
<1>1. dbs' \in Seq(StoreState) /\ Len(dbs') = Len(dbs)
  BY DEF StoreInv, StoreTypes
<1>2. \A i \in 1..Len(dbs) : dbs'[i] = (IF i = k THEN db ELSE dbs[i]) /\ dbs[i] \in StoreState
  BY DEF StoreInv, StoreTypes
<1>3. \A i \in 1..Len(dbs) : Later(dbs[i], dbs'[i])
  BY <1>2, LaterItself
<1>4. \A i \in 1..Len(dbs') : RowsSound(dbs'[i]) /\ StoreFresh(i, dbs'[i])
  BY <1>1, <1>2 DEF StoreInv
<1>5. Len(dbs') >= Len(dbs) /\ live' \in 0..Len(dbs') /\ (live' = 1 => live = 1)
  BY <1>1 DEF StoreInv, StoreTypes
<1> QED
  BY <1>1, <1>3, <1>4, <1>5, ServerMoves

LEMMA FreshStore ==
  /\ A!EmptyStore \in StoreState /\ RowsSound(A!EmptyStore)
  /\ \A k : StoreFresh(k, A!EmptyStore)
<1>1. /\ A!Nothing \in TableOf(Nat, StoredArtifact) /\ A!Nothing \in TableOf(Content, Nat)
      /\ DOMAIN A!Nothing = {}
  BY TableEmpty
<1>2. A!EmptyStore \in StoreState
  BY <1>1 DEF A!EmptyStore, StoreState
<1>3. RowsSound(A!EmptyStore) /\ \A k : StoreFresh(k, A!EmptyStore)
  BY <1>1 DEF A!EmptyStore, RowsSound, StoreFresh
<1> QED
  BY <1>2, <1>3

(* A server that is switched off, or has no store, or has not looked.       *)
LEMMA OffState == A!Off \in ServerState /\ \A y, d, bs, l : ServerSound(y, A!Off, d, bs, l)
<1>1. A!Nothing \in TableOf(Path, CacheEntry) /\ A!Nothing \in TableOf(Nat, A!Data) /\ DOMAIN A!Nothing = {}
  BY TableEmpty
<1>2. A!Idle \in ArchiveJob /\ A!Idle.pc = "idle" /\ A!Idle.data = None
  BY DEF A!Idle, ArchiveJob
<1>3. A!Off \in ServerState
  BY <1>1, <1>2 DEF A!Off, ServerState
<1>4. ASSUME NEW y, NEW d, NEW bs, NEW l PROVE ServerSound(y, A!Off, d, bs, l)
  <2>1. /\ A!Off.pc = "off" /\ A!Off.job = A!Idle /\ A!Off.savers = {}
        /\ A!Off.jar_cache = A!Nothing /\ A!Off.readers = A!Nothing
    BY DEF A!Off
  <2> QED
    BY <2>1, <1>1, <1>2 DEF ServerSound, EnvOpen, NothingYet, JobShaped, SaversTrue, Trusts, JobTrue
<1> QED
  BY <1>3, <1>4

LEMMA StoreInit == A!Init => StoreInv
<1> SUFFICES ASSUME A!Init PROVE StoreInv
  OBVIOUS
<1> DEFINE first == [A!EmptyStore EXCEPT !.schema = OldSchema, !.next_id = IF OldSchema = None THEN 0 ELSE 1]
<1>1. /\ disk \in [Path -> Content] /\ dbs = <<first>> /\ live = 1
      /\ proc = [y \in Process |-> A!Off]
  BY DEF A!Init
<1>2. first \in StoreState
  BY FreshStore DEF StoreState
<1>3. /\ first.artifacts = A!Nothing /\ first.artifact_by_hash = A!Nothing /\ first.schema = OldSchema
      /\ first.inits = 0
  BY DEF A!EmptyStore
<1>4. DOMAIN A!Nothing = {}
  BY TableEmpty
<1> HIDE DEF first
<1>5. RowsSound(first) /\ StoreFresh(1, first)
  BY <1>3, <1>4 DEF RowsSound, StoreFresh
<1>6. StoreTypes
  BY <1>1, <1>2, OffState DEF StoreTypes
<1> QED
  BY <1>1, <1>5, <1>6, OffState DEF StoreInv

(* What the invariant says of one server, and of the store it has open.     *)
LEMMA ServerFacts ==
  ASSUME StoreInv, NEW y \in Process
  PROVE  /\ proc[y] \in ServerState /\ ServerSound(y, proc[y], disk, dbs, live)
         /\ disk \in [Path -> Content] /\ dbs \in Seq(StoreState) /\ Len(dbs) >= 1 /\ live \in 0..Len(dbs)
         /\ \A k \in 1..Len(dbs) : dbs[k] \in StoreState /\ RowsSound(dbs[k]) /\ StoreFresh(k, dbs[k])
         /\ proc[y].pc \in {"check", "initialize", "ready"} => proc[y].env \in 1..Len(dbs)
BY DEF StoreInv, StoreTypes, ServerSound, EnvOpen

(* Until it works a server has nothing but its place.                       *)
LEMMA IdleServer ==
  ASSUME NEW y, NEW s \in ServerState, NEW d, NEW bs, NEW l, EnvOpen(s, bs, l),
         s.job = A!Idle, s.savers = {}, DOMAIN s.jar_cache = {}, DOMAIN s.readers = {},
         s.pc = "ready" => bs[s.env].schema # None,
         Trusts(s, bs) => bs[s.env].schema = Schema[y]
  PROVE  ServerSound(y, s, d, bs, l)
<1>1. A!Idle.pc = "idle" /\ A!Idle.data = None
  BY DEF A!Idle
<1> QED
  BY <1>1 DEF ServerSound, NothingYet, JobShaped, SaversTrue, LinkedTo, JobTrue

(* A server opens the store that is there, or a new one.                    *)
LEMMA OpenedSound ==
  ASSUME StoreInv, NEW y \in Process, NEW pc \in {"check", "initialize"}, A!Opened(y, pc), UNCHANGED disk,
         proc[y].pc \notin {"ready", "without"}, pc = "initialize" => proc[y].pc = "recreate"
  PROVE  StoreInv'
<1> DEFINE new == [proc[y] EXCEPT !.pc = pc, !.env = live']
<1>1. /\ \/ live = 0 /\ dbs' = Append(dbs, A!EmptyStore) /\ live' = Len(dbs) + 1
         \/ live # 0 /\ UNCHANGED <<dbs, live>>
      /\ proc' = [proc EXCEPT ![y] = new]
  BY DEF A!Opened
<1>2. /\ proc[y] \in ServerState /\ dbs \in Seq(StoreState) /\ Len(dbs) >= 1 /\ live \in 0..Len(dbs)
      /\ \A k \in 1..Len(dbs) : dbs[k] \in StoreState /\ RowsSound(dbs[k]) /\ StoreFresh(k, dbs[k])
      /\ EnvOpen(proc[y], dbs, live) /\ NothingYet(proc[y])
  BY ServerFacts DEF ServerSound
<1>3. /\ dbs' \in Seq(StoreState) /\ Len(dbs') >= Len(dbs) /\ live' \in 1..Len(dbs')
      /\ \A k \in 1..Len(dbs) : dbs'[k] = dbs[k]
      /\ \A k \in 1..Len(dbs') : k \notin 1..Len(dbs) => k # 0 /\ dbs'[k] = A!EmptyStore
  <2>1. A!EmptyStore \in StoreState
    BY FreshStore
  <2>2. CASE live = 0
    <3>1. dbs' = Append(dbs, A!EmptyStore) /\ live' = Len(dbs) + 1
      BY <2>2, <1>1, <1>2
    <3>2. Len(dbs') = Len(dbs) + 1 /\ dbs' \in Seq(StoreState)
      BY <3>1, <2>1, <1>2
    <3>3. \A k \in 1..Len(dbs) : dbs'[k] = dbs[k]
      BY <3>1, <1>2
    <3>4. dbs'[Len(dbs) + 1] = A!EmptyStore
      BY <3>1, <1>2
    <3>5. \A k \in 1..(Len(dbs) + 1) : k \notin 1..Len(dbs) => k = Len(dbs) + 1
      BY <1>2
    <3> QED
      BY <3>1, <3>2, <3>3, <3>4, <3>5, <1>2
  <2>3. CASE live # 0
    BY <2>3, <1>1, <1>2
  <2> QED
    BY <2>2, <2>3
<1>4. new \in ServerState /\ new.pc = pc /\ new.env = live'
  <2>1. live' \in Nat
    BY <1>3
  <2> QED
    BY <1>2, <2>1 DEF ServerState
<1>5. /\ new.job = proc[y].job /\ new.savers = proc[y].savers /\ new.jar_cache = proc[y].jar_cache
      /\ new.readers = proc[y].readers
  BY <1>2 DEF ServerState
<1> HIDE DEF new
<1>6. live' = 1 => live = 1 /\ proc[y].pc # "recreate"
  <2>1. \/ live' = live
        \/ live = 0 /\ live' = Len(dbs) + 1
    BY <1>1
  <2> QED
    BY <2>1, <1>2 DEF EnvOpen
<1>7. ServerSound(y, new, disk, dbs', live')
  BY <1>2, <1>3, <1>4, <1>5, <1>6, IdleServer DEF EnvOpen, NothingYet, Trusts
<1>8. /\ \A k \in 1..Len(dbs) : Later(dbs[k], dbs'[k])
      /\ \A k \in 1..Len(dbs') : RowsSound(dbs'[k]) /\ StoreFresh(k, dbs'[k])
  <2>1. \A k \in 1..Len(dbs) : Later(dbs[k], dbs'[k])
    BY <1>2, <1>3, LaterItself
  <2>2. ASSUME NEW k \in 1..Len(dbs') PROVE RowsSound(dbs'[k]) /\ StoreFresh(k, dbs'[k])
    <3>1. CASE k \in 1..Len(dbs)
      BY <3>1, <1>2, <1>3
    <3>2. CASE k \notin 1..Len(dbs)
      BY <3>2, <1>3, FreshStore
    <3> QED
      BY <3>1, <3>2
  <2> QED
    BY <2>1, <2>2
<1>9. live' \in 0..Len(dbs') /\ (live' = 1 => live = 1)
  BY <1>3, <1>6
<1> QED
  BY <1>1, <1>3, <1>4, <1>7, <1>8, <1>9, ServerMoves

(* store_artifact: a new id, for a content that has none.                   *)
LEMMA StoreArtifactSound ==
  ASSUME NEW db \in StoreState, RowsSound(db), db.schema # None, NEW key \in Content, NEW data \in A!Data,
         db.inits <= 1 /\ ~data.torn => data.content = key, NEW new, new = A!StoreArtifact(db, key, data)
  PROVE  /\ new \in StoreState /\ RowsSound(new) /\ Later(db, new)
         /\ new.schema = db.schema /\ new.inits = db.inits
         /\ key \in DOMAIN new.artifact_by_hash /\ new.artifact_by_hash[key] \in Nat
<1>1. CASE key \in DOMAIN db.artifact_by_hash
  <2>1. new = db
    BY <1>1 DEF A!StoreArtifact
  <2>2. db.artifact_by_hash[key] \in Nat
    BY <1>1, TableHas DEF StoreState
  <2> QED
    BY <1>1, <2>1, <2>2, LaterItself
<1>2. CASE key \notin DOMAIN db.artifact_by_hash
  <2> DEFINE id == db.next_id
             rows == A!With(db.artifacts, id, [key |-> key, data |-> data])
             ids == A!With(db.artifact_by_hash, key, id)
  <2>1. new = [db EXCEPT !.next_id = id + 1, !.artifacts = rows, !.artifact_by_hash = ids]
    BY <1>2 DEF A!StoreArtifact, A!NextId, A!Artifact
  <2>2. id \in Nat /\ db.artifacts \in TableOf(Nat, StoredArtifact) /\ db.artifact_by_hash \in TableOf(Content, Nat)
        /\ db.inits \in Nat
    BY DEF StoreState
  <2>3. [key |-> key, data |-> data] \in StoredArtifact
    BY DEF StoredArtifact
  <2>4. rows \in TableOf(Nat, StoredArtifact) /\ ids \in TableOf(Content, Nat)
    BY <2>2, <2>3, TableWith
  <2>5. /\ DOMAIN rows = DOMAIN db.artifacts \cup {id} /\ rows[id] = [key |-> key, data |-> data]
        /\ \A i \in DOMAIN db.artifacts : i # id => rows[i] = db.artifacts[i]
        /\ DOMAIN ids = DOMAIN db.artifact_by_hash \cup {key} /\ ids[key] = id
        /\ \A c \in DOMAIN db.artifact_by_hash : c # key => ids[c] = db.artifact_by_hash[c]
    <3>1. /\ DOMAIN rows = DOMAIN db.artifacts \cup {id} /\ rows[id] = [key |-> key, data |-> data]
          /\ \A i \in DOMAIN db.artifacts : i # id => rows[i] = db.artifacts[i]
      BY DEF A!With
    <3>2. /\ DOMAIN ids = DOMAIN db.artifact_by_hash \cup {key} /\ ids[key] = id
          /\ \A c \in DOMAIN db.artifact_by_hash : c # key => ids[c] = db.artifact_by_hash[c]
      BY DEF A!With
    <3> QED
      BY <3>1, <3>2
  <2>6. DOMAIN db.artifacts \subseteq Nat
    BY <2>2, TableHas
  <2> HIDE DEF rows, ids
  <2>7. /\ new \in StoreState /\ new.next_id = id + 1 /\ new.artifacts = rows /\ new.artifact_by_hash = ids
        /\ new.schema = db.schema /\ new.inits = db.inits
    <3> DEFINE S == Range(Schema) \cup {OldSchema, None}
           R == TableOf(Nat, StoredArtifact)
           I == TableOf(Content, Nat)
    <3>1. StoreState = [schema : S, next_id : Nat, artifacts : R, artifact_by_hash : I, inits : Nat]
      BY DEF StoreState
    <3>2. rows \in R /\ ids \in I /\ id + 1 \in Nat
      BY <2>2, <2>4
    <3> HIDE DEF S, R, I, id
    <3> QED
      BY <3>1, <3>2, <2>1
  <2>8. db.inits <= 1 => id \notin DOMAIN db.artifacts
    BY <2>2, <2>6 DEF RowsSound
  <2>9. Later(db, new)
    BY <2>2, <2>5, <2>7, <2>8 DEF Later
  <2>10. RowsSound(new)
    <3>1. ASSUME NEW c \in DOMAIN ids PROVE ids[c] \in DOMAIN rows /\ (db.inits <= 1 => rows[ids[c]].key = c)
      <4>1. CASE c = key
        BY <4>1, <2>5
      <4>2. CASE c # key
        <5>1. c \in DOMAIN db.artifact_by_hash /\ ids[c] = db.artifact_by_hash[c]
          BY <4>2, <2>5
        <5>2. ids[c] \in DOMAIN db.artifacts /\ (db.inits <= 1 => db.artifacts[ids[c]].key = c)
          BY <5>1 DEF RowsSound
        <5> QED
          BY <5>2, <2>5, <2>8
      <4> QED
        BY <4>1, <4>2
    <3>2. ASSUME NEW i \in DOMAIN rows, db.inits <= 1
          PROVE  /\ rows[i].key \in DOMAIN ids /\ ids[rows[i].key] = i /\ i < id + 1
                 /\ ~rows[i].data.torn => rows[i].data.content = rows[i].key
      <4>1. CASE i = id
        BY <4>1, <3>2, <2>2, <2>5
      <4>2. CASE i # id
        <5>1. i \in DOMAIN db.artifacts /\ rows[i] = db.artifacts[i] /\ i \in Nat
          BY <4>2, <2>5, <2>6
        <5>2. /\ rows[i].key \in DOMAIN db.artifact_by_hash /\ db.artifact_by_hash[rows[i].key] = i /\ i < id
              /\ ~rows[i].data.torn => rows[i].data.content = rows[i].key
          BY <5>1, <3>2 DEF RowsSound
        <5>3. rows[i].key # key
          BY <5>2, <1>2
        <5> QED
          BY <5>1, <5>2, <5>3, <2>2, <2>5
      <4> QED
        BY <4>1, <4>2
    <3> QED
      BY <2>7, <3>1, <3>2 DEF RowsSound
  <2> QED
    BY <2>2, <2>5, <2>7, <2>9, <2>10
<1> QED
  BY <1>1, <1>2

(* initialize_schema on a store that has none yet, or was made anew.        *)
LEMMA InitializedSound ==
  ASSUME NEW k, NEW y \in Process, NEW db \in StoreState, RowsSound(db), StoreFresh(k, db), k # 1 \/ db.schema = None,
         NEW new, new = A!Initialized(db, y)
  PROVE  /\ new \in StoreState /\ RowsSound(new) /\ StoreFresh(k, new) /\ Later(db, new)
         /\ new.schema = Schema[y] /\ new.schema # None
<1>1. Schema[y] \in Range(Schema) /\ Schema[y] # None
  BY SchemaAssumption DEF Range
<1>2. db.inits \in Nat
  BY DEF StoreState
<1>3. new = [db EXCEPT !.schema = Schema[y], !.next_id = 1, !.inits = db.inits + 1]
  BY DEF A!Initialized
<1>4. /\ new \in StoreState /\ new.schema = Schema[y] /\ new.inits = db.inits + 1
      /\ new.artifacts = db.artifacts /\ new.artifact_by_hash = db.artifact_by_hash
  <2> DEFINE S == Range(Schema) \cup {OldSchema, None}
         R == TableOf(Nat, StoredArtifact)
         I == TableOf(Content, Nat)
         n == db.inits + 1
         one == 1
  <2>1. StoreState = [schema : S, next_id : Nat, artifacts : R, artifact_by_hash : I, inits : Nat]
    BY DEF StoreState
  <2>2. Schema[y] \in S /\ n \in Nat /\ one \in Nat
    BY <1>1, <1>2
  <2>3. new = [db EXCEPT !.schema = Schema[y], !.next_id = one, !.inits = n]
    BY <1>3
  <2> HIDE DEF S, R, I, n, one
  <2>4. /\ new \in StoreState /\ new.schema = Schema[y] /\ new.inits = n
        /\ new.artifacts = db.artifacts /\ new.artifact_by_hash = db.artifact_by_hash
    BY <2>1, <2>2, <2>3
  <2> QED
    BY <2>4 DEF n
<1>5. new.inits <= 1 => db.schema = None
  BY <1>2, <1>4 DEF StoreFresh
<1>6. new.inits <= 1 => DOMAIN new.artifacts = {} /\ DOMAIN new.artifact_by_hash = {}
  BY <1>4, <1>5 DEF StoreFresh
<1>7. RowsSound(new)
  BY <1>4, <1>6 DEF RowsSound
<1>8. StoreFresh(k, new) /\ Later(db, new)
  BY <1>1, <1>2, <1>4, <1>5 DEF StoreFresh, Later
<1> QED
  BY <1>1, <1>4, <1>7, <1>8

-----------------------------------------------------------------------------
(* Opening the store.                                                       *)

LEMMA CheckSchemaSound ==
  ASSUME StoreInv, NEW y \in Process, A!CheckSchema(y)
  PROVE  StoreInv'
<1> DEFINE s == proc[y]
           db == dbs[s.env]
<1>1. /\ s \in ServerState /\ s.pc = "check" /\ s.env \in 1..Len(dbs) /\ db \in StoreState
      /\ RowsSound(db) /\ StoreFresh(s.env, db) /\ NothingYet(s) /\ dbs \in Seq(StoreState)
      /\ UNCHANGED <<disk, live>>
  BY ServerFacts DEF A!CheckSchema, ServerSound
<1>2. /\ s.job = A!Idle /\ s.savers = {} /\ DOMAIN s.jar_cache = {} /\ DOMAIN s.readers = {}
  BY <1>1 DEF NothingYet
<1>3. \/ /\ db.schema = None
         /\ dbs' = [dbs EXCEPT ![s.env] = A!Initialized(db, y)]
         /\ proc' = [proc EXCEPT ![y] = [s EXCEPT !.pc = "ready"]]
      \/ /\ db.schema = Schema[y] /\ UNCHANGED dbs
         /\ proc' = [proc EXCEPT ![y] = [s EXCEPT !.pc = "ready"]]
      \/ /\ UNCHANGED dbs
         /\ proc' = [proc EXCEPT ![y] = [s EXCEPT !.pc = "remove", !.env = 0]]
  BY DEF A!CheckSchema, A!Db
<1>4. /\ [s EXCEPT !.pc = "ready"] \in ServerState /\ [s EXCEPT !.pc = "ready"].pc = "ready"
      /\ [s EXCEPT !.pc = "ready"].env = s.env /\ [s EXCEPT !.pc = "ready"].job = s.job
      /\ [s EXCEPT !.pc = "ready"].savers = s.savers /\ [s EXCEPT !.pc = "ready"].jar_cache = s.jar_cache
      /\ [s EXCEPT !.pc = "ready"].readers = s.readers
  BY <1>1 DEF ServerState
<1>5. /\ [s EXCEPT !.pc = "remove", !.env = 0] \in ServerState
      /\ [s EXCEPT !.pc = "remove", !.env = 0].pc = "remove"
      /\ [s EXCEPT !.pc = "remove", !.env = 0].job = s.job
      /\ [s EXCEPT !.pc = "remove", !.env = 0].savers = s.savers
      /\ [s EXCEPT !.pc = "remove", !.env = 0].jar_cache = s.jar_cache
      /\ [s EXCEPT !.pc = "remove", !.env = 0].readers = s.readers
  BY <1>1 DEF ServerState
<1>6. Schema[y] # None
  BY SchemaAssumption DEF Range
<1>7. CASE db.schema = None /\ dbs' = [dbs EXCEPT ![s.env] = A!Initialized(db, y)]
           /\ proc' = [proc EXCEPT ![y] = [s EXCEPT !.pc = "ready"]]
  <2> DEFINE k == s.env
  <2>0. PICK new : new = A!Initialized(db, y)
    OBVIOUS
  <2>1. /\ new \in StoreState /\ RowsSound(new) /\ StoreFresh(k, new) /\ Later(db, new)
        /\ new.schema = Schema[y] /\ new.schema # None
    <3> HIDE DEF s, db, k
    <3> QED
      BY <1>1, <1>7, <2>0, InitializedSound DEF k
  <2>2. dbs' = [dbs EXCEPT ![s.env] = new]
    BY <1>7, <2>0
  <2>3. dbs'[s.env] = new /\ Len(dbs') = Len(dbs)
    BY <1>1, <2>2
  <2> DEFINE t == [s EXCEPT !.pc = "ready"]
  <2>4. t \in ServerState /\ EnvOpen(t, dbs', live) /\ t.pc = "ready" /\ t.env = s.env
    BY <1>1, <1>4, <2>3 DEF EnvOpen
  <2>5. t.job = A!Idle /\ t.savers = {} /\ DOMAIN t.jar_cache = {} /\ DOMAIN t.readers = {}
    BY <1>2, <1>4
  <2>6. proc' = [proc EXCEPT ![y] = t]
    BY <1>7
  <2> HIDE DEF t
  <2>7. ServerSound(y, t, disk, dbs', live)
    BY <1>6, <2>1, <2>3, <2>4, <2>5, IdleServer
  <2> HIDE DEF s, db
  <2> QED
    BY <1>1, <2>1, <2>2, <2>4, <2>6, <2>7, ServerWrites DEF db
<1>8. CASE db.schema = Schema[y] /\ UNCHANGED dbs /\ proc' = [proc EXCEPT ![y] = [s EXCEPT !.pc = "ready"]]
  <2> DEFINE t == [s EXCEPT !.pc = "ready"]
  <2>1. t \in ServerState /\ EnvOpen(t, dbs, live) /\ t.pc = "ready" /\ t.env = s.env
    BY <1>1, <1>4 DEF EnvOpen
  <2>2. t.job = A!Idle /\ t.savers = {} /\ DOMAIN t.jar_cache = {} /\ DOMAIN t.readers = {}
    BY <1>2, <1>4
  <2>3. proc' = [proc EXCEPT ![y] = t]
    BY <1>8
  <2> HIDE DEF t
  <2>4. ServerSound(y, t, disk, dbs, live)
    BY <1>6, <1>8, <2>1, <2>2, IdleServer
  <2> QED
    BY <1>1, <1>8, <2>1, <2>3, <2>4, ServerMovesAlone
<1>9. CASE UNCHANGED dbs /\ proc' = [proc EXCEPT ![y] = [s EXCEPT !.pc = "remove", !.env = 0]]
  <2> DEFINE t == [s EXCEPT !.pc = "remove", !.env = 0]
  <2>1. t \in ServerState /\ EnvOpen(t, dbs, live) /\ t.pc = "remove" /\ ~Trusts(t, dbs)
    BY <1>5 DEF EnvOpen, Trusts
  <2>2. t.job = A!Idle /\ t.savers = {} /\ DOMAIN t.jar_cache = {} /\ DOMAIN t.readers = {}
    BY <1>2, <1>5
  <2>3. proc' = [proc EXCEPT ![y] = t]
    BY <1>9
  <2> HIDE DEF t
  <2>4. ServerSound(y, t, disk, dbs, live)
    BY <2>1, <2>2, IdleServer
  <2> QED
    BY <1>1, <1>9, <2>1, <2>3, <2>4, ServerMovesAlone
<1> QED
  BY <1>3, <1>7, <1>8, <1>9

LEMMA RemoveStoreSound ==
  ASSUME StoreInv, NEW y \in Process, A!RemoveStore(y)
  PROVE  StoreInv'
<1> DEFINE pc == IF live = 0 THEN "without" ELSE "recreate"
           t == [proc[y] EXCEPT !.pc = pc]
<1>1. /\ proc[y] \in ServerState /\ proc[y].pc = "remove" /\ NothingYet(proc[y])
      /\ UNCHANGED <<disk, dbs>> /\ live' = 0 /\ proc' = [proc EXCEPT ![y] = t]
  BY ServerFacts DEF A!RemoveStore, ServerSound
<1>2. /\ t \in ServerState /\ t.pc \in {"without", "recreate"} /\ t.job = proc[y].job
      /\ t.savers = proc[y].savers /\ t.jar_cache = proc[y].jar_cache /\ t.readers = proc[y].readers
  BY <1>1 DEF ServerState
<1> HIDE DEF t
<1>3. EnvOpen(t, dbs, live') /\ ~Trusts(t, dbs) /\ t.pc # "ready"
  BY <1>1, <1>2 DEF EnvOpen, Trusts
<1>4. t.job = A!Idle /\ t.savers = {} /\ DOMAIN t.jar_cache = {} /\ DOMAIN t.readers = {}
  BY <1>1, <1>2 DEF NothingYet
<1>5. ServerSound(y, t, disk, dbs, live')
  BY <1>2, <1>3, <1>4, IdleServer
<1> QED
  BY <1>1, <1>2, <1>5, ServerMovesAlone

LEMMA InitializeRecreatedSound ==
  ASSUME StoreInv, NEW y \in Process, A!InitializeRecreated(y)
  PROVE  StoreInv'
<1> DEFINE t == [proc[y] EXCEPT !.pc = "ready"]
<1>1. PICK k \in 1..Len(dbs) : k = proc[y].env
  BY ServerFacts DEF A!InitializeRecreated
<1>2. /\ proc[y] \in ServerState /\ proc[y].pc = "initialize" /\ k # 1 /\ NothingYet(proc[y])
      /\ dbs[k] \in StoreState /\ RowsSound(dbs[k]) /\ StoreFresh(k, dbs[k]) /\ dbs \in Seq(StoreState)
      /\ UNCHANGED <<disk, live>>
  BY <1>1, ServerFacts DEF A!InitializeRecreated, ServerSound, EnvOpen
<1>3. PICK new : new = A!Initialized(dbs[k], y)
  OBVIOUS
<1>4. dbs' = [dbs EXCEPT ![k] = new] /\ proc' = [proc EXCEPT ![y] = t]
  BY <1>1, <1>3 DEF A!InitializeRecreated
<1>5. /\ new \in StoreState /\ RowsSound(new) /\ StoreFresh(k, new) /\ Later(dbs[k], new)
      /\ new.schema = Schema[y] /\ new.schema # None
  BY <1>2, <1>3, InitializedSound
<1>6. /\ t \in ServerState /\ t.pc = "ready" /\ t.env = k /\ t.job = proc[y].job
      /\ t.savers = proc[y].savers /\ t.jar_cache = proc[y].jar_cache /\ t.readers = proc[y].readers
  BY <1>1, <1>2 DEF ServerState
<1> HIDE DEF t
<1>7. dbs'[k] = new /\ Len(dbs') = Len(dbs)
  BY <1>2, <1>4
<1>8. EnvOpen(t, dbs', live)
  BY <1>6, <1>7 DEF EnvOpen
<1>9. t.job = A!Idle /\ t.savers = {} /\ DOMAIN t.jar_cache = {} /\ DOMAIN t.readers = {}
  BY <1>2, <1>6 DEF NothingYet
<1>10. ServerSound(y, t, disk, dbs', live)
  BY <1>5, <1>6, <1>7, <1>8, <1>9, IdleServer
<1> QED
  BY <1>2, <1>4, <1>5, <1>6, <1>10, ServerWrites

LEMMA CrashSound ==
  ASSUME StoreInv, NEW y \in Process, A!Crash(y)
  PROVE  StoreInv'
<1>1. UNCHANGED <<disk, dbs, live>> /\ proc' = [proc EXCEPT ![y] = A!Off]
  BY DEF A!Crash
<1> QED
  BY <1>1, OffState, ServerMovesAlone

-----------------------------------------------------------------------------
(* Working with the store.                                                  *)

LEMMA NoneIsNoData == None \notin Nat /\ None \notin A!Data
BY StoreAssumption DEF A!Data

(* A step of a server that works, without the tables.                       *)
LEMMA WorkerMoves ==
  ASSUME StoreInv, NEW y \in Process, proc[y].pc \in {"ready", "without"}, UNCHANGED <<disk, dbs, live>>,
         NEW new \in ServerState, proc' = [proc EXCEPT ![y] = new],
         new.pc = proc[y].pc, new.env = proc[y].env, JobShaped(new), SaversTrue(new, disk),
         Trusts(new, dbs) => LinkedTo(y, new, dbs[new.env]),
         Trusts(new, dbs) \/ new.pc # "ready" => JobTrue(new, disk)
  PROVE  StoreInv'
<1>1. ServerSound(y, proc[y], disk, dbs, live)
  BY ServerFacts
<1>2. EnvOpen(new, dbs, live) /\ NothingYet(new)
  BY <1>1 DEF ServerSound, EnvOpen, NothingYet
<1>3. new.pc = "ready" => dbs[new.env].schema # None
  BY <1>1 DEF ServerSound
<1>4. ServerSound(y, new, disk, dbs, live)
  BY <1>2, <1>3 DEF ServerSound
<1> QED
  BY <1>4, ServerMovesAlone

(* What a server knows when it works.                                       *)
LEMMA WorkerFacts ==
  ASSUME StoreInv, NEW y \in Process, proc[y].job.pc # "idle" \/ proc[y].savers # {} \/ proc[y].pc \in {"ready", "without"}
  PROVE  /\ proc[y] \in ServerState /\ proc[y].pc \in {"ready", "without"}
         /\ JobShaped(proc[y]) /\ SaversTrue(proc[y], disk)
         /\ Trusts(proc[y], dbs) => LinkedTo(y, proc[y], dbs[proc[y].env])
         /\ Trusts(proc[y], dbs) \/ proc[y].pc # "ready" => JobTrue(proc[y], disk)
         /\ disk \in [Path -> Content] /\ dbs \in Seq(StoreState)
         /\ proc[y].pc = "ready" =>
               /\ proc[y].env \in 1..Len(dbs) /\ dbs[proc[y].env] \in StoreState
               /\ RowsSound(dbs[proc[y].env]) /\ StoreFresh(proc[y].env, dbs[proc[y].env])
               /\ dbs[proc[y].env].schema # None
<1>1. A!Idle.pc = "idle"
  BY DEF A!Idle
<1> QED
  BY <1>1, ServerFacts DEF ServerSound, NothingYet

LEMMA StartJarSound ==
  ASSUME StoreInv, NEW y \in Process, NEW path \in Path, A!StartJar(y, path)
  PROVE  StoreInv'
<1> DEFINE j0 == [pc |-> "load", path |-> path, data |-> None]
           new == [proc[y] EXCEPT !.job = j0]
<1>1. /\ proc[y].pc \in {"ready", "without"} /\ proc' = [proc EXCEPT ![y] = new] /\ UNCHANGED <<disk, dbs, live>>
  BY DEF A!StartJar, A!Working
<1>2. /\ proc[y] \in ServerState /\ SaversTrue(proc[y], disk)
      /\ Trusts(proc[y], dbs) => LinkedTo(y, proc[y], dbs[proc[y].env])
  BY <1>1, WorkerFacts
<1>3. j0 \in ArchiveJob /\ j0.pc = "load" /\ j0.path = path /\ j0.data = None
  BY DEF ArchiveJob
<1> HIDE DEF j0
<1>4. /\ new \in ServerState /\ new.job = j0 /\ new.pc = proc[y].pc /\ new.env = proc[y].env
      /\ new.savers = proc[y].savers /\ new.jar_cache = proc[y].jar_cache /\ new.readers = proc[y].readers
  BY <1>2, <1>3 DEF ServerState
<1> HIDE DEF new
<1>5. JobShaped(new) /\ SaversTrue(new, disk) /\ JobTrue(new, disk)
  BY <1>2, <1>3, <1>4 DEF JobShaped, SaversTrue, JobTrue
<1>6. Trusts(new, dbs) => LinkedTo(y, new, dbs[new.env])
  BY <1>2, <1>4 DEF Trusts, LinkedTo
<1> QED
  BY <1>1, <1>4, <1>5, <1>6, WorkerMoves

(* A job that ends leaves an entry for its jar.                             *)
SamePlace(s, new) == new.pc = s.pc /\ new.env = s.env
Adds(e, db) ==
    e.kind = "artifact" => e.id \in DOMAIN db.artifacts /\ db.artifacts[e.id].key = e.content
Ended(s, path, e) == [s EXCEPT !.job = A!Idle, !.jar_cache = A!With(s.jar_cache, path, e)]

LEMMA EntryAdded ==
  ASSUME NEW y, NEW s \in ServerState, NEW path \in Path, NEW e \in CacheEntry, NEW d, SaversTrue(s, d), NEW db,
         NEW new, new = Ended(s, path, e)
  PROVE  /\ new \in ServerState /\ SamePlace(s, new)
         /\ JobShaped(new) /\ SaversTrue(new, d) /\ JobTrue(new, d)
         /\ LinkedTo(y, s, db) /\ Adds(e, db) => LinkedTo(y, new, db)
<1> DEFINE t == A!With(s.jar_cache, path, e)
           i == A!Idle
<1>1. t \in TableOf(Path, CacheEntry)
  BY TableWith DEF ServerState
<1>2. /\ DOMAIN t = DOMAIN s.jar_cache \cup {path} /\ t[path] = e
      /\ \A z \in DOMAIN s.jar_cache : z # path => t[z] = s.jar_cache[z]
  BY DEF A!With
<1>3. A!Idle \in ArchiveJob /\ A!Idle.pc = "idle" /\ A!Idle.data = None
  BY DEF A!Idle, ArchiveJob
<1>4. /\ new \in ServerState /\ new.pc = s.pc /\ new.env = s.env /\ new.job = A!Idle /\ new.savers = s.savers
      /\ new.jar_cache = t /\ new.readers = s.readers
  <2> DEFINE T == TableOf(Path, CacheEntry)
             R == TableOf(Nat, A!Data)
             V == SUBSET ArchiveSaver
  <2>1. new = [s EXCEPT !.job = i, !.jar_cache = t] /\ i \in ArchiveJob
    BY <1>3 DEF Ended
  <2>2. ServerState = [pc : {"off", "check", "remove", "recreate", "initialize", "ready", "without"}, env : Nat,
                       job : ArchiveJob, savers : V, jar_cache : T, readers : R]
    BY DEF ServerState
  <2> HIDE DEF T, R, V, i, t
  <2>3. /\ new \in ServerState /\ new.pc = s.pc /\ new.env = s.env /\ new.job = i /\ new.savers = s.savers
        /\ new.jar_cache = t /\ new.readers = s.readers
    BY <2>1, <2>2, <1>1 DEF T
  <2> QED
    BY <2>3 DEF i
<1> HIDE DEF t, i
<1>5. JobShaped(new) /\ SaversTrue(new, d) /\ JobTrue(new, d)
  BY <1>3, <1>4 DEF JobShaped, SaversTrue, JobTrue
<1>6. ASSUME LinkedTo(y, s, db), Adds(e, db)
      PROVE  LinkedTo(y, new, db)
  BY <1>2, <1>4, <1>6 DEF LinkedTo, Adds
<1> QED
  BY <1>4, <1>5, <1>6 DEF SamePlace

(* ... also when nothing is written.                                        *)
LEMMA ResolvedSound ==
  ASSUME StoreInv, NEW y \in Process, proc[y].job.pc # "idle", NEW e \in CacheEntry,
         proc' = A!Resolve(y, e), UNCHANGED <<disk, dbs, live>>,
         Trusts(proc[y], dbs) /\ e.kind = "artifact" =>
            /\ e.id \in DOMAIN dbs[proc[y].env].artifacts
            /\ dbs[proc[y].env].artifacts[e.id].key = e.content
  PROVE  StoreInv'
<1>1. /\ proc[y] \in ServerState /\ proc[y].pc \in {"ready", "without"} /\ SaversTrue(proc[y], disk)
      /\ Trusts(proc[y], dbs) => LinkedTo(y, proc[y], dbs[proc[y].env])
  BY WorkerFacts
<1>2. proc[y].job.path \in Path
  BY WorkerFacts DEF JobShaped
<1>3. PICK path \in Path : path = proc[y].job.path
  BY <1>2
<1> DEFINE s == proc[y]
           db == dbs[s.env]
<1>4. PICK new : new = Ended(s, path, e)
  OBVIOUS
<1>5. proc' = [proc EXCEPT ![y] = new]
  BY <1>3, <1>4 DEF A!Resolve, A!Job, Ended
<1>6. /\ new \in ServerState /\ SamePlace(s, new)
      /\ JobShaped(new) /\ SaversTrue(new, disk) /\ JobTrue(new, disk)
      /\ LinkedTo(y, s, db) /\ Adds(e, db) => LinkedTo(y, new, db)
  <2>1. s \in ServerState /\ SaversTrue(s, disk)
    BY <1>1
  <2> HIDE DEF s, db
  <2> QED
    BY <2>1, <1>3, <1>4, EntryAdded
<1>7. new.pc = s.pc /\ new.env = s.env
  BY <1>6 DEF SamePlace
<1>8. Trusts(new, dbs) => LinkedTo(y, new, dbs[new.env])
  BY <1>1, <1>6, <1>7 DEF Trusts, Adds
<1> QED
  BY <1>1, <1>5, <1>6, <1>7, <1>8, WorkerMoves

(* What the store has for a jar as it is now.                               *)
LEMMA LoadedArtifact ==
  ASSUME NEW db \in StoreState, RowsSound(db), NEW path \in Path, disk \in [Path -> Content],
         A!LoadArtifact(db, A!EncodeHashKey(path)) # None, NEW id, id = A!LoadArtifact(db, A!EncodeHashKey(path))
  PROVE  /\ id \in DOMAIN db.artifacts /\ id \in Nat /\ db.artifacts[id].data \in A!Data
         /\ db.inits <= 1 => /\ db.artifacts[id].key = disk[path]
                             /\ ~db.artifacts[id].data.torn => db.artifacts[id].data.content = disk[path]
<1>1. disk[path] \in DOMAIN db.artifact_by_hash /\ id = db.artifact_by_hash[disk[path]]
  BY DEF A!LoadArtifact, A!EncodeHashKey
<1>2. id \in DOMAIN db.artifacts
  BY <1>1 DEF RowsSound
<1>3. DOMAIN db.artifacts \subseteq Nat /\ \A i \in DOMAIN db.artifacts : db.artifacts[i] \in StoredArtifact
  BY TableHas DEF StoreState
<1>4. db.inits <= 1 => db.artifacts[id].key = disk[path]
  BY <1>1 DEF RowsSound
<1> QED
  BY <1>2, <1>3, <1>4 DEF StoredArtifact, RowsSound

LEMMA FoundEntry ==
  ASSUME NEW y, NEW path \in Path, disk \in [Path -> Content], NEW id \in Nat
  PROVE  /\ A!Found(y, path, id) \in CacheEntry /\ A!Found(y, path, id).kind = "artifact"
         /\ A!Found(y, path, id).id = id /\ A!Found(y, path, id).content = disk[path]
BY DEF A!Found, CacheEntry

LEMMA IndexFailsSound ==
  ASSUME StoreInv, NEW y \in Process, A!IndexFails(y)
  PROVE  StoreInv'
<1>1. PICK e : e = [kind |-> "empty"]
  OBVIOUS
<1>2. e \in CacheEntry /\ e.kind # "artifact"
  BY <1>1 DEF CacheEntry
<1>3. proc[y].job.pc # "idle" /\ proc' = A!Resolve(y, e) /\ UNCHANGED <<disk, dbs, live>>
  BY <1>1 DEF A!IndexFails, A!Job
<1> QED
  BY <1>2, <1>3, ResolvedSound

LEMMA SaveFailsSound ==
  ASSUME StoreInv, NEW y \in Process, A!SaveFails(y)
  PROVE  StoreInv'
<1>1. PICK e : e = [kind |-> "overlay", data |-> proc[y].job.data]
  OBVIOUS
<1>2. proc[y].job.data \in A!Data
  BY WorkerFacts DEF A!SaveFails, A!Job, JobShaped
<1>3. e \in CacheEntry /\ e.kind # "artifact"
  BY <1>1, <1>2 DEF CacheEntry
<1>4. proc[y].job.pc # "idle" /\ proc' = A!Resolve(y, e) /\ UNCHANGED <<disk, dbs, live>>
  BY <1>1 DEF A!SaveFails, A!Job
<1> QED
  BY <1>3, <1>4, ResolvedSound

(* What the store has, if there is one.                                     *)
LEMMA LookedUp ==
  ASSUME StoreInv, NEW y \in Process, proc[y].job.pc # "idle", NEW path \in Path, path = proc[y].job.path,
         NEW id, id = (IF A!HasStore(y) THEN A!LoadArtifact(A!Db(y), A!EncodeHashKey(A!Job(y).path)) ELSE None),
         id # None
  PROVE  /\ proc[y].pc = "ready" /\ proc[y].env \in 1..Len(dbs)
         /\ id \in DOMAIN dbs[proc[y].env].artifacts /\ id \in Nat
         /\ dbs[proc[y].env].artifacts[id].data \in A!Data
         /\ Trusts(proc[y], dbs) =>
              /\ dbs[proc[y].env].artifacts[id].key = disk[path]
              /\ ~dbs[proc[y].env].artifacts[id].data.torn =>
                    dbs[proc[y].env].artifacts[id].data.content = disk[path]
<1> DEFINE db == dbs[proc[y].env]
<1>1. proc[y].pc = "ready"
  BY DEF A!HasStore
<1>2. proc[y].env \in 1..Len(dbs) /\ db \in StoreState /\ RowsSound(db) /\ disk \in [Path -> Content]
  BY <1>1, WorkerFacts
<1>3. id = A!LoadArtifact(db, A!EncodeHashKey(path))
  BY <1>1 DEF A!HasStore, A!Job, A!Db
<1>4. /\ id \in DOMAIN db.artifacts /\ id \in Nat /\ db.artifacts[id].data \in A!Data
      /\ db.inits <= 1 => /\ db.artifacts[id].key = disk[path]
                          /\ ~db.artifacts[id].data.torn => db.artifacts[id].data.content = disk[path]
  <2> HIDE DEF db
  <2> QED
    BY <1>2, <1>3, LoadedArtifact
<1> QED
  BY <1>1, <1>2, <1>4 DEF Trusts

LEMMA LoadCachedSound ==
  ASSUME StoreInv, NEW y \in Process, A!LoadCached(y)
  PROVE  StoreInv'
<1>1. /\ proc[y].job.pc = "load" /\ UNCHANGED <<disk, dbs, live>>
  BY DEF A!LoadCached, A!Job
<1>2. /\ proc[y] \in ServerState /\ proc[y].pc \in {"ready", "without"} /\ SaversTrue(proc[y], disk)
      /\ JobShaped(proc[y]) /\ disk \in [Path -> Content]
      /\ Trusts(proc[y], dbs) => LinkedTo(y, proc[y], dbs[proc[y].env])
  BY <1>1, WorkerFacts
<1>3. PICK path \in Path : path = proc[y].job.path
  BY <1>1, <1>2 DEF JobShaped
<1>4. PICK id : id = (IF A!HasStore(y) THEN A!LoadArtifact(A!Db(y), A!EncodeHashKey(A!Job(y).path)) ELSE None)
  OBVIOUS
<1>5. proc' = IF id = None THEN [proc EXCEPT ![y].job.pc = "index"]
              ELSE A!Resolve(y, A!Found(y, A!Job(y).path, id))
  BY <1>4 DEF A!LoadCached
<1>6. CASE id = None
  <2> DEFINE j0 == [proc[y].job EXCEPT !.pc = "index"]
             new == [proc[y] EXCEPT !.job = j0]
  <2>1. proc' = [proc EXCEPT ![y] = new]
    BY <1>2, <1>5, <1>6
  <2>2. j0 \in ArchiveJob /\ j0.pc = "index" /\ j0.path = path /\ j0.data = None
    BY <1>1, <1>2, <1>3 DEF ServerState, ArchiveJob, JobShaped
  <2> HIDE DEF j0
  <2>3. /\ new \in ServerState /\ new.job = j0 /\ new.pc = proc[y].pc /\ new.env = proc[y].env
        /\ new.savers = proc[y].savers /\ new.jar_cache = proc[y].jar_cache /\ new.readers = proc[y].readers
    BY <1>2, <2>2 DEF ServerState
  <2> HIDE DEF new
  <2>4. JobShaped(new) /\ SaversTrue(new, disk) /\ JobTrue(new, disk)
    BY <1>2, <2>2, <2>3 DEF JobShaped, SaversTrue, JobTrue
  <2>5. Trusts(new, dbs) => LinkedTo(y, new, dbs[new.env])
    BY <1>2, <2>3 DEF Trusts, LinkedTo
  <2> QED
    BY <1>1, <1>2, <2>1, <2>3, <2>4, <2>5, WorkerMoves
<1>7. CASE id # None
  <2>1. /\ id \in DOMAIN dbs[proc[y].env].artifacts /\ id \in Nat
        /\ Trusts(proc[y], dbs) => dbs[proc[y].env].artifacts[id].key = disk[path]
    BY <1>1, <1>3, <1>4, <1>7, LookedUp
  <2>2. PICK e : e = A!Found(y, path, id)
    OBVIOUS
  <2>3. e \in CacheEntry /\ e.kind = "artifact" /\ e.id = id /\ e.content = disk[path]
    BY <1>2, <2>1, <2>2, FoundEntry
  <2>4. proc' = A!Resolve(y, e)
    BY <1>3, <1>5, <1>7, <2>2 DEF A!Job
  <2> QED
    BY <1>1, <2>1, <2>3, <2>4, ResolvedSound
<1> QED
  BY <1>6, <1>7

LEMMA ReadSound ==
  ASSUME StoreInv, NEW y \in Process, A!Read(y)
  PROVE  StoreInv'
<1> DEFINE s == proc[y]
           db == dbs[s.env]
<1>1. s.pc = "ready" /\ UNCHANGED <<disk, dbs, live>>
  BY DEF A!Read, A!HasStore
<1>2. PICK id \in DOMAIN db.artifacts :
         proc' = [proc EXCEPT ![y].readers = A!With(s.readers, id, db.artifacts[id].data)]
  BY DEF A!Read, A!Db
<1>3. /\ s \in ServerState /\ JobShaped(s) /\ SaversTrue(s, disk) /\ db \in StoreState
      /\ Trusts(s, dbs) => LinkedTo(y, s, db) /\ JobTrue(s, disk)
  BY <1>1, WorkerFacts
<1>4. DOMAIN db.artifacts \subseteq Nat /\ db.artifacts[id] \in StoredArtifact
  <2> HIDE DEF db
  <2> QED
    BY <1>2, <1>3, TableHas DEF StoreState
<1>5. db.artifacts[id].data \in A!Data
  BY <1>4 DEF StoredArtifact
<1> DEFINE data == db.artifacts[id].data
           t == A!With(s.readers, id, data)
           new == [s EXCEPT !.readers = t]
<1>6. t \in TableOf(Nat, A!Data)
  <2>1. s.readers \in TableOf(Nat, A!Data) /\ id \in Nat /\ data \in A!Data
    BY <1>3, <1>2, <1>4, <1>5 DEF ServerState
  <2> HIDE DEF data
  <2> QED
    BY <2>1, TableWith
<1>7. /\ DOMAIN t = DOMAIN s.readers \cup {id} /\ t[id] = data
      /\ \A z \in DOMAIN s.readers : z # id => t[z] = s.readers[z]
  BY DEF A!With
<1> HIDE DEF t
<1>8. /\ new \in ServerState /\ new.job = s.job /\ new.pc = s.pc /\ new.env = s.env
      /\ new.savers = s.savers /\ new.jar_cache = s.jar_cache /\ new.readers = t
  BY <1>3, <1>6 DEF ServerState
<1>9. proc' = [proc EXCEPT ![y] = new]
  BY <1>2 DEF t
<1> HIDE DEF new
<1>10. JobShaped(new) /\ SaversTrue(new, disk)
  BY <1>3, <1>8 DEF JobShaped, SaversTrue
<1>11. Trusts(new, dbs) => LinkedTo(y, new, dbs[new.env]) /\ JobTrue(new, disk)
  BY <1>2, <1>3, <1>7, <1>8 DEF Trusts, LinkedTo, JobTrue
<1> QED
  BY <1>1, <1>8, <1>9, <1>10, <1>11, WorkerMoves

(* The data of a job that has indexed its jar, or found it indexed.         *)
LEMMA IndexJarSound ==
  ASSUME StoreInv, NEW y \in Process, A!IndexJar(y)
  PROVE  StoreInv'
<1> DEFINE s == proc[y]
<1>1. s.job.pc = "index" /\ UNCHANGED <<disk, dbs, live>>
  BY DEF A!IndexJar, A!Job
<1>2. /\ s \in ServerState /\ s.pc \in {"ready", "without"} /\ SaversTrue(s, disk) /\ JobShaped(s)
      /\ disk \in [Path -> Content]
      /\ Trusts(s, dbs) => LinkedTo(y, s, dbs[s.env])
  BY <1>1, WorkerFacts
<1>3. PICK path \in Path : path = s.job.path
  BY <1>1, <1>2 DEF JobShaped
<1>4. PICK id : id = (IF A!HasStore(y) THEN A!LoadArtifact(A!Db(y), A!EncodeHashKey(A!Job(y).path)) ELSE None)
  OBVIOUS
<1>5. PICK indexed : indexed = [content |-> disk[path], torn |-> FALSE]
  OBVIOUS
<1>6. indexed \in A!Data /\ indexed.content = disk[path]
  BY <1>2, <1>5 DEF A!Data
<1>7. PICK data : data = (IF id = None THEN indexed ELSE dbs[s.env].artifacts[id].data)
  OBVIOUS
<1>8. data \in A!Data /\ (Trusts(s, dbs) \/ s.pc # "ready" => (~data.torn => data.content = disk[path]))
  <2>1. CASE id = None
    BY <2>1, <1>6, <1>7
  <2>2. CASE id # None
    <3>1. /\ s.pc = "ready" /\ dbs[s.env].artifacts[id].data \in A!Data
          /\ Trusts(s, dbs) => (~dbs[s.env].artifacts[id].data.torn =>
                                   dbs[s.env].artifacts[id].data.content = disk[path])
      BY <1>1, <1>3, <1>4, <2>2, LookedUp
    <3> QED
      BY <3>1, <2>2, <1>7
  <2> QED
    BY <2>1, <2>2
<1>9. PICK v : v = IF id = None THEN s.savers \cup {[path |-> path, data |-> indexed]} ELSE s.savers
  OBVIOUS
<1>10. v \in SUBSET ArchiveSaver /\ \A w \in v : ~w.data.torn => w.data.content = disk[w.path]
  <2>1. [path |-> path, data |-> indexed] \in ArchiveSaver
    BY <1>6 DEF ArchiveSaver
  <2>2. s.savers \in SUBSET ArchiveSaver
    BY <1>2 DEF ServerState
  <2> QED
    BY <2>1, <2>2, <1>2, <1>6, <1>9 DEF SaversTrue
<1> DEFINE j0 == [s.job EXCEPT !.pc = "save", !.data = data]
           new == [s EXCEPT !.job = j0, !.savers = v]
<1>11. proc' = [proc EXCEPT ![y] = new]
  <2>1. proc' = [proc EXCEPT ![y].job = j0, ![y].savers = v]
    <3>1. id = None => data = indexed
      BY <1>7
    <3> QED
      BY <3>1, <1>3, <1>4, <1>5, <1>7, <1>9 DEF A!IndexJar, A!Job, A!Db
  <2> QED
    BY <2>1
<1>12. j0 \in ArchiveJob /\ j0.pc = "save" /\ j0.path = path /\ j0.data = data
  BY <1>2, <1>3, <1>8 DEF ServerState, ArchiveJob
<1> HIDE DEF j0
<1>13. /\ new \in ServerState /\ new.job = j0 /\ new.pc = s.pc /\ new.env = s.env
       /\ new.savers = v /\ new.jar_cache = s.jar_cache /\ new.readers = s.readers
  BY <1>2, <1>10, <1>12 DEF ServerState
<1> HIDE DEF new
<1>14. JobShaped(new) /\ SaversTrue(new, disk)
  BY <1>8, <1>10, <1>12, <1>13 DEF JobShaped, SaversTrue
<1>15. Trusts(new, dbs) => LinkedTo(y, new, dbs[new.env])
  BY <1>2, <1>13 DEF Trusts, LinkedTo
<1>16. Trusts(new, dbs) \/ new.pc # "ready" => JobTrue(new, disk)
  BY <1>8, <1>12, <1>13 DEF Trusts, JobTrue
<1> QED
  BY <1>1, <1>2, <1>11, <1>13, <1>14, <1>15, <1>16, WorkerMoves

(* A step of a server that works and stores an artifact.                    *)
LEMMA WorkerStores ==
  ASSUME StoreInv, NEW y \in Process, proc[y].pc = "ready", UNCHANGED <<disk, live>>,
         NEW key \in Content, NEW data \in A!Data, Trusts(proc[y], dbs) /\ ~data.torn => data.content = key,
         NEW k, k = proc[y].env, NEW db, db = A!StoreArtifact(dbs[k], key, data), dbs' = [dbs EXCEPT ![k] = db],
         NEW new \in ServerState, proc' = [proc EXCEPT ![y] = new],
         new.pc = "ready", new.env = k, JobShaped(new), SaversTrue(new, disk),
         Trusts(proc[y], dbs) => LinkedTo(y, new, db) /\ JobTrue(new, disk)
  PROVE  StoreInv'
<1>1. /\ k \in 1..Len(dbs) /\ dbs[k] \in StoreState /\ RowsSound(dbs[k]) /\ StoreFresh(k, dbs[k])
      /\ dbs[k].schema # None /\ dbs \in Seq(StoreState)
  BY WorkerFacts
<1>2. dbs[k].inits <= 1 /\ ~data.torn => data.content = key
  BY DEF Trusts
<1>3. PICK old \in StoreState : old = dbs[k]
  BY <1>1
<1>4. /\ db \in StoreState /\ RowsSound(db) /\ Later(old, db) /\ db.schema = old.schema /\ db.inits = old.inits
  <2>1. old.schema # None /\ RowsSound(old) /\ (old.inits <= 1 /\ ~data.torn => data.content = key)
    BY <1>1, <1>2, <1>3
  <2>2. db = A!StoreArtifact(old, key, data)
    BY <1>3
  <2> QED
    BY <2>1, <2>2, StoreArtifactSound
<1>5. StoreFresh(k, db)
  BY <1>1, <1>3, <1>4 DEF StoreFresh
<1>6. dbs'[k] = db /\ Len(dbs') = Len(dbs)
  BY <1>1
<1>7. EnvOpen(new, dbs', live)
  BY <1>1, <1>6 DEF EnvOpen
<1>8. Trusts(new, dbs') => Trusts(proc[y], dbs)
  BY <1>3, <1>4, <1>6 DEF Trusts
<1>9. ServerSound(y, new, disk, dbs', live)
  BY <1>1, <1>3, <1>4, <1>6, <1>7, <1>8 DEF ServerSound, NothingYet
<1> QED
  BY <1>1, <1>3, <1>4, <1>5, <1>9, ServerWrites

LEMMA SaveCachedSound ==
  ASSUME StoreInv, NEW y \in Process, A!SaveCached(y)
  PROVE  StoreInv'
<1> DEFINE s == proc[y]
<1>1. s.job.pc = "save" /\ s.pc = "ready" /\ UNCHANGED <<disk, live>>
  BY DEF A!SaveCached, A!Job, A!HasStore
<1>2. /\ s \in ServerState /\ SaversTrue(s, disk) /\ JobShaped(s) /\ disk \in [Path -> Content]
      /\ s.env \in 1..Len(dbs) /\ dbs[s.env] \in StoreState /\ RowsSound(dbs[s.env]) /\ dbs[s.env].schema # None
      /\ Trusts(s, dbs) => LinkedTo(y, s, dbs[s.env]) /\ JobTrue(s, disk)
  BY <1>1, WorkerFacts
<1>3. PICK path \in Path, data \in A!Data : path = s.job.path /\ data = s.job.data
  BY <1>1, <1>2 DEF JobShaped
<1>4. PICK key \in Content : key = disk[path]
  BY <1>2
<1>5. PICK k \in 1..Len(dbs) : k = s.env
  BY <1>2
<1>6. PICK old \in StoreState : old = dbs[k]
  BY <1>2, <1>5
<1>7. PICK db : db = A!StoreArtifact(old, key, data)
  OBVIOUS
<1>8. Trusts(s, dbs) /\ ~data.torn => data.content = key
  BY <1>1, <1>2, <1>3, <1>4 DEF JobTrue
<1>9. /\ db \in StoreState /\ RowsSound(db) /\ Later(old, db) /\ db.schema = old.schema /\ db.inits = old.inits
      /\ key \in DOMAIN db.artifact_by_hash /\ db.artifact_by_hash[key] \in Nat
  <2>1. old.schema # None /\ RowsSound(old) /\ (old.inits <= 1 /\ ~data.torn => data.content = key)
    BY <1>1, <1>2, <1>5, <1>6, <1>8 DEF Trusts
  <2> QED
    BY <2>1, <1>7, StoreArtifactSound
<1>10. PICK id \in Nat : id = db.artifact_by_hash[key]
  BY <1>9
<1>11. PICK found : found = A!Found(y, path, id)
  OBVIOUS
<1>12. PICK e : e = [found EXCEPT !.torn = data.torn]
  OBVIOUS
<1>13. e \in CacheEntry /\ (db.inits <= 1 => Adds(e, db))
  <2>1. found = [kind |-> "artifact", id |-> id, content |-> key, torn |-> FALSE]
    BY <1>4, <1>11 DEF A!Found
  <2>2. data.torn \in BOOLEAN
    BY DEF A!Data
  <2>3. found \in [kind : {"artifact"}, id : Nat, content : Content, torn : BOOLEAN]
    BY <2>1
  <2>4. e \in [kind : {"artifact"}, id : Nat, content : Content, torn : BOOLEAN]
    BY <2>2, <2>3, <1>12
  <2>5. found.id = id /\ found.content = key
    BY <2>1
  <2>6. e.id = id /\ e.content = key
    BY <2>3, <2>5, <1>12
  <2>7. id \in DOMAIN db.artifacts /\ (db.inits <= 1 => db.artifacts[id].key = key)
    BY <1>9, <1>10 DEF RowsSound
  <2>8. db.inits \in Nat
    BY <1>9 DEF StoreState
  <2> QED
    BY <2>4, <2>6, <2>7, <2>8 DEF CacheEntry, Adds
<1>14. PICK new : new = Ended(s, path, e)
  OBVIOUS
<1>15. dbs' = [dbs EXCEPT ![k] = db]
  BY <1>3, <1>4, <1>5, <1>6, <1>7 DEF A!SaveCached, A!Db, A!Job, A!EncodeHashKey
<1>16. proc' = [proc EXCEPT ![y] = new]
  BY <1>3, <1>4, <1>5, <1>6, <1>7, <1>10, <1>11, <1>12, <1>14
     DEF A!SaveCached, A!Db, A!Job, A!EncodeHashKey, A!Resolve, Ended
<1>17. /\ new \in ServerState /\ SamePlace(s, new)
       /\ JobShaped(new) /\ SaversTrue(new, disk) /\ JobTrue(new, disk)
       /\ LinkedTo(y, s, db) /\ Adds(e, db) => LinkedTo(y, new, db)
  <2>1. s \in ServerState /\ SaversTrue(s, disk) /\ path \in Path /\ e \in CacheEntry
    BY <1>2, <1>3, <1>13
  <2> HIDE DEF s
  <2> QED
    BY <2>1, <1>14, EntryAdded
<1>18. new.pc = "ready" /\ new.env = k
  BY <1>1, <1>5, <1>17 DEF SamePlace
<1>19. Trusts(s, dbs) => LinkedTo(y, new, db) /\ JobTrue(new, disk)
  <2> SUFFICES ASSUME Trusts(s, dbs) PROVE LinkedTo(y, new, db)
    BY <1>17
  <2>1. old.inits <= 1 /\ db.inits <= 1
    BY <1>5, <1>6, <1>9 DEF Trusts, StoreState
  <2>2. LinkedTo(y, s, old) /\ old.schema # None
    BY <1>2, <1>5, <1>6
  <2>3. LinkedTo(y, s, db)
    BY <2>1, <2>2, <1>9 DEF LinkedTo, Later
  <2> QED
    BY <2>1, <2>3, <1>13, <1>17
<1>20. db = A!StoreArtifact(dbs[k], key, data)
  BY <1>6, <1>7
<1> QED
  BY <1>1, <1>5, <1>8, <1>15, <1>16, <1>17, <1>18, <1>19, <1>20, <1>3, <1>4, WorkerStores

LEMMA SaveDetachedSound ==
  ASSUME StoreInv, NEW y \in Process, NEW v \in proc[y].savers, A!SaveDetached(y, v)
  PROVE  StoreInv'
<1> DEFINE s == proc[y]
           left == s.savers \ {v}
           new == [s EXCEPT !.savers = left]
<1>1. proc' = [proc EXCEPT ![y] = new] /\ UNCHANGED <<disk, live>>
  BY DEF A!SaveDetached
<1>2. /\ s \in ServerState /\ s.pc \in {"ready", "without"} /\ SaversTrue(s, disk) /\ JobShaped(s)
      /\ disk \in [Path -> Content]
      /\ Trusts(s, dbs) => LinkedTo(y, s, dbs[s.env])
      /\ Trusts(s, dbs) \/ s.pc # "ready" => JobTrue(s, disk)
  BY WorkerFacts
<1>3. left \in SUBSET ArchiveSaver /\ v \in ArchiveSaver
  BY <1>2 DEF ServerState
<1> HIDE DEF left
<1>4. /\ new \in ServerState /\ new.job = s.job /\ new.pc = s.pc /\ new.env = s.env
      /\ new.savers = left /\ new.jar_cache = s.jar_cache /\ new.readers = s.readers
  BY <1>2, <1>3 DEF ServerState
<1> HIDE DEF new
<1>5. JobShaped(new) /\ SaversTrue(new, disk)
  BY <1>2, <1>4 DEF JobShaped, SaversTrue, left
<1>6. /\ JobTrue(s, disk) => JobTrue(new, disk)
      /\ \A db : LinkedTo(y, s, db) => LinkedTo(y, new, db)
  BY <1>4 DEF JobTrue, LinkedTo
<1>7. CASE s.pc # "ready"
  <2>1. UNCHANGED dbs
    BY <1>7 DEF A!SaveDetached, A!HasStore
  <2>2. ~Trusts(new, dbs)
    BY <1>4, <1>7 DEF Trusts
  <2> QED
    BY <1>1, <1>2, <1>4, <1>5, <1>6, <1>7, <2>1, <2>2, WorkerMoves
<1>8. CASE s.pc = "ready"
  <2>1. PICK data \in A!Data : data = v.data
    BY <1>3 DEF ArchiveSaver
  <2>2. PICK key \in Content : key = disk[v.path]
    BY <1>2, <1>3 DEF ArchiveSaver
  <2>3. ~data.torn => data.content = key
    BY <1>2, <2>1, <2>2 DEF SaversTrue
  <2>4. PICK k : k = s.env
    OBVIOUS
  <2>5. k \in 1..Len(dbs) /\ dbs[k] \in StoreState /\ RowsSound(dbs[k]) /\ dbs[k].schema # None
    BY <1>8, <2>4, WorkerFacts
  <2>6. PICK old \in StoreState : old = dbs[k]
    BY <2>5
  <2>7. PICK db : db = A!StoreArtifact(old, key, data)
    OBVIOUS
  <2>8. dbs' = [dbs EXCEPT ![k] = db]
    BY <1>8, <2>1, <2>2, <2>4, <2>6, <2>7 DEF A!SaveDetached, A!HasStore, A!EncodeHashKey
  <2>9. Later(old, db) /\ db.inits = old.inits
    <3>1. old.schema # None /\ RowsSound(old) /\ (old.inits <= 1 /\ ~data.torn => data.content = key)
      BY <2>3, <2>5, <2>6
    <3> QED
      BY <3>1, <2>7, StoreArtifactSound
  <2>10. Trusts(s, dbs) => LinkedTo(y, new, db) /\ JobTrue(new, disk)
    <3> SUFFICES ASSUME Trusts(s, dbs) PROVE LinkedTo(y, new, db)
      BY <1>2, <1>6
    <3>1. db.inits <= 1 /\ old.schema # None /\ LinkedTo(y, s, old)
      BY <1>2, <2>4, <2>5, <2>6, <2>9 DEF Trusts
    <3>2. LinkedTo(y, s, db)
      BY <3>1, <2>9 DEF LinkedTo, Later
    <3> QED
      BY <3>2, <1>6
  <2>11. db = A!StoreArtifact(dbs[k], key, data) /\ new.pc = "ready" /\ new.env = k
    BY <1>4, <1>8, <2>4, <2>6, <2>7
  <2> QED
    BY <1>1, <1>4, <1>5, <1>8, <2>1, <2>2, <2>3, <2>4, <2>8, <2>10, <2>11, WorkerStores
<1> QED
  BY <1>7, <1>8

-----------------------------------------------------------------------------
(* A jar is rewritten: what was made of it before is marked.                *)
Marked(s, path) ==
    [s EXCEPT !.job.data = A!Torn(@, s.job.path, path),
              !.savers = {[path |-> v.path, data |-> A!Torn(v.data, v.path, path)] : v \in s.savers}]

LEMMA TornData ==
  ASSUME NEW data \in A!Data, NEW own, NEW path
  PROVE  /\ A!Torn(data, own, path) \in A!Data
         /\ A!Torn(data, own, path).content = data.content
         /\ ~A!Torn(data, own, path).torn => ~data.torn /\ own # path
<1>1. data # None
  BY NoneIsNoData
<1>2. CASE own = path
  <2>1. A!Torn(data, own, path) = [data EXCEPT !.torn = TRUE]
    BY <1>1, <1>2 DEF A!Torn
  <2> QED
    BY <2>1 DEF A!Data
<1>3. CASE own # path
  <2>1. A!Torn(data, own, path) = data
    BY <1>3 DEF A!Torn
  <2> QED
    BY <2>1, <1>3
<1> QED
  BY <1>2, <1>3

LEMMA MarkedSound ==
  ASSUME NEW y, NEW s \in ServerState, NEW d \in [Path -> Content], NEW bs, NEW l, ServerSound(y, s, d, bs, l),
         NEW path \in Path, NEW c \in Content, NEW new, new = Marked(s, path), NEW after, after = [d EXCEPT ![path] = c]
  PROVE  new \in ServerState /\ ServerSound(y, new, after, bs, l)
<1> DEFINE data == A!Torn(s.job.data, s.job.path, path)
           j0 == [s.job EXCEPT !.data = data]
           kept == {[path |-> v.path, data |-> A!Torn(v.data, v.path, path)] : v \in s.savers}
<1>1. /\ s.job \in ArchiveJob /\ s.savers \in SUBSET ArchiveSaver
      /\ EnvOpen(s, bs, l) /\ NothingYet(s) /\ JobShaped(s) /\ SaversTrue(s, d)
  BY DEF ServerState, ServerSound
<1>2. IF s.job.pc = "save" THEN data \in A!Data /\ data.content = s.job.data.content
                                /\ (~data.torn => ~s.job.data.torn /\ s.job.path # path)
      ELSE data = None /\ s.job.data = None
  <2>1. CASE s.job.pc = "save"
    <3>1. s.job.data \in A!Data
      BY <1>1, <2>1 DEF JobShaped
    <3> QED
      BY <2>1, <3>1, TornData
  <2>2. CASE s.job.pc # "save"
    <3>1. s.job.data = None
      BY <1>1, <2>2 DEF JobShaped
    <3> QED
      BY <2>2, <3>1 DEF A!Torn
  <2> QED
    BY <2>1, <2>2
<1>3. /\ kept \in SUBSET ArchiveSaver
      /\ s.savers = {} => kept = {}
      /\ \A w \in kept : ~w.data.torn => w.data.content = after[w.path]
  <2>1. ASSUME NEW w \in kept PROVE w \in ArchiveSaver /\ (~w.data.torn => w.data.content = after[w.path])
    <3>1. PICK v \in s.savers : w = [path |-> v.path, data |-> A!Torn(v.data, v.path, path)]
      OBVIOUS
    <3>2. v.path \in Path /\ v.data \in A!Data
      BY <1>1 DEF ArchiveSaver
    <3>3. PICK e : e = A!Torn(v.data, v.path, path)
      OBVIOUS
    <3>4. e \in A!Data /\ e.content = v.data.content /\ (~e.torn => ~v.data.torn /\ v.path # path)
      BY <3>2, <3>3, TornData
    <3>5. w.path = v.path /\ w.data = e /\ w \in ArchiveSaver
      BY <3>1, <3>2, <3>3, <3>4 DEF ArchiveSaver
    <3>6. ~e.torn => v.data.content = d[v.path] /\ after[v.path] = d[v.path]
      BY <1>1, <3>2, <3>4 DEF SaversTrue
    <3> QED
      BY <3>4, <3>5, <3>6
  <2> QED
    BY <2>1
<1>4. new = [s EXCEPT !.job = j0, !.savers = kept]
  BY DEF Marked
<1> HIDE DEF data, kept
<1>5. j0 \in ArchiveJob /\ j0.pc = s.job.pc /\ j0.path = s.job.path /\ j0.data = data
  BY <1>1, <1>2 DEF ArchiveJob
<1>6. s.job = A!Idle => j0 = A!Idle
  <2>1. s.job = A!Idle => s.job.pc # "save"
    BY DEF A!Idle
  <2> QED
    BY <1>1, <1>2, <2>1 DEF ArchiveJob
<1> HIDE DEF j0
<1>7. /\ new \in ServerState /\ new.job = j0 /\ new.pc = s.pc /\ new.env = s.env
      /\ new.savers = kept /\ new.jar_cache = s.jar_cache /\ new.readers = s.readers
  BY <1>3, <1>4, <1>5 DEF ServerState
<1>8. EnvOpen(new, bs, l) /\ NothingYet(new)
  BY <1>1, <1>3, <1>6, <1>7 DEF EnvOpen, NothingYet
<1>9. JobShaped(new) /\ SaversTrue(new, after)
  BY <1>1, <1>2, <1>3, <1>5, <1>7 DEF JobShaped, SaversTrue
<1>10. JobTrue(s, d) => JobTrue(new, after)
  <2> SUFFICES ASSUME JobTrue(s, d), s.job.pc = "save", ~data.torn PROVE data.content = after[s.job.path]
    BY <1>5, <1>7 DEF JobTrue
  <2>1. s.job.path \in Path /\ s.job.path # path /\ ~s.job.data.torn /\ data.content = s.job.data.content
    BY <1>1, <1>2 DEF JobShaped
  <2> QED
    BY <2>1 DEF JobTrue
<1>11. /\ Trusts(new, bs) => Trusts(s, bs)
       /\ LinkedTo(y, s, bs[s.env]) => LinkedTo(y, new, bs[new.env])
  BY <1>7 DEF Trusts, LinkedTo
<1>12. ServerSound(y, new, after, bs, l)
  BY <1>7, <1>8, <1>9, <1>10, <1>11 DEF ServerSound
<1> QED
  BY <1>7, <1>12

LEMMA RewriteJarSound ==
  ASSUME StoreInv, NEW path \in Path, NEW c \in Content, A!RewriteJar(path, c)
  PROVE  StoreInv'
<1>1. /\ disk' = [disk EXCEPT ![path] = c] /\ UNCHANGED <<dbs, live>>
      /\ proc' = [y \in Process |-> Marked(proc[y], path)]
  BY DEF A!RewriteJar, A!Job, Marked
<1>2. /\ disk \in [Path -> Content] /\ dbs \in Seq(StoreState) /\ Len(dbs) >= 1 /\ live \in 0..Len(dbs)
      /\ \A k \in 1..Len(dbs) : RowsSound(dbs[k]) /\ StoreFresh(k, dbs[k])
  BY DEF StoreInv, StoreTypes
<1>3. ASSUME NEW y \in Process PROVE proc'[y] \in ServerState /\ ServerSound(y, proc'[y], disk', dbs, live)
  <2>1. PICK new : new = Marked(proc[y], path)
    OBVIOUS
  <2>2. PICK after : after = [disk EXCEPT ![path] = c]
    OBVIOUS
  <2>3. proc[y] \in ServerState /\ ServerSound(y, proc[y], disk, dbs, live)
    BY ServerFacts
  <2>4. new \in ServerState /\ ServerSound(y, new, after, dbs, live)
    BY <1>2, <2>1, <2>2, <2>3, MarkedSound
  <2> QED
    BY <1>1, <2>1, <2>2, <2>4
<1>4. proc' \in [Process -> ServerState]
  BY <1>1, <1>3
<1>5. disk' \in [Path -> Content]
  BY <1>1, <1>2
<1>6. StoreTypes'
  BY <1>1, <1>2, <1>4, <1>5 DEF StoreTypes
<1> QED
  BY <1>1, <1>2, <1>3, <1>6 DEF StoreInv

LEMMA StoreStep == StoreInv /\ [A!Next]_storeVars => StoreInv'
<1> SUFFICES ASSUME StoreInv, [A!Next]_storeVars PROVE StoreInv'
  OBVIOUS
<1>1. CASE UNCHANGED storeVars
  BY <1>1 DEF storeVars, StoreInv, StoreTypes
<1>2. ASSUME NEW y \in Process, A!Server(y) PROVE StoreInv'
  <2>1. CASE A!Open(y)
    BY <2>1, OpenedSound DEF A!Open
  <2>2. CASE A!Recreate(y)
    BY <2>2, OpenedSound DEF A!Recreate
  <2>3. CASE A!CheckSchema(y) \/ A!RemoveStore(y) \/ A!InitializeRecreated(y) \/ A!Crash(y)
    BY <2>3, CheckSchemaSound, RemoveStoreSound, InitializeRecreatedSound, CrashSound
  <2>4. ASSUME NEW path \in Path, A!StartJar(y, path) PROVE StoreInv'
    BY <2>4, StartJarSound
  <2>5. CASE A!LoadCached(y) \/ A!IndexJar(y) \/ A!IndexFails(y)
    BY <2>5, LoadCachedSound, IndexJarSound, IndexFailsSound
  <2>6. CASE A!SaveCached(y) \/ A!SaveFails(y) \/ A!Read(y)
    BY <2>6, SaveCachedSound, SaveFailsSound, ReadSound
  <2>7. ASSUME NEW v \in proc[y].savers, A!SaveDetached(y, v) PROVE StoreInv'
    BY <2>7, SaveDetachedSound
  <2> QED
    BY <1>2, <2>1, <2>2, <2>3, <2>4, <2>5, <2>6, <2>7 DEF A!Server
<1>3. ASSUME NEW path \in Path, NEW c \in Content, A!RewriteJar(path, c) PROVE StoreInv'
  BY <1>3, RewriteJarSound
<1> QED
  BY <1>1, <1>2, <1>3 DEF A!Next

(* What the tables of a store say agrees, and what a server knows of the    *)
(* archives it indexed is what the store has of them, whatever is rewritten *)
(* and whoever dies: store_artifact gives a content one artifact, and the   *)
(* store a server has open keeps its rows unless it is made anew.           *)
THEOREM ArtifactsCorrect == A!Spec => []ArtifactsSound
<1>1. StoreInv => A!RowsAgree
  BY DEF StoreInv, RowsSound, A!RowsAgree
<1>2. StoreInv => A!EntriesLoadTheirJar
  <2> SUFFICES ASSUME StoreInv, NEW y \in Process, A!HasStore(y), A!Db(y).inits <= 1
               PROVE  /\ \A e \in Range(proc[y].jar_cache) : e.kind = "artifact" =>
                            /\ e.id \in DOMAIN A!Db(y).artifacts
                            /\ ~e.torn /\ ~A!Db(y).artifacts[e.id].data.torn =>
                                  A!Db(y).artifacts[e.id].data.content = e.content
                      /\ \A id \in DOMAIN proc[y].readers : proc[y].readers[id] = A!Db(y).artifacts[id].data
    BY DEF A!EntriesLoadTheirJar, A!ReadersMatchArtifacts, A!Range, Range
  <2> DEFINE db == dbs[proc[y].env]
  <2>1. proc[y].pc = "ready" /\ A!Db(y) = db /\ Trusts(proc[y], dbs)
    BY DEF A!HasStore, A!Db, Trusts
  <2>2. LinkedTo(y, proc[y], db) /\ RowsSound(db) /\ db.inits <= 1
    BY <2>1, WorkerFacts
  <2>3. ASSUME NEW e \in Range(proc[y].jar_cache), e.kind = "artifact"
        PROVE  /\ e.id \in DOMAIN db.artifacts
               /\ ~db.artifacts[e.id].data.torn => db.artifacts[e.id].data.content = e.content
    <3>1. PICK path \in DOMAIN proc[y].jar_cache : e = proc[y].jar_cache[path]
      BY DEF Range
    <3>2. e.id \in DOMAIN db.artifacts /\ db.artifacts[e.id].key = e.content
      BY <3>1, <2>2, <2>3 DEF LinkedTo
    <3> QED
      BY <3>2, <2>2 DEF RowsSound
  <2>4. \A id \in DOMAIN proc[y].readers : proc[y].readers[id] = db.artifacts[id].data
    BY <2>2 DEF LinkedTo
  <2> QED
    BY <2>1, <2>3, <2>4
<1> QED
  BY <1>1, <1>2, StoreInit, StoreStep, PTL DEF A!Spec, A!vars, storeVars, ArtifactsSound

(* A server that works has a store of its own schema version open, unless a *)
(* server of another one made that store anew.                              *)
THEOREM StoreTypeCorrect == A!Spec => []A!TypeOK
<1>1. StoreInv => A!TypeOK
  <2> SUFFICES ASSUME StoreInv PROVE A!TypeOK
    OBVIOUS
  <2>1. disk \in [Path -> Content] /\ live \in 0..Len(dbs)
    BY DEF StoreInv, StoreTypes
  <2>2. ASSUME NEW k \in 1..Len(dbs) PROVE A!StoreRecord(dbs[k])
    <3>1. PICK db \in StoreState : db = dbs[k]
      BY DEF StoreInv, StoreTypes
    <3>2. /\ DOMAIN db.artifacts \subseteq Nat /\ \A id \in DOMAIN db.artifacts : db.artifacts[id] \in StoredArtifact
          /\ \A key \in DOMAIN db.artifact_by_hash : db.artifact_by_hash[key] \in Nat
      BY TableHas DEF StoreState
    <3>3. db.schema \in Range(Schema) \cup {OldSchema, None} /\ db.next_id \in Nat
      BY DEF StoreState
    <3>4. A!StoreRecord(db)
      BY <3>2, <3>3 DEF A!StoreRecord, StoredArtifact, A!Range, Range
    <3> QED
      BY <3>1, <3>4
  <2>3. ASSUME NEW y \in Process
        PROVE  /\ A!HasStore(y) /\ A!Db(y).inits <= 1 => A!Db(y).schema = Schema[y]
               /\ proc[y].savers \subseteq [path : Path, data : A!Data]
               /\ Range(proc[y].readers) \subseteq A!Data
    <3>1. proc[y] \in ServerState
      BY ServerFacts
    <3>2. proc[y].savers \subseteq [path : Path, data : A!Data]
      BY <3>1 DEF ServerState, ArchiveSaver
    <3>3. \A id \in DOMAIN proc[y].readers : proc[y].readers[id] \in A!Data
      BY <3>1, TableHas DEF ServerState
    <3>4. A!HasStore(y) /\ A!Db(y).inits <= 1 => A!Db(y).schema = Schema[y]
      BY WorkerFacts DEF A!HasStore, A!Db, Trusts, LinkedTo
    <3> QED
      BY <3>2, <3>3, <3>4 DEF Range
  <2> QED
    BY <2>1, <2>2, <2>3 DEF A!TypeOK, A!Range, Range
<1> QED
  BY <1>1, StoreInit, StoreStep, PTL DEF A!Spec, A!vars, storeVars

-----------------------------------------------------------------------------
(* The three together: they share no state.                                 *)
LEMMA StoresSplit == StoresSpec => Spec /\ A!Spec /\ D!Spec
<1>1. StoresInit => Init /\ A!Init /\ D!Init
  BY DEF StoresInit
<1> DEFINE N == \/ /\ StoreUntouched /\ DecompilerUntouched
                   /\ Next /\ UNCHANGED <<storeVars, decompilerVars>>
                \/ /\ BucketUntouched /\ DecompilerUntouched
                   /\ A!Next /\ UNCHANGED <<vars, decompilerVars>>
                \/ /\ BucketUntouched /\ StoreUntouched
                   /\ D!Next /\ UNCHANGED <<vars, storeVars>>
<1>2. [N]_<<vars, storeVars, decompilerVars>> => [Next]_vars /\ [A!Next]_A!vars /\ [D!Next]_D!vars
  BY DEF vars, storeVars, decompilerVars, A!vars, D!vars
<1>3. StoresSpec => StoresInit /\ [][N]_<<vars, storeVars, decompilerVars>>
  BY DEF StoresSpec
<1> HIDE DEF N
<1> QED
  BY <1>1, <1>2, <1>3, PTL DEF Spec, A!Spec, D!Spec

(* The bucket, the stores and the cache directory have their types in every *)
(* behaviour that the run of the three explores.                            *)
THEOREM StoresTypeCorrect == StoresSpec => []StoresTypeOK
<1>1. D!Spec => []D!TypeOK
  <2>1. SourceInv => D!TypeOK
    <3> SUFFICES ASSUME SourceInv PROVE D!TypeOK
      OBVIOUS
    <3>1. /\ jar \in Bytes /\ files \in [Bytes -> Bytes \cup {Absent, Partial}]
          /\ \A r \in Request : request[r] \in SourceRequest
          /\ \A r \in Request : request[r].pc # "idle" => request[r].bytes \in Bytes
      BY DEF SourceInv, SourceTypes, BytesTaken
    <3>2. \A r \in Request : request[r].shown \in Bytes \cup {Absent, Partial}
      BY <3>1 DEF SourceRequest
    <3> QED
      BY <3>1, <3>2 DEF D!TypeOK
  <2> QED
    BY <2>1, SourceInit, SourceStep, PTL DEF D!Spec, D!vars, decompilerVars
<1>2. StoresTypeOK <=> TypeOK /\ A!TypeOK /\ D!TypeOK
  BY DEF StoresTypeOK
<1> QED
  BY <1>1, <1>2, StoresSplit, BucketTypeCorrect, StoreTypeCorrect, PTL

=============================================================================
