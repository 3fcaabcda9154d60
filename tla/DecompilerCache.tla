--------------------------- MODULE DecompilerCache ---------------------------
(***************************************************************************)
(* Going to a definition in bytecode: goto_decompile                       *)
(* (lsp/handlers/goto_definition.rs), the cache of decompiled sources      *)
(* (decompiler/cache.rs) and the two backends that fill it                 *)
(* (decompiler/backend/cfr.rs and vineflower.rs, decompiler.rs).           *)
(*                                                                         *)
(* One class is looked at.  Its jar is rebuilt now and then, so its bytes  *)
(* change; a cache file is named after the class and the hash of the bytes *)
(* and written in place.  Requests for the class run at the same time when *)
(* they come from different documents.  The backend is chosen when the     *)
(* server is initialised and does not change.                              *)
(***************************************************************************)
EXTENDS Naturals, FiniteSets

CONSTANTS
    Bytes,        \* versions of the class
    Request,
    Absent,       \* no file, nothing read
    Partial,      \* a file that is being written, or was when the write stopped
    MaxRebuilds, MaxRequests, MaxFaults  \* bounds

VARIABLES
    jar,          \* the bytes in the jar now
    files,        \* files[b]: the cache file of bytes b: Absent, Partial, or what it shows
    request,
    rebuilds, requests,
    faults        \* crashes, and writes that failed

vars == <<jar, files, request, rebuilds, requests, faults>>

Idle == [pc |-> "idle", bytes |-> Absent, shown |-> Absent, alone |-> TRUE]

Init ==
    /\ jar \in Bytes
    /\ files = [b \in Bytes |-> Absent]
    /\ request = [r \in Request |-> Idle]
    /\ rebuilds = 0 /\ requests = 0 /\ faults = 0

Rebuild ==
    /\ rebuilds < MaxRebuilds /\ rebuilds' = rebuilds + 1
    /\ jar' \in Bytes \ {jar}
    /\ UNCHANGED <<files, request, requests, faults>>

Goto(r, pc) == request' = [request EXCEPT ![r].pc = pc]

\* DecompilerCache::resolve: the file's name holds the hash of the bytes.
ResolveByName(r) == CHOOSE b \in Bytes : TRUE
Resolve(r) == request[r].bytes

\* extract_class_bytes.  "alone" is a history: no other request was at work meanwhile.
BeginWithoutBytes(r) ==
    /\ request[r].pc = "idle" /\ requests < MaxRequests
    /\ requests' = requests + 1
    /\ request' = [request EXCEPT ![r].pc = "look"]
    /\ UNCHANGED <<jar, files, rebuilds, faults>>
Begin(r) ==
    /\ request[r].pc = "idle" /\ requests < MaxRequests
    /\ requests' = requests + 1
    /\ LET others == {q \in Request \ {r} : request[q].pc # "idle"} IN
       request' = [q \in Request |->
           IF q = r THEN [Idle EXCEPT !.pc = "look", !.bytes = jar, !.alone = others = {}]
           ELSE [request[q] EXCEPT !.alone = @ /\ request[q].pc = "idle"]]
    /\ UNCHANGED <<jar, files, rebuilds, faults>>

LookUp(r) ==
    /\ request[r].pc = "look"
    /\ Goto(r, IF files[Resolve(r)] = Absent THEN "run" ELSE "read")
    /\ UNCHANGED <<jar, files, rebuilds, requests, faults>>

\* No decompiler is configured, it fails, it prints nothing, or the request is cancelled,
\* which kills the process.
NoSource(r) ==
    /\ request[r].pc = "run"
    /\ Goto(r, "idle")
    /\ UNCHANGED <<jar, files, rebuilds, requests, faults>>

\* The source is there; the file is created or truncated, then written.
StartWrite(r) ==
    /\ request[r].pc = "run"
    /\ files' = [files EXCEPT ![Resolve(r)] = Partial]
    /\ Goto(r, "write")
    /\ UNCHANGED <<jar, rebuilds, requests, faults>>

FinishWrite(r) ==
    /\ request[r].pc = "write"
    /\ files' = [files EXCEPT ![Resolve(r)] = request[r].bytes]
    /\ Goto(r, "clean")
    /\ UNCHANGED <<jar, rebuilds, requests, faults>>

WriteFails(r) ==
    /\ request[r].pc = "write" /\ faults < MaxFaults
    /\ faults' = faults + 1
    /\ Goto(r, "idle")
    /\ UNCHANGED <<jar, files, rebuilds, requests>>

\* cleanup_stale: every other file of the class is removed.
KeepNone(r) == {}
Keep(r) == {Resolve(r)}

CleanupStale(r) ==
    /\ request[r].pc = "clean"
    /\ files' = [b \in Bytes |-> IF b \in Keep(r) THEN files[b] ELSE Absent]
    /\ Goto(r, "read")
    /\ UNCHANGED <<jar, rebuilds, requests, faults>>

ReadSource(r) ==
    /\ request[r].pc = "read"
    /\ request' = [request EXCEPT ![r].pc = "answer", ![r].shown = files[Resolve(r)]]
    /\ UNCHANGED <<jar, files, rebuilds, requests, faults>>

Answer(r) ==
    /\ request[r].pc = "answer"
    /\ request' = [request EXCEPT ![r] = Idle]
    /\ UNCHANGED <<jar, files, rebuilds, requests, faults>>

\* A cancelled request stops at the check after the decompilation; the write itself runs on
\* a thread of its own and ends.
CancelledInWrite(r) ==
    /\ request[r].pc \in {"write", "clean", "read"}
    /\ Goto(r, "idle")
    /\ UNCHANGED <<jar, files, rebuilds, requests, faults>>
Cancelled(r) ==
    /\ request[r].pc \in {"clean", "read"}
    /\ Goto(r, "idle")
    /\ UNCHANGED <<jar, files, rebuilds, requests, faults>>

Crash ==
    /\ faults < MaxFaults /\ faults' = faults + 1
    /\ request' = [r \in Request |-> Idle]
    /\ UNCHANGED <<jar, files, rebuilds, requests>>

Next ==
    \/ Rebuild \/ Crash
    \/ \E r \in Request :
           \/ Begin(r) \/ LookUp(r) \/ NoSource(r) \/ StartWrite(r) \/ FinishWrite(r)
           \/ WriteFails(r) \/ CleanupStale(r) \/ ReadSource(r) \/ Answer(r) \/ Cancelled(r)

Spec == Init /\ [][Next]_vars

-----------------------------------------------------------------------------
(* Properties.                                                              *)

\* Files and requests have their types; a request past extraction knows its bytes.
TypeOK ==
    /\ jar \in Bytes
    /\ files \in [Bytes -> Bytes \cup {Absent, Partial}]
    /\ \A r \in Request :
           /\ request[r].shown \in Bytes \cup {Absent, Partial}
           /\ request[r].pc # "idle" => request[r].bytes \in Bytes

\* No request shows the source of other bytes than it took from the jar, whatever other
\* requests write, remove and read meanwhile and however often the jar is rebuilt.
ShowsItsOwnBytes ==
    \A r \in Request : request[r].pc = "answer" =>
        request[r].shown \in {request[r].bytes, Partial, Absent}

\* A request that ran alone shows a complete source: what it wrote is not removed by its
\* own cleanup, and what it found was complete; unless a crash or a failed write left a
\* file behind, which LookUp takes for a result.
AloneShowsSource ==
    faults = 0 => \A r \in Request :
        request[r].pc = "answer" /\ request[r].alone => request[r].shown = request[r].bytes

\* A file is incomplete only while somebody writes it.
IncompleteMeansWriting ==
    faults = 0 => \A b \in Bytes :
        files[b] = Partial => \E r \in Request : request[r].pc = "write" /\ Resolve(r) = b

\* Goto-definition into a class without sources opens the source of the bytes of that
\* class: a whole one when no other request and no fault was in the way, never that of
\* other bytes, and no partial file stays behind for later requests.
DecompiledSourceShown == ShowsItsOwnBytes /\ AloneShowsSource /\ IncompleteMeansWriting
=============================================================================
