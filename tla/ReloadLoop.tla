------------------------------ MODULE ReloadLoop ------------------------------
(***************************************************************************)
(* The build integration service, src/build_integration/reload.rs: build   *)
(* files change on disk and are reported by the client, reports relevant   *)
(* to the detected tool become reload commands, and run_reload_loop        *)
(* debounces them, detects the build tool, imports the workspace in a task *)
(* of its own and applies the model, or indexes the fallback root.         *)
(*                                                                         *)
(* The loop is one task; its select! is entered at pc = "select", and the  *)
(* bodies that await (detection status, fallback index, apply) have a pc   *)
(* of their own, during which reports go on arriving.                      *)
(***************************************************************************)
EXTENDS Naturals, Sequences

CONSTANTS
    File,        \* build files
    NameOf,      \* the last component of each file's path
    Tool,        \* build tools
    Registry,    \* BuildToolRegistry: the tools in the order they are asked
    Markers,     \* files whose presence makes a tool apply, by tool
    Watched,     \* BuildWatchInterest::file_names, by tool
    Registered,  \* files whose changes the client reports: the globs of
                 \* register_build_watchers, and what it watches by itself
    None,        \* no tool, no model, no import, nothing read
    MaxChanges,  \* bound: changes on disk
    MaxOpens     \* bound: build files opened or saved unchanged

Contents == [File -> 0 .. MaxChanges]
Import == [tool: Tool, generation: Nat, read: Contents \cup {None}]

ASSUME FileAssumption == /\ DOMAIN NameOf = File
                         /\ Markers \in [Tool -> SUBSET File]
                         /\ DOMAIN Watched = Tool
                         /\ Registered \subseteq File
ASSUME RegistryAssumption == Registry \in Seq(Tool)
ASSUME NoneAssumption == None \notin Tool \cup Contents /\ None \notin Import
ASSUME BoundAssumption == MaxChanges \in Nat \ {0} /\ MaxOpens \in Nat

VARIABLES
    disk,        \* content of each file: number of its last change, 0 if absent,
                 \* 1 for what the server finds at its start
    unreported,  \* files with a change the client has not reported
    queue,       \* commands in the channel
    dirty, debounce, generation,   \* locals of the loop
    inFlight,    \* the import task: None or what it was asked and has read
    pc,          \* where the loop is
    resolved,    \* the tool the current detection found
    interest,    \* watch_interest
    status,      \* BuildIntegrationStatus
    model,       \* the published model: None or [tool, generation, fresh]
    seen,        \* what the last attempt to end well knew of the disk
    dropped,     \* history: changes reported as irrelevant, not read since
    changes, opens

loopVars == <<dirty, debounce, generation, inFlight, pc, resolved>>
envVars  == <<disk, unreported, changes, opens>>
vars == <<envVars, queue, loopVars, interest, status, model, seen, dropped>>

State == {"Unmanaged", "Idle", "Debouncing", "Importing", "Failed"}

TypeOK ==
    /\ disk \in Contents /\ unreported \subseteq File /\ queue \in Nat
    /\ dirty \in BOOLEAN /\ debounce \in BOOLEAN /\ generation \in Nat
    /\ inFlight \in Import \cup {None}
    /\ pc \in {"select", "detected", "fallback", "apply"}
    /\ resolved \in Tool \cup {None} /\ interest \in Tool \cup {None}
    /\ status \in [state: State, tool: Tool \cup {None}, generation: Nat,
                   fresh: BOOLEAN, error: BOOLEAN]
    /\ model \in [tool: Tool, generation: Nat, fresh: BOOLEAN] \cup {None}
    /\ seen \in Contents /\ dropped \subseteq File
    /\ changes \in 0 .. MaxChanges /\ opens \in 0 .. MaxOpens

-----------------------------------------------------------------------------
\* BuildToolRegistry::detect: the first tool that finds one of its markers.
Detect ==
    LET hits == {i \in 1 .. Len(Registry) :
                   \E f \in Markers[Registry[i]] : disk[f] # 0}
        first == {i \in hits : \A j \in hits : i <= j}
    IN IF first = {} THEN None ELSE Registry[CHOOSE i \in first : TRUE]

\* BuildWatchInterest::matches_path compares the file's name, not its path.
MatchesPath(tool, f) == NameOf[f] \in Watched[tool]

\* notify_paths_changed: until a tool is detected, every tool's names count.
IsRelevant(f) ==
    IF interest = None THEN \E tool \in Tool : MatchesPath(tool, f)
    ELSE MatchesPath(interest, f)

Init ==
    /\ disk \in [File -> {0, 1}]
    /\ unreported = {} /\ changes = 1 /\ opens = 0
    /\ queue = 1                       \* ReloadReason::Initialize
    /\ dirty = FALSE /\ debounce = FALSE /\ generation = 0
    /\ inFlight = None /\ pc = "select" /\ resolved = None
    /\ interest = None
    /\ status = [state |-> "Unmanaged", tool |-> None, generation |-> 0,
                 fresh |-> FALSE, error |-> FALSE]
    /\ model = None
    /\ seen = [f \in File |-> 0] /\ dropped = {}

-----------------------------------------------------------------------------
(* The disk and the client                                                 *)

ChangeFile(f) ==
    /\ changes < MaxChanges
    /\ changes' = changes + 1
    /\ \E content \in {0, changes'} :
         content # disk[f] /\ disk' = [disk EXCEPT ![f] = content]
    /\ unreported' = unreported \cup {f}
    /\ dropped' = dropped \ {f}
    /\ UNCHANGED <<opens, queue, loopVars, interest, status, model, seen>>

\* schedule_reload, if the path is relevant.
Notify(f) ==
    IF IsRelevant(f)
    THEN queue' = queue + 1 /\ UNCHANGED dropped
    ELSE dropped' = dropped \cup {f} /\ UNCHANGED queue

\* did_change_watched_files reports a change of f.
DidChangeWatchedFiles(f) ==
    /\ f \in unreported \cap Registered
    /\ unreported' = unreported \ {f}
    /\ Notify(f)
    /\ UNCHANGED <<disk, changes, opens, loopVars, interest, status, model, seen>>

\* did_open and did_save report the document's path, changed or not.
DidOpenOrSave(f) ==
    /\ opens < MaxOpens
    /\ opens' = opens + 1
    /\ f \notin unreported
    /\ IF IsRelevant(f) THEN queue' = queue + 1 ELSE UNCHANGED queue
    /\ UNCHANGED <<disk, unreported, changes, loopVars, interest, status, model,
                   seen, dropped>>

-----------------------------------------------------------------------------
(* run_reload_loop                                                         *)

\* Variant: the state does not look at the import.
ReceiveAlwaysDebouncing ==
    /\ pc = "select" /\ queue > 0
    /\ queue' = queue - 1
    /\ dirty' = TRUE
    /\ debounce' = TRUE
    /\ status' = [status EXCEPT !.state = "Debouncing"]
    /\ UNCHANGED <<envVars, generation, inFlight, pc, resolved, interest, model,
                   seen, dropped>>

\* Variant: a command that arrives alone takes another one with it.
ReceiveTwo ==
    /\ pc = "select" /\ queue > 0
    /\ queue' = queue - 2
    /\ dirty' = TRUE
    /\ debounce' = TRUE
    /\ status' = [status EXCEPT !.state =
                    IF inFlight # None THEN "Importing" ELSE "Debouncing"]
    /\ UNCHANGED <<envVars, generation, inFlight, pc, resolved, interest, model,
                   seen, dropped>>

Receive ==
    /\ pc = "select" /\ queue > 0
    /\ queue' = queue - 1
    /\ dirty' = TRUE
    /\ debounce' = TRUE
    /\ status' = [status EXCEPT !.state =
                    IF inFlight # None THEN "Importing" ELSE "Debouncing"]
    /\ UNCHANGED <<envVars, generation, inFlight, pc, resolved, interest, model,
                   seen, dropped>>

\* Variant: generations are counted by the imports that succeed.
DebounceElapsedSameGeneration ==
    /\ pc = "select" /\ debounce /\ inFlight = None
    /\ debounce' = FALSE
    /\ IF ~dirty
       THEN UNCHANGED <<dirty, generation, pc, resolved, seen, dropped>>
       ELSE /\ dirty' = FALSE
            /\ generation' = IF model = None THEN generation + 1 ELSE generation
            /\ resolved' = Detect
            /\ pc' = "detected"
            /\ IF Detect = None THEN seen' = disk /\ dropped' = {}
               ELSE UNCHANGED <<seen, dropped>>
    /\ UNCHANGED <<envVars, queue, inFlight, interest, status, model>>

\* Variant: the work stays marked until it has succeeded.
DebounceElapsedStaysDirty ==
    /\ pc = "select" /\ debounce /\ inFlight = None
    /\ debounce' = FALSE
    /\ generation' = generation + 1
    /\ resolved' = Detect
    /\ pc' = "detected"
    /\ IF Detect = None THEN seen' = disk /\ dropped' = {}
       ELSE UNCHANGED <<seen, dropped>>
    /\ UNCHANGED <<envVars, queue, dirty, inFlight, interest, status, model>>

\* The debounce has elapsed and no import runs: detect the tool.  Finding
\* none is all a fallback index has to know of the build files.
DebounceElapsed ==
    /\ pc = "select" /\ debounce /\ inFlight = None
    /\ debounce' = FALSE
    /\ IF ~dirty
       THEN UNCHANGED <<dirty, generation, pc, resolved, seen, dropped>>
       ELSE /\ dirty' = FALSE
            /\ generation' = generation + 1
            /\ resolved' = Detect
            /\ pc' = "detected"
            /\ IF Detect = None THEN seen' = disk /\ dropped' = {}
               ELSE UNCHANGED <<seen, dropped>>
    /\ UNCHANGED <<envVars, queue, inFlight, interest, status, model>>

\* publish_detection_status, then the fallback index or the import task.
PublishDetection ==
    /\ pc = "detected"
    /\ interest' = resolved
    /\ IF resolved = None
       THEN /\ pc' = "fallback"
            /\ status' = [status EXCEPT !.state = "Unmanaged", !.tool = None,
                                        !.error = FALSE]
            /\ UNCHANGED inFlight
       ELSE /\ pc' = "select"
            /\ status' = [status EXCEPT !.state = "Importing",
                                        !.tool = resolved, !.error = FALSE]
            /\ inFlight' = [tool |-> resolved, generation |-> generation,
                            read |-> None]
    /\ resolved' = None
    /\ UNCHANGED <<envVars, queue, dirty, debounce, generation, model, seen,
                   dropped>>

\* index_fallback_root has returned.
FallbackIndexed(ok) ==
    /\ pc = "fallback"
    /\ pc' = "select"
    /\ IF ok
       THEN model' = None /\ UNCHANGED status
       ELSE /\ status' = [status EXCEPT !.state = "Failed", !.error = TRUE]
            /\ UNCHANGED model
    /\ UNCHANGED <<envVars, queue, dirty, debounce, generation, inFlight,
                   resolved, interest, seen, dropped>>

\* External: the build tool reads the build files.
ImportReads ==
    /\ inFlight # None /\ pc = "select" /\ inFlight.read = None
    /\ inFlight' = [inFlight EXCEPT !.read = disk]
    /\ dropped' = {}
    /\ UNCHANGED <<envVars, queue, dirty, debounce, generation, pc, resolved,
                   interest, status, model, seen>>

\* The model that is published stays, marked stale.
MarkModelStale ==
    model' = IF model = None THEN None ELSE [model EXCEPT !.fresh = FALSE]

\* What the result arm ends with: work that arrived meanwhile is debounced.
Rearm(state) ==
    /\ debounce' = (debounce \/ dirty)
    /\ UNCHANGED dirty
    /\ status' = IF dirty THEN [state EXCEPT !.state = "Debouncing"] ELSE state

\* The import task fails or panics, having read the files or not.
ImportFailed ==
    /\ pc = "select" /\ inFlight # None
    /\ inFlight' = None
    /\ MarkModelStale
    /\ Rearm([status EXCEPT !.state = "Failed", !.error = TRUE])
    /\ UNCHANGED <<envVars, queue, generation, pc, resolved, interest, seen,
                   dropped>>

\* The import task delivers a model: apply_workspace_model starts.
ImportDone ==
    /\ pc = "select" /\ inFlight # None /\ inFlight.read # None
    /\ pc' = "apply"
    /\ UNCHANGED <<envVars, queue, dirty, debounce, generation, inFlight,
                   resolved, interest, status, model, seen, dropped>>

\* Variant: after an apply nothing is left to do.
ModelAppliedClean(ok) ==
    /\ pc = "apply" /\ ok
    /\ pc' = "select"
    /\ inFlight' = None
    /\ model' = [tool |-> inFlight.tool, generation |-> inFlight.generation,
                 fresh |-> TRUE]
    /\ seen' = inFlight.read
    /\ dirty' = FALSE /\ debounce' = FALSE
    /\ status' = [state |-> "Idle", tool |-> inFlight.tool,
                  generation |-> inFlight.generation, fresh |-> TRUE,
                  error |-> FALSE]
    /\ UNCHANGED <<envVars, queue, generation, resolved, interest, dropped>>

\* apply_workspace_model has returned.
ModelApplied(ok) ==
    /\ pc = "apply"
    /\ pc' = "select"
    /\ inFlight' = None
    /\ IF ok
       THEN /\ model' = [tool |-> inFlight.tool,
                         generation |-> inFlight.generation, fresh |-> TRUE]
            /\ seen' = inFlight.read
            /\ Rearm([state |-> "Idle", tool |-> inFlight.tool,
                      generation |-> inFlight.generation, fresh |-> TRUE,
                      error |-> FALSE])
       ELSE /\ MarkModelStale
            /\ UNCHANGED seen
            /\ Rearm([status EXCEPT !.state = "Failed", !.error = TRUE])
    /\ UNCHANGED <<envVars, queue, generation, resolved, interest, dropped>>

Loop ==
    \/ Receive
    \/ DebounceElapsed
    \/ PublishDetection
    \/ \E ok \in BOOLEAN : FallbackIndexed(ok)
    \/ ImportReads
    \/ ImportFailed
    \/ ImportDone
    \/ \E ok \in BOOLEAN : ModelApplied(ok)

Next ==
    \/ \E f \in File : ChangeFile(f)
    \/ \E f \in File : DidChangeWatchedFiles(f)
    \/ \E f \in File : DidOpenOrSave(f)
    \/ Loop

Spec == Init /\ [][Next]_vars

\* The loop is scheduled, timers fire, and the build tool and the indexing
\* end; nothing is assumed of the client.
FairSpec == Spec /\ WF_vars(Loop)

-----------------------------------------------------------------------------
(* Properties                                                              *)

Quiet == pc = "select" /\ queue = 0 /\ ~dirty /\ inFlight = None

\* No relevant change is lost between debounce, import and apply: once the
\* loop is quiet, and unless its status says that the last attempt failed,
\* that attempt knew every file as it is, but for changes not reported yet
\* or reported as irrelevant.
RelevantChangesImported ==
    Quiet /\ status.state # "Failed" =>
        \A f \in File \ (unreported \cup dropped) : seen[f] = disk[f]

\* The status tells what the loop does: an import is reported as long as one
\* runs, work that waits is reported as debouncing, and an idle service has
\* published the fresh model of the generation and tool it names.
StatusTruthful ==
    pc = "select" =>
        /\ inFlight # None <=> status.state = "Importing"
        /\ inFlight = None => (dirty <=> status.state = "Debouncing")
        /\ status.state = "Idle" =>
              model = [tool |-> status.tool, generation |-> status.generation,
                       fresh |-> TRUE]

\* Work is marked exactly as long as its timer is armed: no work waits for a
\* timer nobody set, and the timer never fires for nothing.
WorkHasTimer == dirty <=> debounce

\* A published model is only replaced by one of a later generation or by the
\* fallback index, and a stale one does not become fresh again by itself.
ModelMovesForward ==
    [][(model # None /\ model' # None /\ model' # model) =>
          \/ model'.generation > model.generation
          \/ model' = [model EXCEPT !.fresh = FALSE]]_vars

\* The inductive invariant behind RelevantChangesImported: at every point of
\* the loop, a file that is not known as it is has a change that is not yet
\* reported or was dropped, or there is a command or a mark for it.
Knows(f) ==
    /\ pc = "detected" /\ resolved = None => seen[f] = disk[f]
    /\ pc = "fallback" => seen[f] = disk[f]
    /\ pc = "apply" => inFlight.read[f] = disk[f]
    /\ pc = "select" /\ inFlight # None /\ inFlight.read # None =>
          inFlight.read[f] = disk[f]
    /\ pc = "select" /\ inFlight = None /\ status.state # "Failed" =>
          seen[f] = disk[f]

NothingLost ==
    queue = 0 /\ ~dirty => \A f \in File \ (unreported \cup dropped) : Knows(f)

\* Generations: the model of an attempt is younger than the published one.
GenerationsGrow ==
    /\ model # None => model.generation <= generation
    /\ (inFlight # None \/ pc = "detected") /\ model # None =>
          model.generation < generation
    /\ inFlight # None => inFlight.generation = generation

\* What holds at the points of the loop outside its select.
LoopShape ==
    /\ pc \in {"detected", "fallback"} => inFlight = None /\ ~dirty
    /\ pc = "detected" => status.state = "Debouncing"
    /\ pc = "fallback" => status.state = "Unmanaged"
    /\ pc = "apply" => /\ inFlight # None /\ inFlight.read # None
                       /\ status.state = "Importing"

IInv == /\ TypeOK /\ WorkHasTimer /\ LoopShape /\ StatusTruthful
        /\ GenerationsGrow /\ NothingLost

\* Every reload command is worked off: the loop comes to rest.
ReloadsEnd == queue > 0 ~> Quiet
===============================================================================
