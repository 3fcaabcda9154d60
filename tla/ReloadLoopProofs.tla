--------------------------- MODULE ReloadLoopProofs ---------------------------
(***************************************************************************)
(* What run_reload_loop guarantees for every set of build files and tools: *)
(* its status is truthful, no relevant change of a build file is lost, and *)
(* published models only move forward.                                     *)
(***************************************************************************)
EXTENDS ReloadLoop, TLAPS

USE FileAssumption, RegistryAssumption, NoneAssumption, BoundAssumption

\* BuildToolRegistry::detect answers with a registered tool or none.
LEMMA DetectType == Detect \in Tool \cup {None}
BY DEF Detect

\* Nothing the environment or the loop does takes a variable out of its type.
LEMMA TypeStep == IInv /\ [Next]_vars => TypeOK'
<1> SUFFICES ASSUME IInv, [Next]_vars PROVE TypeOK'
  OBVIOUS
<1> USE DEF IInv, TypeOK, State
<1>1. ASSUME NEW f \in File, ChangeFile(f) PROVE TypeOK'
  BY <1>1 DEF ChangeFile, loopVars, Contents
<1>2. ASSUME NEW f \in File, DidChangeWatchedFiles(f) PROVE TypeOK'
  BY <1>2 DEF DidChangeWatchedFiles, Notify, loopVars
<1>3. ASSUME NEW f \in File, DidOpenOrSave(f) PROVE TypeOK'
  BY <1>3 DEF DidOpenOrSave, loopVars
<1>4. CASE Receive
  <2>1. queue' \in Nat
    BY <1>4 DEF Receive
  <2>2. dirty' \in BOOLEAN /\ debounce' \in BOOLEAN
    BY <1>4 DEF Receive
  <2>3. status' \in [state: State, tool: Tool \cup {None}, generation: Nat,
                     fresh: BOOLEAN, error: BOOLEAN]
    BY <1>4 DEF Receive
  <2>4. UNCHANGED <<envVars, generation, inFlight, pc, resolved, interest, model,
                   seen, dropped>>
    BY <1>4 DEF Receive
  <2> QED BY <2>1, <2>2, <2>3, <2>4 DEF envVars
<1>5. CASE DebounceElapsed
  <2>1. dirty' \in BOOLEAN /\ debounce' \in BOOLEAN
    BY <1>5 DEF DebounceElapsed
  <2>2. generation' \in Nat /\ seen' \in Contents /\ dropped' \subseteq File
    BY <1>5 DEF DebounceElapsed
  <2>3. /\ resolved' \in Tool \cup {None}
        /\ pc' \in {"select", "detected", "fallback", "apply"}
    BY <1>5, DetectType DEF DebounceElapsed
  <2>4. UNCHANGED <<envVars, queue, inFlight, interest, status, model>>
    BY <1>5 DEF DebounceElapsed
  <2> QED BY <2>1, <2>2, <2>3, <2>4 DEF envVars
<1>6. CASE PublishDetection
  <2>1. status' \in [state: State, tool: Tool \cup {None}, generation: Nat,
                     fresh: BOOLEAN, error: BOOLEAN]
    BY <1>6 DEF PublishDetection
  <2>2. inFlight' \in Import \cup {None}
    BY <1>6 DEF PublishDetection, Import
  <2>3. /\ pc' \in {"select", "detected", "fallback", "apply"}
        /\ resolved' \in Tool \cup {None} /\ interest' \in Tool \cup {None}
    BY <1>6 DEF PublishDetection
  <2>4. UNCHANGED <<envVars, queue, dirty, debounce, generation, model, seen,
                   dropped>>
    BY <1>6 DEF PublishDetection
  <2> QED BY <2>1, <2>2, <2>3, <2>4 DEF envVars
<1>7. ASSUME NEW ok \in BOOLEAN, FallbackIndexed(ok) PROVE TypeOK'
  BY <1>7 DEF FallbackIndexed, envVars
<1>8. CASE ImportReads
  BY <1>8 DEF ImportReads, Import, envVars
<1>9. CASE ImportFailed
  BY <1>9 DEF ImportFailed, MarkModelStale, Rearm, envVars
<1>10. CASE ImportDone
  BY <1>10 DEF ImportDone, envVars
<1>11. ASSUME NEW ok \in BOOLEAN, ModelApplied(ok) PROVE TypeOK'
  <2>1. inFlight \in [tool: Tool, generation: Nat, read: Contents]
    BY <1>11 DEF ModelApplied, LoopShape, Import
  <2>2. status' \in [state: State, tool: Tool \cup {None}, generation: Nat,
                     fresh: BOOLEAN, error: BOOLEAN]
    <3> DEFINE idle == [state |-> "Idle", tool |-> inFlight.tool,
                        generation |-> inFlight.generation, fresh |-> TRUE,
                        error |-> FALSE]
               failed == [status EXCEPT !.state = "Failed", !.error = TRUE]
               Status == [state: State, tool: Tool \cup {None}, generation: Nat,
                          fresh: BOOLEAN, error: BOOLEAN]
    <3>1. idle \in Status /\ [idle EXCEPT !.state = "Debouncing"] \in Status
      BY <2>1
    <3>2. failed \in Status /\ [failed EXCEPT !.state = "Debouncing"] \in Status
      OBVIOUS
    <3>3. Rearm(idle) \/ Rearm(failed)
      BY <1>11 DEF ModelApplied
    <3> HIDE DEF idle, failed, Status
    <3>4. status' \in Status
      BY <3>1, <3>2, <3>3 DEF Rearm
    <3> QED BY <3>4 DEF Status
  <2>3. model' \in [tool: Tool, generation: Nat, fresh: BOOLEAN] \cup {None}
    <3>1. CASE ok
      <4>1. model' = [tool |-> inFlight.tool,
                      generation |-> inFlight.generation, fresh |-> TRUE]
        BY <1>11, <3>1 DEF ModelApplied
      <4> QED BY <2>1, <4>1
    <3>2. CASE ~ok
      <4>1. MarkModelStale
        BY <1>11, <3>2 DEF ModelApplied
      <4> QED BY <4>1 DEF MarkModelStale
    <3> QED BY <3>1, <3>2
  <2>4. dirty' \in BOOLEAN /\ debounce' \in BOOLEAN
    BY <1>11 DEF ModelApplied, Rearm
  <2>5. seen' \in Contents /\ pc' = "select" /\ inFlight' = None
    BY <1>11, <2>1 DEF ModelApplied
  <2>6. UNCHANGED <<envVars, queue, generation, resolved, interest, dropped>>
    BY <1>11 DEF ModelApplied
  <2> QED BY <2>2, <2>3, <2>4, <2>5, <2>6 DEF envVars
<1>12. CASE UNCHANGED vars
  BY <1>12 DEF vars, envVars, loopVars
<1> QED BY <1>1, <1>2, <1>3, <1>4, <1>5, <1>6, <1>7, <1>8, <1>9, <1>10, <1>11,
           <1>12 DEF Next, Loop

\* Commands set mark and timer together, an attempt clears both.
LEMMA TimerStep == IInv /\ [Next]_vars => WorkHasTimer'
<1> SUFFICES ASSUME IInv, [Next]_vars PROVE WorkHasTimer'
  OBVIOUS
<1> USE DEF IInv, WorkHasTimer, TypeOK
<1>1. CASE Receive
  BY <1>1 DEF Receive
<1>2. CASE DebounceElapsed
  BY <1>2 DEF DebounceElapsed
<1>3. CASE ImportFailed
  BY <1>3 DEF ImportFailed, Rearm
<1>4. ASSUME NEW ok \in BOOLEAN, ModelApplied(ok) PROVE WorkHasTimer'
  BY <1>4 DEF ModelApplied, Rearm
<1>5. CASE UNCHANGED <<dirty, debounce>>
  BY <1>5
<1> QED
  BY <1>1, <1>2, <1>3, <1>4, <1>5 DEF Next, Loop, vars, loopVars, ChangeFile,
     DidChangeWatchedFiles, DidOpenOrSave, PublishDetection, FallbackIndexed,
     ImportReads, ImportDone


\* The steps outside the select start and end as LoopShape says.
LEMMA ShapeStep == IInv /\ [Next]_vars => LoopShape'
<1> SUFFICES ASSUME IInv, [Next]_vars PROVE LoopShape'
  OBVIOUS
<1> USE DEF IInv, LoopShape, TypeOK
<1>1. CASE Receive
  BY <1>1 DEF Receive
<1>2. CASE DebounceElapsed
  <2>1. dirty /\ status.state = "Debouncing"
    BY <1>2 DEF DebounceElapsed, WorkHasTimer, StatusTruthful
  <2> QED BY <1>2, <2>1 DEF DebounceElapsed
<1>3. CASE PublishDetection
  <2>1. status' \in [state: State, tool: Tool \cup {None}, generation: Nat,
                     fresh: BOOLEAN, error: BOOLEAN]
    BY TypeStep DEF TypeOK
  <2>2. pc' = "fallback" => status'.state = "Unmanaged" /\ inFlight' = None
    BY <1>3 DEF PublishDetection
  <2>3. pc' \in {"select", "fallback"} /\ ~dirty'
    BY <1>3 DEF PublishDetection
  <2> QED BY <2>2, <2>3
<1>4. ASSUME NEW ok \in BOOLEAN, FallbackIndexed(ok) PROVE LoopShape'
  BY <1>4 DEF FallbackIndexed
<1>5. CASE ImportReads
  BY <1>5 DEF ImportReads
<1>6. CASE ImportFailed
  BY <1>6 DEF ImportFailed
<1>7. CASE ImportDone
  BY <1>7 DEF ImportDone, StatusTruthful
<1>8. ASSUME NEW ok \in BOOLEAN, ModelApplied(ok) PROVE LoopShape'
  BY <1>8 DEF ModelApplied
<1>9. CASE UNCHANGED <<loopVars, status>>
  BY <1>9 DEF loopVars
<1> QED
  BY <1>1, <1>2, <1>3, <1>4, <1>5, <1>6, <1>7, <1>8, <1>9 DEF Next, Loop, vars,
     ChangeFile, DidChangeWatchedFiles, DidOpenOrSave

\* Every write of the reload state agrees with mark, import and model.
LEMMA StatusStep == IInv /\ [Next]_vars => StatusTruthful'
<1> SUFFICES ASSUME IInv, [Next]_vars PROVE StatusTruthful'
  OBVIOUS
<1> USE DEF IInv, StatusTruthful, TypeOK
<1>1. CASE Receive
  BY <1>1 DEF Receive
<1>2. CASE DebounceElapsed
  BY <1>2 DEF DebounceElapsed, WorkHasTimer
<1>3. CASE PublishDetection
  <2>1. CASE resolved = None
    BY <1>3, <2>1 DEF PublishDetection
  <2>2. CASE resolved # None
    <3>1. inFlight' \in Import
      BY <1>3, <2>2 DEF PublishDetection, Import
    <3>2. status'.state = "Importing"
      BY <1>3, <2>2 DEF PublishDetection
    <3> QED BY <3>1, <3>2
  <2> QED BY <2>1, <2>2
<1>4. ASSUME NEW ok \in BOOLEAN, FallbackIndexed(ok) PROVE StatusTruthful'
  <2>1. CASE ok
    BY <1>4, <2>1 DEF FallbackIndexed, LoopShape
  <2>2. CASE ~ok
    BY <1>4, <2>2 DEF FallbackIndexed, LoopShape
  <2> QED BY <2>1, <2>2
<1>5. CASE ImportReads
  <2>1. inFlight' \in Import
    BY <1>5 DEF ImportReads, Import
  <2> QED BY <1>5, <2>1 DEF ImportReads
<1>6. CASE ImportFailed
  BY <1>6 DEF ImportFailed, Rearm
<1>7. CASE ImportDone
  BY <1>7 DEF ImportDone
<1>8. ASSUME NEW ok \in BOOLEAN, ModelApplied(ok) PROVE StatusTruthful'
  <2>1. CASE ok
    BY <1>8, <2>1 DEF ModelApplied, Rearm
  <2>2. CASE ~ok
    BY <1>8, <2>2 DEF ModelApplied, Rearm
  <2> QED BY <2>1, <2>2
<1>9. CASE UNCHANGED <<loopVars, status, model>>
  BY <1>9 DEF loopVars
<1> QED
  BY <1>1, <1>2, <1>3, <1>4, <1>5, <1>6, <1>7, <1>8, <1>9 DEF Next, Loop, vars,
     ChangeFile, DidChangeWatchedFiles, DidOpenOrSave

\* An attempt is numbered higher than any before it.
LEMMA GenerationStep == IInv /\ [Next]_vars => GenerationsGrow'
<1> SUFFICES ASSUME IInv, [Next]_vars PROVE GenerationsGrow'
  OBVIOUS
<1> USE DEF IInv, GenerationsGrow, TypeOK
<1>1. CASE DebounceElapsed
  BY <1>1 DEF DebounceElapsed, WorkHasTimer
<1>2. CASE PublishDetection
  BY <1>2 DEF PublishDetection, LoopShape
<1>3. ASSUME NEW ok \in BOOLEAN, FallbackIndexed(ok) PROVE GenerationsGrow'
  BY <1>3 DEF FallbackIndexed, LoopShape
<1>4. CASE ImportReads
  BY <1>4 DEF ImportReads
<1>5. CASE ImportFailed
  BY <1>5 DEF ImportFailed, MarkModelStale
<1>6. CASE ImportDone
  BY <1>6 DEF ImportDone
<1>7. ASSUME NEW ok \in BOOLEAN, ModelApplied(ok) PROVE GenerationsGrow'
  BY <1>7 DEF ModelApplied, MarkModelStale, LoopShape
<1>8. CASE UNCHANGED <<generation, inFlight, pc, model>>
  BY <1>8
<1> QED
  BY <1>1, <1>2, <1>3, <1>4, <1>5, <1>6, <1>7, <1>8 DEF Next, Loop, vars,
     loopVars, ChangeFile, DidChangeWatchedFiles, DidOpenOrSave, Receive

\* A change that is reported as relevant leaves a command, the command leaves
\* the mark, and the mark goes only when an attempt is about to read the
\* build files.
LEMMA LostStep == IInv /\ [Next]_vars => NothingLost'
<1> SUFFICES ASSUME IInv, [Next]_vars PROVE NothingLost'
  OBVIOUS
<1> USE DEF IInv, NothingLost, Knows, TypeOK, Contents
<1>1. ASSUME NEW f \in File, ChangeFile(f) PROVE NothingLost'
  BY <1>1 DEF ChangeFile, loopVars
<1>2. ASSUME NEW f \in File, DidChangeWatchedFiles(f) PROVE NothingLost'
  BY <1>2 DEF DidChangeWatchedFiles, Notify, loopVars
<1>3. ASSUME NEW f \in File, DidOpenOrSave(f) PROVE NothingLost'
  BY <1>3 DEF DidOpenOrSave, loopVars
<1>4. CASE Receive
  BY <1>4 DEF Receive
<1>5. CASE DebounceElapsed
  BY <1>5 DEF DebounceElapsed, WorkHasTimer, envVars
<1>6. CASE PublishDetection
  <2>1. CASE resolved = None
    BY <1>6, <2>1 DEF PublishDetection, LoopShape, envVars
  <2>2. CASE resolved # None
    <3>1. /\ pc' = "select"
          /\ inFlight' = [tool |-> resolved, generation |-> generation,
                          read |-> None]
      BY <1>6, <2>2 DEF PublishDetection
    <3>2. inFlight' \in Import
      BY <2>2, <3>1 DEF Import
    <3>3. inFlight'.read = None
      BY <3>1
    <3> QED BY <3>1, <3>2, <3>3
  <2> QED BY <2>1, <2>2
<1>7. ASSUME NEW ok \in BOOLEAN, FallbackIndexed(ok) PROVE NothingLost'
  BY <1>7 DEF FallbackIndexed, LoopShape, envVars
<1>8. CASE ImportReads
  <2>1. inFlight'.read = disk
    BY <1>8 DEF ImportReads, Import
  <2>2. /\ disk' = disk /\ pc' = "select"
        /\ inFlight' \in Import
    BY <1>8 DEF ImportReads, Import, envVars
  <2> QED BY <2>1, <2>2
<1>9. CASE ImportFailed
  BY <1>9 DEF ImportFailed, Rearm, envVars
<1>10. CASE ImportDone
  BY <1>10 DEF ImportDone, envVars
<1>11. ASSUME NEW ok \in BOOLEAN, ModelApplied(ok) PROVE NothingLost'
  <2>1. CASE ok
    <3>1. seen' = inFlight.read /\ pc' = "select" /\ inFlight' = None
      BY <1>11, <2>1 DEF ModelApplied
    <3>2. UNCHANGED <<disk, unreported, dropped, queue, dirty>> /\ pc = "apply"
      BY <1>11, <2>1 DEF ModelApplied, Rearm, envVars
    <3> QED BY <3>1, <3>2
  <2>2. CASE ~ok
    <3>1. ~dirty => status'.state = "Failed"
      BY <1>11, <2>2 DEF ModelApplied, Rearm
    <3>2. /\ UNCHANGED <<disk, unreported, dropped, queue, dirty>>
          /\ pc' = "select" /\ inFlight' = None
      BY <1>11, <2>2 DEF ModelApplied, Rearm, envVars
    <3> QED BY <3>1, <3>2
  <2> QED BY <2>1, <2>2
<1>12. CASE UNCHANGED vars
  BY <1>12 DEF vars, envVars, loopVars
<1> QED BY <1>1, <1>2, <1>3, <1>4, <1>5, <1>6, <1>7, <1>8, <1>9, <1>10, <1>11,
           <1>12 DEF Next, Loop

\* The inductive invariant holds when the service starts: the initial command
\* stands for everything that has not been read yet.
LEMMA InitInv == Init => IInv
<1> SUFFICES ASSUME Init PROVE IInv
  OBVIOUS
<1>1. disk \in Contents /\ seen \in Contents
  BY DEF Init, Contents
<1>2. TypeOK
  <2>1. status \in [state: State, tool: Tool \cup {None}, generation: Nat,
                    fresh: BOOLEAN, error: BOOLEAN]
    BY DEF Init, State
  <2>2. dirty \in BOOLEAN /\ debounce \in BOOLEAN
    BY DEF Init
  <2>3. changes \in 0 .. MaxChanges /\ opens \in 0 .. MaxOpens
    BY DEF Init
  <2> QED BY <1>1, <2>1, <2>2, <2>3 DEF Init, TypeOK
<1>3. WorkHasTimer /\ LoopShape /\ StatusTruthful
  BY DEF Init, WorkHasTimer, LoopShape, StatusTruthful
<1>4. GenerationsGrow /\ NothingLost
  BY DEF Init, GenerationsGrow, NothingLost
<1> QED BY <1>2, <1>3, <1>4 DEF IInv

LEMMA InvStep == IInv /\ [Next]_vars => IInv'
BY TypeStep, TimerStep, ShapeStep, StatusStep, GenerationStep, LostStep DEF IInv

\* The inductive invariant is one.
THEOREM Invariance == Spec => []IInv
BY InitInv, InvStep, PTL DEF Spec

\* Every variable of the loop keeps its type.
THEOREM TypeCorrect == Spec => []TypeOK
<1>1. IInv => TypeOK
  BY DEF IInv
<1> QED BY <1>1, Invariance, PTL

\* Mark and timer of run_reload_loop go together: its "not dirty" branch is
\* dead, and no work waits without a timer.
THEOREM TimerCorrect == Spec => []WorkHasTimer
<1>1. IInv => WorkHasTimer
  BY DEF IInv
<1> QED BY <1>1, Invariance, PTL

\* BuildIntegrationStatus tells what the loop does.
THEOREM StatusCorrect == Spec => []StatusTruthful
<1>1. IInv => StatusTruthful
  BY DEF IInv
<1> QED BY <1>1, Invariance, PTL

\* A quiet loop has imported every change that was reported as relevant.
THEOREM NoChangeLost == Spec => []RelevantChangesImported
<1>1. IInv => RelevantChangesImported
  BY DEF IInv, NothingLost, Knows, RelevantChangesImported, Quiet
<1> QED BY <1>1, Invariance, PTL

\* A step that replaces a published model publishes a younger one, or marks
\* the same one stale.
LEMMA ForwardStep ==
    IInv /\ [Next]_vars =>
        (model # None /\ model' # None /\ model' # model =>
           \/ model'.generation > model.generation
           \/ model' = [model EXCEPT !.fresh = FALSE])
<1> SUFFICES ASSUME IInv, [Next]_vars, model # None, model' # None,
                    model' # model
             PROVE  \/ model'.generation > model.generation
                    \/ model' = [model EXCEPT !.fresh = FALSE]
  OBVIOUS
<1>1. CASE ImportFailed
  BY <1>1 DEF ImportFailed, MarkModelStale
<1>2. ASSUME NEW ok \in BOOLEAN, ModelApplied(ok)
      PROVE  \/ model'.generation > model.generation
             \/ model' = [model EXCEPT !.fresh = FALSE]
  <2>1. CASE ok
    <3>1. model'.generation = inFlight.generation
      BY <1>2, <2>1 DEF ModelApplied
    <3>2. inFlight # None /\ inFlight.generation = generation
      BY <1>2 DEF ModelApplied, IInv, LoopShape, GenerationsGrow
    <3>3. model.generation < generation
      BY <3>2 DEF IInv, GenerationsGrow
    <3>4. model.generation \in Nat /\ generation \in Nat
      BY DEF IInv, TypeOK
    <3> QED BY <3>1, <3>2, <3>3, <3>4
  <2>2. CASE ~ok
    BY <1>2, <2>2 DEF ModelApplied, MarkModelStale
  <2> QED BY <2>1, <2>2
<1>3. ASSUME NEW ok \in BOOLEAN, FallbackIndexed(ok) PROVE FALSE
  BY <1>3 DEF FallbackIndexed
<1> QED
  BY <1>1, <1>2, <1>3 DEF Next, Loop, vars, ChangeFile, DidChangeWatchedFiles,
     DidOpenOrSave, Receive, DebounceElapsed, PublishDetection, ImportReads,
     ImportDone

\* Published models only move forward.
THEOREM ModelsForward == Spec => ModelMovesForward
<1>1. IInv /\ [Next]_vars =>
        [(model # None /\ model' # None /\ model' # model) =>
            \/ model'.generation > model.generation
            \/ model' = [model EXCEPT !.fresh = FALSE]]_vars
  BY ForwardStep
<1> QED BY <1>1, Invariance, PTL DEF Spec, ModelMovesForward
=============================================================================
