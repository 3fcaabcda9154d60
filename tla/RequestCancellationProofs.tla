----------------------- MODULE RequestCancellationProofs -----------------------
(***************************************************************************)
(* Proofs that the request life cycle keeps its registry, its tokens and   *)
(* its handlers consistent, for any number of requests, keys and worker    *)
(* checkpoints.                                                            *)
(***************************************************************************)
EXTENDS RequestCancellation, TLAPS

\* At most one handler is inside a split poll, and `polling` names it; a
\* displaced token belongs to an older, running request of the same key.
PollInv ==
    /\ \A r \in Request : stage[r] \in {"begin", "drop"} => polling = r
    /\ polling # None => stage[polling] \in {"begin", "drop"}
    /\ previous # None =>
         /\ polling # None
         /\ stage[polling] = "begin"
         /\ KeyOf[previous] = KeyOf[polling]
         /\ generation[previous] < generation[polling]
         /\ stage[previous] \in {"worker", "decompile"}

\* Generations identify the requests that have begun.
GenerationInv ==
    /\ next_generation > 0
    /\ \A r \in Request :
         /\ generation[r] < next_generation
         /\ stage[r] = "new" <=> generation[r] = 0
         /\ stage[r] = "new" => reason[r] = "none"
         /\ \A q \in Request :
              generation[r] = generation[q] /\ generation[r] # 0 => r = q

\* A handler inside begin holds its key's registration.
BeginInv ==
    \A r \in Request : stage[r] = "begin" =>
        /\ active[KeyOf[r]] # None
        /\ active[KeyOf[r]].token = r

\* Answers come with closing, and a running decompiler has its handler.
AnswerInv ==
    \A r \in Request :
        /\ answer[r] # "none" => stage[r] = "closed"
        /\ child[r] # "none" => stage[r] \in {"decompile", "drop", "closed"}
        /\ child[r] = "running" => stage[r] = "decompile"

\* The inductive invariant.
IInv ==
    /\ TypeOK
    /\ PollInv
    /\ GenerationInv
    /\ BeginInv
    /\ AnswerInv
    /\ RegistryMatchesGuards
    /\ SupersededOnlyByNewer
    /\ DecompiledAnswerUncancelled

USE KeyAssumption, DecompilesAssumption, ChecksAssumption, NoneAssumption

-----------------------------------------------------------------------------
LEMMA InitIInv == Init => IInv
  <1> SUFFICES ASSUME Init PROVE IInv
    OBVIOUS
  <1>1. TypeOK
    BY DEF Init, TypeOK, Stages, Results, Children, Answers, Reasons
  <1>2. PollInv /\ BeginInv /\ AnswerInv
    BY DEF Init, PollInv, BeginInv, AnswerInv
  <1>3. GenerationInv
    BY DEF Init, GenerationInv
  <1>4. RegistryMatchesGuards /\ SupersededOnlyByNewer
        /\ DecompiledAnswerUncancelled
    BY DEF Init, RegistryMatchesGuards, SupersededOnlyByNewer,
           DecompiledAnswerUncancelled, Live
  <1> QED
    BY <1>1, <1>2, <1>3, <1>4 DEF IInv

\* Type correctness is inductive by itself.
LEMMA TypeStep == TypeOK /\ [Next]_vars => TypeOK'
  <1> SUFFICES ASSUME TypeOK, [Next]_vars PROVE TypeOK'
    OBVIOUS
  <1> USE DEF TypeOK, ActiveRequest, Stages, Results, Children, Answers, Reasons
  <1>1. ASSUME NEW r \in Request, BeginInsert(r) PROVE TypeOK'
    BY <1>1 DEF BeginInsert, requestVars
  <1>2. ASSUME NEW r \in Request, BeginSupersede(r) PROVE TypeOK'
    BY <1>2 DEF BeginSupersede, Cancel, requestVars
  <1>3. ASSUME NEW r \in Request, WorkerCheck(r) PROVE TypeOK'
    BY <1>3 DEF WorkerCheck
  <1>4. ASSUME NEW r \in Request, WorkerReturn(r) PROVE TypeOK'
    BY <1>4 DEF WorkerReturn
  <1>5. ASSUME NEW r \in Request, HandlerResume(r) PROVE TypeOK'
    BY <1>5 DEF HandlerResume, Finish, RemoveIfOwn
  <1>6. ASSUME NEW r \in Request, DecompileStart(r) PROVE TypeOK'
    BY <1>6 DEF DecompileStart, Finish, RemoveIfOwn
  <1>7. ASSUME NEW r \in Request, DecompileSpawn(r) PROVE TypeOK'
    <2>1. CASE Finish(r, "empty") /\ UNCHANGED <<child, waiting>>
      BY <1>7, <2>1 DEF DecompileSpawn, Finish, RemoveIfOwn
    <2>2. CASE Finish(r, "cancelled") /\ UNCHANGED waiting
      <3>1. child' \in [Request -> Children]
        BY <1>7 DEF DecompileSpawn
      <3> QED
        BY <1>7, <2>2, <3>1 DEF DecompileSpawn, Finish, RemoveIfOwn
    <2>3. CASE waiting' = [waiting EXCEPT ![r] = TRUE] /\ UNCHANGED stage
      <3>1. waiting' \in [Request -> BOOLEAN]
        BY <2>3
      <3>2. child' \in [Request -> Children]
        BY <1>7 DEF DecompileSpawn
      <3> QED
        BY <1>7, <2>3, <3>1, <3>2 DEF DecompileSpawn, Finish, RemoveIfOwn
    <2> QED
      BY <1>7, <2>1, <2>2, <2>3 DEF DecompileSpawn
  <1>8. ASSUME NEW r \in Request, DecompileKilled(r) PROVE TypeOK'
    BY <1>8 DEF DecompileKilled, Finish, RemoveIfOwn
  <1>9. ASSUME NEW r \in Request, DecompileFinish(r) PROVE TypeOK'
    BY <1>9 DEF DecompileFinish, Finish, RemoveIfOwn
  <1>10. ASSUME NEW r \in Request, DropRemove(r) PROVE TypeOK'
    BY <1>10 DEF DropRemove, RemoveIfOwn
  <1>11. ASSUME NEW r \in Request, ChildExit(r) PROVE TypeOK'
    BY <1>11 DEF ChildExit
  <1>12. ASSUME NEW r \in Request, ClientCancel(r) PROVE TypeOK'
    BY <1>12 DEF ClientCancel
  <1>13. CASE UNCHANGED vars
    BY <1>13 DEF vars
  <1> QED
    BY <1>1, <1>2, <1>3, <1>4, <1>5, <1>6, <1>7, <1>8, <1>9, <1>10, <1>11,
       <1>12, <1>13 DEF Next, Worker, Handler

\* Every reachable state of the request life cycle is well typed.
THEOREM TypeCorrect == Spec => []TypeOK
  <1>1. Init => TypeOK
    BY InitIInv DEF IInv
  <1> QED
    BY <1>1, TypeStep, PTL DEF Spec

-----------------------------------------------------------------------------
\* A guard that goes away, whether finished or dropped, takes only its own
\* registration with it: what Finish and DropRemove have in common.
LEMMA CloseStep ==
  ASSUME IInv, TypeOK', NEW r \in Request,
         stage[r] \in {"worker", "decompile", "drop"},
         polling \in {None, r},
         previous = None,
         RemoveIfOwn(r),
         stage' = [stage EXCEPT ![r] = "closed"],
         polling' = None,
         UNCHANGED <<next_generation, generation, reason, previous>>
  PROVE  /\ PollInv'
         /\ GenerationInv'
         /\ BeginInv'
         /\ RegistryMatchesGuards'
         /\ SupersededOnlyByNewer'
  <1> USE DEF IInv, TypeOK
  <1>1. PollInv'
    BY DEF PollInv
  <1>2. GenerationInv'
    BY DEF GenerationInv
  <1>3. SupersededOnlyByNewer'
    BY DEF SupersededOnlyByNewer
  <1>4. \A k \in Key : active'[k] # None =>
          /\ active'[k] = active[k]
          /\ active[k].token # r
    <2> SUFFICES ASSUME NEW k \in Key, active'[k] # None
                 PROVE  active'[k] = active[k] /\ active[k].token # r
      OBVIOUS
    <2>1. active'[k] = active[k]
      BY DEF RemoveIfOwn
    <2>2. /\ KeyOf[active[k].token] = k
          /\ generation[active[k].token] = active[k].generation
      BY <2>1 DEF RegistryMatchesGuards
    <2> QED
      BY <2>1, <2>2 DEF RemoveIfOwn
  <1>5. \A q \in Request : q # r /\ active[KeyOf[q]] # None
                           /\ active[KeyOf[q]].token = q
                           => active'[KeyOf[q]] = active[KeyOf[q]]
    <2> SUFFICES ASSUME NEW q \in Request, q # r, active[KeyOf[q]] # None,
                        active[KeyOf[q]].token = q
                 PROVE  active'[KeyOf[q]] = active[KeyOf[q]]
      OBVIOUS
    <2>1. generation[q] = active[KeyOf[q]].generation /\ stage[q] # "new"
      BY DEF RegistryMatchesGuards
    <2>2. generation[q] # generation[r]
      BY <2>1 DEF GenerationInv
    <2> QED
      BY <2>1, <2>2 DEF RemoveIfOwn
  <1>6. BeginInv'
    BY <1>5 DEF BeginInv
  <1>7. RegistryMatchesGuards'
    <2>1. \A k \in Key : active'[k] # None =>
             /\ KeyOf[active'[k].token] = k
             /\ generation'[active'[k].token] = active'[k].generation
             /\ stage'[active'[k].token] \notin {"new", "closed"}
      BY <1>4 DEF RegistryMatchesGuards, ActiveRequest
    <2>2. ASSUME NEW q \in Request, Live(q)'
          PROVE  active'[KeyOf[q]] # None /\ active'[KeyOf[q]].token = q
      <3>1. q # r /\ Live(q)
        BY <2>2 DEF Live
      <3>2. active[KeyOf[q]] # None /\ active[KeyOf[q]].token = q
        BY <3>1 DEF RegistryMatchesGuards
      <3> QED
        BY <3>1, <3>2, <1>5
    <2> QED
      BY <2>1, <2>2 DEF RegistryMatchesGuards
  <1> QED
    BY <1>1, <1>2, <1>3, <1>6, <1>7

\* No displaced token is held between two polls.
LEMMA NoPreviousBetweenPolls == IInv /\ polling = None => previous = None
  BY DEF IInv, PollInv, TypeOK

\* Whoever is registered or displaced has a handler that has not closed.
LEMMA RegisteredNotClosed ==
  ASSUME IInv, NEW k \in Key, active[k] # None
  PROVE  /\ active[k].token \in Request
         /\ KeyOf[active[k].token] = k
         /\ stage[active[k].token] \notin {"new", "closed"}
  BY DEF IInv, TypeOK, ActiveRequest, RegistryMatchesGuards

LEMMA BeginInsertStep ==
  ASSUME IInv, TypeOK', NEW r \in Request, BeginInsert(r)
  PROVE  IInv'
  <1> USE DEF IInv, TypeOK, BeginInsert, requestVars
  <1> DEFINE k == KeyOf[r]
  <1>a. k \in Key /\ previous = None /\ generation[r] = 0
    BY NoPreviousBetweenPolls DEF GenerationInv
  <1>b. ASSUME previous' # None
        PROVE  /\ active[k] # None
               /\ previous' = active[k].token
               /\ previous' \in Request
               /\ previous' # r
               /\ KeyOf[previous'] = k
               /\ stage[previous'] \in {"worker", "decompile"}
    <2>1. active[k] # None /\ previous' = active[k].token
      BY <1>b
    <2>2. /\ previous' \in Request
          /\ KeyOf[previous'] = k
          /\ stage[previous'] \notin {"new", "closed"}
      BY <2>1, <1>a, RegisteredNotClosed
    <2> QED
      BY <2>1, <2>2 DEF PollInv, Stages
  <1>1. PollInv'
    BY <1>a, <1>b DEF PollInv, GenerationInv
  <1>2. GenerationInv'
    BY <1>a DEF GenerationInv
  <1>3. BeginInv'
    BY <1>a DEF BeginInv, PollInv, ActiveRequest
  <1>4. AnswerInv'
    BY DEF AnswerInv
  <1>5. RegistryMatchesGuards'
    <2>1. ASSUME NEW j \in Key, active'[j] # None
          PROVE  /\ KeyOf[active'[j].token] = j
                 /\ generation'[active'[j].token] = active'[j].generation
                 /\ stage'[active'[j].token] \notin {"new", "closed"}
      <3>1. CASE j = k
        BY <3>1, <1>a
      <3>2. CASE j # k
        BY <2>1, <3>2, RegisteredNotClosed DEF RegistryMatchesGuards
      <3> QED
        BY <3>1, <3>2
    <2>2. ASSUME NEW q \in Request, Live(q)'
          PROVE  \/ previous' = q
                 \/ /\ active'[KeyOf[q]] # None
                    /\ active'[KeyOf[q]].token = q
      <3>1. q # r /\ Live(q)
        BY <2>2 DEF Live
      <3>2. active[KeyOf[q]] # None /\ active[KeyOf[q]].token = q
        BY <3>1, <1>a DEF RegistryMatchesGuards
      <3> QED
        BY <3>1, <3>2
    <2> QED
      BY <2>1, <2>2 DEF RegistryMatchesGuards
  <1>6. SupersededOnlyByNewer'
    BY <1>a DEF SupersededOnlyByNewer, GenerationInv
  <1>7. DecompiledAnswerUncancelled'
    BY DEF DecompiledAnswerUncancelled
  <1> QED
    BY <1>1, <1>2, <1>3, <1>4, <1>5, <1>6, <1>7

LEMMA BeginSupersedeStep ==
  ASSUME IInv, TypeOK', NEW r \in Request, BeginSupersede(r)
  PROVE  IInv'
  <1> USE DEF IInv, TypeOK, BeginSupersede, requestVars
  <1>a. polling = r
    BY DEF PollInv
  <1>b. \A q \in Request : q # previous => reason'[q] = reason[q]
    BY DEF Cancel
  <1>c. previous # None => reason'[previous] # "none"
    BY DEF Cancel
  <1>1. PollInv'
    BY <1>a DEF PollInv
  <1>2. GenerationInv'
    BY <1>b DEF GenerationInv, PollInv
  <1>3. BeginInv'
    BY <1>a DEF BeginInv, PollInv
  <1>4. AnswerInv'
    BY DEF AnswerInv
  <1>5. RegistryMatchesGuards'
    <2>1. ASSUME NEW j \in Key, active'[j] # None
          PROVE  /\ KeyOf[active'[j].token] = j
                 /\ generation'[active'[j].token] = active'[j].generation
                 /\ stage'[active'[j].token] \notin {"new", "closed"}
      BY <2>1, RegisteredNotClosed DEF RegistryMatchesGuards
    <2>2. ASSUME NEW q \in Request, Live(q)'
          PROVE  active'[KeyOf[q]] # None /\ active'[KeyOf[q]].token = q
      <3>1. q # previous
        BY <2>2, <1>c DEF Live
      <3>2. CASE q = r
        BY <3>2 DEF BeginInv
      <3>3. CASE q # r
        BY <2>2, <3>1, <3>3, <1>b DEF Live, RegistryMatchesGuards
      <3> QED
        BY <3>2, <3>3
    <2> QED
      BY <2>1, <2>2 DEF RegistryMatchesGuards
  <1>6. SupersededOnlyByNewer'
    <2> SUFFICES ASSUME NEW q \in Request, reason'[q] = "Superseded"
                 PROVE  \E n \in Request : /\ KeyOf[n] = KeyOf[q]
                                           /\ generation[n] > generation[q]
      BY DEF SupersededOnlyByNewer
    <2>1. CASE q = previous
      BY <2>1, <1>a DEF PollInv
    <2>2. CASE q # previous
      BY <2>2, <1>b DEF SupersededOnlyByNewer
    <2> QED
      BY <2>1, <2>2
  <1>7. DecompiledAnswerUncancelled'
    BY <1>b DEF DecompiledAnswerUncancelled, AnswerInv, PollInv
  <1> QED
    BY <1>1, <1>2, <1>3, <1>4, <1>5, <1>6, <1>7

\* A worker or the decompiler process touches no registration and no token.
LEMMA BackgroundStep ==
  ASSUME IInv, TypeOK', NEW r \in Request,
         WorkerCheck(r) \/ WorkerReturn(r) \/ ChildExit(r)
  PROVE  IInv'
  <1>1. UNCHANGED <<next_generation, active, generation, reason, polling,
                    previous, stage, answer>>
    BY DEF WorkerCheck, WorkerReturn, ChildExit
  <1>2. PollInv' /\ GenerationInv' /\ BeginInv'
    BY <1>1 DEF IInv, PollInv, GenerationInv, BeginInv
  <1>3. RegistryMatchesGuards' /\ SupersededOnlyByNewer'
    BY <1>1 DEF IInv, RegistryMatchesGuards, SupersededOnlyByNewer, Live
  <1>4. AnswerInv' /\ DecompiledAnswerUncancelled'
    <2>1. CASE UNCHANGED child
      BY <1>1, <2>1 DEF IInv, AnswerInv, DecompiledAnswerUncancelled
    <2>2. CASE ChildExit(r)
      <3>1. child[r] = "running" /\ child' = [child EXCEPT ![r] = "exited"]
        BY <2>2 DEF ChildExit
      <3> QED
        BY <1>1, <3>1 DEF IInv, TypeOK, AnswerInv, DecompiledAnswerUncancelled
    <2> QED
      BY <2>1, <2>2 DEF WorkerCheck, WorkerReturn
  <1> QED
    BY <1>2, <1>3, <1>4 DEF IInv

\* An answering poll: the guard closes, and a location after a finished
\* decompilation needs an uncancelled token.
LEMMA FinishStep ==
  ASSUME IInv, TypeOK', NEW r \in Request, NEW a \in Answers,
         polling = None,
         stage[r] \in {"worker", "decompile"},
         Finish(r, a),
         \A q \in Request : q # r => child'[q] = child[q],
         child'[r] # "running",
         a = "value" /\ child'[r] = "exited" => reason[r] = "none"
  PROVE  IInv'
  <1>1. /\ PollInv' /\ GenerationInv' /\ BeginInv'
        /\ RegistryMatchesGuards' /\ SupersededOnlyByNewer'
    BY CloseStep, NoPreviousBetweenPolls DEF Finish
  <1>2. AnswerInv'
    BY DEF IInv, TypeOK, AnswerInv, Finish
  <1>3. DecompiledAnswerUncancelled'
    BY DEF IInv, TypeOK, DecompiledAnswerUncancelled, Finish
  <1> QED
    BY <1>1, <1>2, <1>3 DEF IInv

LEMMA HandlerResumeStep ==
  ASSUME IInv, TypeOK', NEW r \in Request, HandlerResume(r)
  PROVE  IInv'
  <1>1. PICK a \in Answers : Finish(r, a)
    BY DEF HandlerResume, Answers
  <1>2. child[r] = "none" /\ child' = child
    BY DEF HandlerResume, IInv, AnswerInv
  <1> QED
    BY <1>1, <1>2, FinishStep DEF HandlerResume

LEMMA DecompileStartStep ==
  ASSUME IInv, TypeOK', NEW r \in Request, DecompileStart(r)
  PROVE  IInv'
  <1>1. child[r] = "none" /\ child' = child
    BY DEF DecompileStart, IInv, AnswerInv
  <1>2. CASE Finish(r, "value")
    BY <1>1, <1>2, FinishStep DEF DecompileStart, Answers
  <1>3. CASE /\ stage' = [stage EXCEPT ![r] = "decompile"]
             /\ UNCHANGED <<next_generation, active, generation, reason,
                            polling, previous, phase, result, answer>>
    <2> USE DEF IInv, TypeOK
    <2>0. stage[r] = "worker"
      BY DEF DecompileStart
    <2>1. PollInv' /\ GenerationInv' /\ BeginInv' /\ AnswerInv'
      BY <1>1, <1>3, <2>0 DEF PollInv, GenerationInv, BeginInv, AnswerInv
    <2>2. RegistryMatchesGuards'
      BY <1>3, <2>0, RegisteredNotClosed DEF RegistryMatchesGuards, Live
    <2>3. SupersededOnlyByNewer' /\ DecompiledAnswerUncancelled'
      BY <1>1, <1>3 DEF SupersededOnlyByNewer, DecompiledAnswerUncancelled
    <2> QED
      BY <2>1, <2>2, <2>3
  <1> QED
    BY <1>2, <1>3 DEF DecompileStart

LEMMA DecompileSpawnStep ==
  ASSUME IInv, TypeOK', NEW r \in Request, DecompileSpawn(r)
  PROVE  IInv'
  <1>0. polling = None /\ stage[r] = "decompile" /\ child[r] = "none"
    BY DEF DecompileSpawn
  <1>1. CASE Finish(r, "empty") /\ UNCHANGED child
    BY <1>0, <1>1, FinishStep DEF Answers
  <1>2. CASE /\ \E c \in {"none", "killed"} : child' = [child EXCEPT ![r] = c]
             /\ Finish(r, "cancelled")
    <2>1. child'[r] # "running" /\ \A q \in Request : q # r => child'[q] = child[q]
      BY <1>2 DEF IInv, TypeOK
    <2> QED
      BY <1>0, <1>2, <2>1, FinishStep DEF Answers
  <1>3. CASE /\ child' = [child EXCEPT ![r] = "running"]
             /\ UNCHANGED <<next_generation, active, generation, reason,
                            polling, previous, stage, phase, result, answer>>
    <2> USE DEF IInv, TypeOK
    <2>1. PollInv' /\ GenerationInv' /\ BeginInv' /\ AnswerInv'
      BY <1>0, <1>3 DEF PollInv, GenerationInv, BeginInv, AnswerInv
    <2>2. RegistryMatchesGuards' /\ SupersededOnlyByNewer'
      BY <1>3 DEF RegistryMatchesGuards, Live, SupersededOnlyByNewer
    <2>3. DecompiledAnswerUncancelled'
      BY <1>0, <1>3 DEF DecompiledAnswerUncancelled
    <2> QED
      BY <2>1, <2>2, <2>3
  <1> QED
    BY <1>1, <1>2, <1>3 DEF DecompileSpawn

LEMMA DecompileKilledStep ==
  ASSUME IInv, TypeOK', NEW r \in Request, DecompileKilled(r)
  PROVE  IInv'
  <1>1. child'[r] = "killed" /\ \A q \in Request : q # r => child'[q] = child[q]
    BY DEF DecompileKilled, IInv, TypeOK
  <1> QED
    BY <1>1, FinishStep DEF DecompileKilled, Answers

LEMMA DecompileFinishStep ==
  ASSUME IInv, TypeOK', NEW r \in Request, DecompileFinish(r)
  PROVE  IInv'
  <1>1. PICK a \in {"value", "empty", "cancelled"} :
          /\ a = "cancelled" <=> reason[r] # "none"
          /\ Finish(r, a)
    BY DEF DecompileFinish
  <1>2. child[r] = "exited" /\ child' = child
    BY DEF DecompileFinish
  <1> QED
    BY <1>1, <1>2, FinishStep DEF DecompileFinish, Answers

LEMMA ClientCancelStep ==
  ASSUME IInv, TypeOK', NEW r \in Request, ClientCancel(r)
  PROVE  IInv'
  <1> USE DEF IInv, TypeOK
  <1>0. /\ polling = None /\ previous = None /\ polling' = r /\ previous' = None
        /\ stage[r] \in {"worker", "decompile"}
        /\ stage' = [stage EXCEPT ![r] = "drop"]
        /\ child' = [child EXCEPT ![r] =
                        IF child[r] = "running" THEN "orphaned" ELSE child[r]]
        /\ UNCHANGED <<next_generation, active, generation, answer>>
    BY NoPreviousBetweenPolls DEF ClientCancel
  <1>a. /\ \A q \in Request : q # r => reason'[q] = reason[q]
        /\ reason'[r] # "none"
        /\ reason'[r] = "Superseded" => reason[r] = "Superseded"
    BY DEF ClientCancel
  <1>1. PollInv' /\ BeginInv'
    BY <1>0 DEF PollInv, BeginInv
  <1>2. GenerationInv'
    BY <1>0, <1>a DEF GenerationInv
  <1>3. AnswerInv'
    BY <1>0 DEF AnswerInv
  <1>4. RegistryMatchesGuards'
    BY <1>0, <1>a, RegisteredNotClosed DEF RegistryMatchesGuards, Live
  <1>5. SupersededOnlyByNewer'
    BY <1>0, <1>a DEF SupersededOnlyByNewer
  <1>6. DecompiledAnswerUncancelled'
    BY <1>0, <1>a DEF DecompiledAnswerUncancelled, AnswerInv
  <1> QED
    BY <1>1, <1>2, <1>3, <1>4, <1>5, <1>6

LEMMA DropRemoveStep ==
  ASSUME IInv, TypeOK', NEW r \in Request, DropRemove(r)
  PROVE  IInv'
  <1>0. polling = r /\ previous = None /\ stage[r] = "drop"
    BY DEF DropRemove, IInv, TypeOK, PollInv
  <1>1. /\ PollInv' /\ GenerationInv' /\ BeginInv'
        /\ RegistryMatchesGuards' /\ SupersededOnlyByNewer'
    BY <1>0, CloseStep DEF DropRemove
  <1>2. AnswerInv'
    BY <1>0 DEF DropRemove, IInv, TypeOK, AnswerInv
  <1>3. DecompiledAnswerUncancelled'
    BY DEF DropRemove, IInv, TypeOK, DecompiledAnswerUncancelled
  <1> QED
    BY <1>1, <1>2, <1>3 DEF IInv

LEMMA StutterStep == IInv /\ UNCHANGED vars => IInv'
  BY DEF IInv, vars, TypeOK, PollInv, GenerationInv, BeginInv, AnswerInv,
         RegistryMatchesGuards, SupersededOnlyByNewer,
         DecompiledAnswerUncancelled, Live

\* Every step of every actor preserves the inductive invariant.
LEMMA NextIInv == IInv /\ [Next]_vars => IInv'
  <1> SUFFICES ASSUME IInv, [Next]_vars PROVE IInv'
    OBVIOUS
  <1>1. TypeOK'
    BY TypeStep DEF IInv
  <1>2. CASE UNCHANGED vars
    BY <1>2, StutterStep
  <1>3. ASSUME NEW r \in Request, BeginInsert(r) PROVE IInv'
    BY <1>1, <1>3, BeginInsertStep
  <1>4. ASSUME NEW r \in Request, Worker(r) \/ ChildExit(r) PROVE IInv'
    BY <1>1, <1>4, BackgroundStep DEF Worker
  <1>5. ASSUME NEW r \in Request, Handler(r) PROVE IInv'
    BY <1>1, <1>5, BeginSupersedeStep, HandlerResumeStep, DecompileStartStep,
       DecompileSpawnStep, DecompileKilledStep, DecompileFinishStep,
       DropRemoveStep DEF Handler
  <1>6. ASSUME NEW r \in Request, ClientCancel(r) PROVE IInv'
    BY <1>1, <1>6, ClientCancelStep
  <1> QED
    BY <1>2, <1>3, <1>4, <1>5, <1>6 DEF Next

-----------------------------------------------------------------------------
\* The inductive invariant holds of every behaviour of the specification.
THEOREM Invariance == Spec => []IInv
  BY InitIInv, NextIInv, PTL DEF Spec

\* The registry names exactly the guards that are alive: no entry outlives
\* its request, and no late drop evicts a newer one.
THEOREM RegistryCorrect == Spec => []RegistryMatchesGuards
  <1>1. IInv => RegistryMatchesGuards
    BY DEF IInv
  <1> QED
    BY Invariance, <1>1, PTL

\* Between two polls of the handler task, at most one request per
\* (family, uri) works on uncancelled.
THEOREM SingleLiveRequest == Spec => []OneLiveRequestPerKey
  <1>1. IInv => OneLiveRequestPerKey
    BY NoPreviousBetweenPolls DEF IInv, TypeOK, OneLiveRequestPerKey,
       RegistryMatchesGuards, Live
  <1> QED
    BY Invariance, <1>1, PTL

\* Superseding goes from older to younger, within one key.
THEOREM SupersededByYounger == Spec => []SupersededOnlyByNewer
  <1>1. IInv => SupersededOnlyByNewer
    BY DEF IInv
  <1> QED
    BY Invariance, <1>1, PTL

\* No cancelled request is answered with a freshly decompiled location.
THEOREM DecompiledAnswers == Spec => []DecompiledAnswerUncancelled
  <1>1. IInv => DecompiledAnswerUncancelled
    BY DEF IInv
  <1> QED
    BY Invariance, <1>1, PTL

\* The token of a closed request is never written again.
THEOREM ClosedTokens == Spec => ClosedTokenUntouched
  <1> DEFINE Untouched ==
        \A r \in Request : stage[r] = "closed" => reason'[r] = reason[r]
  <1>1. IInv /\ [Next]_vars => [Untouched]_vars
    <2> SUFFICES ASSUME IInv, Next,
                        NEW q \in Request, stage[q] = "closed"
                 PROVE  reason'[q] = reason[q]
      OBVIOUS
    <2> USE DEF IInv, TypeOK
    <2>1. ASSUME NEW r \in Request, BeginSupersede(r) PROVE reason'[q] = reason[q]
      BY <2>1 DEF BeginSupersede, Cancel, PollInv
    <2>2. ASSUME NEW r \in Request, ClientCancel(r) PROVE reason'[q] = reason[q]
      BY <2>2 DEF ClientCancel
    <2>3. ASSUME NEW r \in Request,
                 \/ BeginInsert(r) \/ Worker(r) \/ ChildExit(r)
                 \/ HandlerResume(r) \/ DecompileStart(r) \/ DecompileSpawn(r)
                 \/ DecompileKilled(r) \/ DecompileFinish(r) \/ DropRemove(r)
          PROVE  reason' = reason
      BY <2>3 DEF BeginInsert, Worker, WorkerCheck, WorkerReturn, ChildExit,
         HandlerResume, DecompileStart, DecompileSpawn, DecompileKilled,
         DecompileFinish, DropRemove, Finish
    <2> QED
      BY <2>1, <2>2, <2>3 DEF Next, Handler
  <1> QED
    BY Invariance, <1>1, PTL DEF Spec, ClosedTokenUntouched
=============================================================================
