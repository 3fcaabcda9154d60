------------------------- MODULE RequestCancellation -------------------------
(***************************************************************************)
(* The life of an LSP request: src/lsp/request_cancellation.rs (registry,  *)
(* tokens, guards), the begin/finish frame every request handler of        *)
(* src/lsp/server.rs has, the blocking worker with its cancellation        *)
(* checkpoints, and the wait for an external decompiler that races the     *)
(* token (src/decompiler.rs).                                              *)
(*                                                                         *)
(* Handler futures are polled by one tower-lsp task, so the code between   *)
(* two awaits of a handler excludes every other handler; `polling` names   *)
(* the handler whose poll is under way when a poll is split into several   *)
(* actions.  Workers run on spawn_blocking threads and interleave with     *)
(* everything; all they read of this state is the token's reason.          *)
(***************************************************************************)
EXTENDS Naturals, FiniteSets

CONSTANTS
    Request,     \* the requests a client may send
    Key,         \* RequestKey: a (family, uri) pair
    KeyOf,       \* the key of each request
    Decompiles,  \* requests whose worker may answer with a DecompilePlan
    Checks,      \* number of checkpoints a worker passes before its result
    None         \* Option::None

ASSUME KeyAssumption == KeyOf \in [Request -> Key]
ASSUME DecompilesAssumption == Decompiles \subseteq Request
ASSUME ChecksAssumption == Checks \in Nat \ {0}
ASSUME NoneAssumption ==
    None \notin Request /\ None \notin [generation: Nat, token: Request]

VARIABLES
    next_generation,  \* RequestCancellationManager.next_generation
    active,           \* RequestCancellationManager.active: Key -> ActiveRequest
    generation,       \* the generation each request was given (0: none yet)
    reason,           \* CancellationState.reason of each request's token
    polling,          \* the handler in the middle of a poll, or None
    previous,         \* begin's local: the token its insert displaced
    stage,            \* where the handler future is
    phase,            \* checkpoints the worker has passed
    result,           \* what the worker returned
    child,            \* the decompiler process
    waiting,          \* cancelled() is parked on Notify
    woken,            \* notify_waiters reached that waiter
    answer            \* what the client was answered

vars == <<next_generation, active, generation, reason, polling, previous,
          stage, phase, result, child, waiting, woken, answer>>

requestVars == <<phase, result, child, waiting, answer>>

Stages   == {"new", "begin", "worker", "decompile", "drop", "closed"}
Results  == {"running", "ok", "plan", "cancelled", "panicked"}
Children == {"none", "running", "exited", "killed", "orphaned"}
Answers  == {"none", "value", "empty", "cancelled", "internal_error"}
Reasons  == {"none", "Client", "Superseded"}

ActiveRequest == [generation: Nat, token: Request]

TypeOK ==
    /\ next_generation \in Nat
    /\ active \in [Key -> ActiveRequest \cup {None}]
    /\ generation \in [Request -> Nat]
    /\ reason \in [Request -> Reasons]
    /\ polling \in Request \cup {None}
    /\ previous \in Request \cup {None}
    /\ stage \in [Request -> Stages]
    /\ phase \in [Request -> 0 .. Checks]
    /\ result \in [Request -> Results]
    /\ child \in [Request -> Children]
    /\ waiting \in [Request -> BOOLEAN]
    /\ woken \in [Request -> BOOLEAN]
    /\ answer \in [Request -> Answers]

Init ==
    /\ next_generation = 1
    /\ active = [k \in Key |-> None]
    /\ generation = [r \in Request |-> 0]
    /\ reason = [r \in Request |-> "none"]
    /\ polling = None
    /\ previous = None
    /\ stage = [r \in Request |-> "new"]
    /\ phase = [r \in Request |-> 0]
    /\ result = [r \in Request |-> "running"]
    /\ child = [r \in Request |-> "none"]
    /\ waiting = [r \in Request |-> FALSE]
    /\ woken = [r \in Request |-> FALSE]
    /\ answer = [r \in Request |-> "none"]

-----------------------------------------------------------------------------
(* CancellationToken                                                       *)

\* Variant: the waiters are not notified.
CancelSilent(r, why) ==
    /\ reason' = [reason EXCEPT ![r] = IF @ = "none" THEN why ELSE @]
    /\ UNCHANGED woken

\* CancellationToken::cancel: the first reason wins, and wakes the waiters.
Cancel(r, why) ==
    IF reason[r] = "none"
    THEN /\ reason' = [reason EXCEPT ![r] = why]
         /\ woken' = [woken EXCEPT ![r] = waiting[r]]
    ELSE UNCHANGED <<reason, woken>>

-----------------------------------------------------------------------------
(* RequestCancellationManager::begin                                       *)

\* A fresh generation is inserted under the key; what it displaces is kept.
BeginInsert(r) ==
    LET k == KeyOf[r] IN
    /\ polling = None
    /\ stage[r] = "new"
    /\ next_generation' = next_generation + 1
    /\ generation' = [generation EXCEPT ![r] = next_generation]
    /\ active' = [active EXCEPT
                    ![k] = [generation |-> next_generation, token |-> r]]
    /\ previous' = IF active[k] = None THEN None ELSE active[k].token
    /\ polling' = r
    /\ stage' = [stage EXCEPT ![r] = "begin"]
    /\ UNCHANGED <<reason, woken, requestVars>>

\* Variant: the displaced token is dropped without being cancelled.
BeginForgetsPrevious(r) ==
    /\ stage[r] = "begin"
    /\ previous' = None
    /\ polling' = None
    /\ stage' = [stage EXCEPT ![r] = "worker"]
    /\ UNCHANGED <<next_generation, active, generation, reason, woken,
                   requestVars>>

\* Variant: the new token is cancelled in place of the displaced one.
BeginCancelsOwn(r) ==
    /\ stage[r] = "begin"
    /\ IF previous = None
       THEN UNCHANGED <<reason, woken>>
       ELSE Cancel(r, "Superseded")
    /\ previous' = None
    /\ polling' = None
    /\ stage' = [stage EXCEPT ![r] = "worker"]
    /\ UNCHANGED <<next_generation, active, generation, requestVars>>

\* The displaced token is cancelled, then the handler spawns its worker.
BeginSupersede(r) ==
    /\ stage[r] = "begin"
    /\ IF previous = None
       THEN UNCHANGED <<reason, woken>>
       ELSE Cancel(previous, "Superseded")
    /\ previous' = None
    /\ polling' = None
    /\ stage' = [stage EXCEPT ![r] = "worker"]
    /\ UNCHANGED <<next_generation, active, generation, requestVars>>

-----------------------------------------------------------------------------
(* The worker (spawn_blocking): checkpoints and early returns               *)

WorkerRunning(r) ==
    /\ stage[r] \in {"worker", "drop", "closed"}
    /\ generation[r] # 0
    /\ result[r] = "running"

\* Variant: a checkpoint too many.
WorkerCheckOnceMore(r) ==
    /\ WorkerRunning(r)
    /\ phase[r] <= Checks
    /\ phase' = [phase EXCEPT ![r] = @ + 1]
    /\ UNCHANGED <<next_generation, active, generation, reason, polling,
                   previous, stage, result, child, waiting, woken, answer>>

\* RequestContext::check_cancelled at one of the checkpoints.
WorkerCheck(r) ==
    /\ WorkerRunning(r)
    /\ phase[r] < Checks
    /\ IF reason[r] = "none"
       THEN /\ phase' = [phase EXCEPT ![r] = @ + 1]
            /\ UNCHANGED result
       ELSE /\ result' = [result EXCEPT ![r] = "cancelled"]
            /\ UNCHANGED phase
    /\ UNCHANGED <<next_generation, active, generation, reason, polling,
                   previous, stage, child, waiting, woken, answer>>

\* The worker ends: an early Ok(None) or the computed value, a decompile
\* plan once every checkpoint is passed, or a panic.
WorkerReturn(r) ==
    /\ WorkerRunning(r)
    /\ \E v \in {"ok", "plan", "panicked"} :
         /\ v = "plan" => r \in Decompiles /\ phase[r] = Checks
         /\ result' = [result EXCEPT ![r] = v]
    /\ UNCHANGED <<next_generation, active, generation, reason, polling,
                   previous, stage, phase, child, waiting, woken, answer>>

-----------------------------------------------------------------------------
(* RequestGuard: finish, and Drop                                           *)

\* Variant: remove instead of remove_if.
RemoveAny(r) == active' = [active EXCEPT ![KeyOf[r]] = None]

\* Variant: nothing is removed.
RemoveNothing(r) == UNCHANGED active

\* Drop of a guard: the entry goes only if it is still this generation's.
RemoveIfOwn(r) ==
    LET k == KeyOf[r] IN
    IF active[k] # None /\ active[k].generation = generation[r]
    THEN active' = [active EXCEPT ![k] = None]
    ELSE UNCHANGED active

\* guard.finish(): completed is set, so Drop cancels nothing.
Finish(r, a) ==
    /\ answer' = [answer EXCEPT ![r] = a]
    /\ stage' = [stage EXCEPT ![r] = "closed"]
    /\ RemoveIfOwn(r)
    /\ UNCHANGED <<next_generation, generation, reason, polling, previous,
                   phase, result>>

\* task.await of the worker is ready and the handler is polled.
HandlerResume(r) ==
    /\ polling = None
    /\ stage[r] = "worker"
    /\ \/ /\ result[r] = "ok"
          /\ \E a \in {"value", "empty"} : Finish(r, a)
       \/ /\ result[r] = "cancelled"
          /\ Finish(r, "cancelled")
       \/ /\ result[r] = "panicked"
          /\ Finish(r, "internal_error")
       \* goto_decompile: its first check, a failed extraction
       \/ /\ result[r] = "plan"
          /\ \E a \in {"cancelled", "empty"} :
                /\ a = "cancelled" <=> reason[r] # "none"
                /\ Finish(r, a)
    /\ UNCHANGED <<child, waiting, woken>>

\* goto_decompile passes its first check: the class is in the decompiler
\* cache, or the handler goes on to start the decompiler.
DecompileStart(r) ==
    /\ polling = None
    /\ stage[r] = "worker"
    /\ result[r] = "plan"
    /\ reason[r] = "none"
    /\ \/ Finish(r, "value")
       \/ /\ stage' = [stage EXCEPT ![r] = "decompile"]
          /\ UNCHANGED <<next_generation, active, generation, reason, polling,
                         previous, phase, result, answer>>
    /\ UNCHANGED <<child, waiting, woken>>

\* After the awaits for the configuration and the temporary file: no
\* decompiler is configured (answered without a check), the start fails, or
\* the process is spawned and the select polled.  In that poll cancelled()
\* reads the reason and, finding none, parks on the Notify.
DecompileSpawn(r) ==
    /\ polling = None
    /\ stage[r] = "decompile"
    /\ child[r] = "none"
    /\ \/ /\ Finish(r, "empty")
          /\ UNCHANGED <<child, waiting>>
       \/ /\ reason[r] # "none"
          /\ \E c \in {"none", "killed"} : child' = [child EXCEPT ![r] = c]
          /\ Finish(r, "cancelled")
          /\ UNCHANGED waiting
       \/ /\ reason[r] = "none"
          /\ child' = [child EXCEPT ![r] = "running"]
          /\ waiting' = [waiting EXCEPT ![r] = TRUE]
          /\ UNCHANGED <<next_generation, active, generation, reason, polling,
                         previous, stage, phase, result, answer>>
    /\ UNCHANGED woken

\* The waiter was notified: cancelled() reads the reason, the process is
\* killed and decompile fails.
DecompileKilled(r) ==
    /\ polling = None
    /\ stage[r] = "decompile"
    /\ child[r] = "running"
    /\ woken[r]
    /\ reason[r] # "none"
    /\ child' = [child EXCEPT ![r] = "killed"]
    /\ waiting' = [waiting EXCEPT ![r] = FALSE]
    /\ woken' = [woken EXCEPT ![r] = FALSE]
    /\ Finish(r, "cancelled")

\* The decompiler process ends by itself.
ChildExit(r) ==
    /\ child[r] = "running"
    /\ child' = [child EXCEPT ![r] = "exited"]
    /\ UNCHANGED <<next_generation, active, generation, reason, polling,
                   previous, stage, phase, result, waiting, woken, answer>>

\* Variant: no check after the decompilation.
DecompileFinishUnchecked(r) ==
    /\ polling = None
    /\ stage[r] = "decompile"
    /\ child[r] = "exited"
    /\ \E a \in {"value", "empty"} : Finish(r, a)
    /\ waiting' = [waiting EXCEPT ![r] = FALSE]
    /\ woken' = [woken EXCEPT ![r] = FALSE]
    /\ UNCHANGED child

\* child.wait() returned: a failed decompile gives Ok(None) unless the token
\* is cancelled; a good one is checked once more (goto.after_decompile).
DecompileFinish(r) ==
    /\ polling = None
    /\ stage[r] = "decompile"
    /\ child[r] = "exited"
    /\ \E a \in {"value", "empty", "cancelled"} :
         /\ a = "cancelled" <=> reason[r] # "none"
         /\ Finish(r, a)
    /\ waiting' = [waiting EXCEPT ![r] = FALSE]
    /\ woken' = [woken EXCEPT ![r] = FALSE]
    /\ UNCHANGED child

\* $/cancelRequest: tower-lsp drops the handler future between two polls.
\* The guard drops unfinished; a child that is still running is left alone.
ClientCancel(r) ==
    /\ polling = None
    /\ stage[r] \in {"worker", "decompile"}
    /\ waiting' = [waiting EXCEPT ![r] = FALSE]
    /\ child' = [child EXCEPT ![r] = IF @ = "running" THEN "orphaned" ELSE @]
    /\ IF reason[r] = "none"
       THEN reason' = [reason EXCEPT ![r] = "Client"]
       ELSE UNCHANGED reason
    /\ woken' = [woken EXCEPT ![r] = FALSE]
    /\ polling' = r
    /\ stage' = [stage EXCEPT ![r] = "drop"]
    /\ UNCHANGED <<next_generation, active, generation, previous, phase,
                   result, answer>>

DropRemove(r) ==
    /\ stage[r] = "drop"
    /\ RemoveIfOwn(r)
    /\ polling' = None
    /\ answer' = [answer EXCEPT ![r] = "cancelled"]
    /\ stage' = [stage EXCEPT ![r] = "closed"]
    /\ UNCHANGED <<next_generation, generation, reason, previous, phase,
                   result, child, waiting, woken>>

-----------------------------------------------------------------------------
Worker(r)  == WorkerCheck(r) \/ WorkerReturn(r)

\* Everything the handler task does for a request the client has sent.
Handler(r) ==
    \/ BeginSupersede(r)
    \/ HandlerResume(r)
    \/ DecompileStart(r)
    \/ DecompileSpawn(r)
    \/ DecompileKilled(r)
    \/ DecompileFinish(r)
    \/ DropRemove(r)

Next ==
    \E r \in Request :
        \/ BeginInsert(r)
        \/ Worker(r)
        \/ Handler(r)
        \/ ChildExit(r)
        \/ ClientCancel(r)

\* Threads and the handler task are scheduled; the client and the external
\* decompiler owe nothing.
Fairness == \A r \in Request : WF_vars(Worker(r)) /\ WF_vars(Handler(r))

Spec == Init /\ [][Next]_vars /\ Fairness

-----------------------------------------------------------------------------
(* Properties                                                              *)

\* A request whose handler is still at work and whose token is not cancelled.
Live(r) == stage[r] \in {"worker", "decompile"} /\ reason[r] = "none"

\* docs/architecture.md: the manager cancels superseded requests per
\* (family, uri).  Between two polls of the handler task, at most one request
\* of a key is still at work uncancelled.
OneLiveRequestPerKey ==
    polling = None =>
        \A r, q \in Request :
            Live(r) /\ Live(q) /\ KeyOf[r] = KeyOf[q] => r = q

\* A token is only ever superseded by a younger request of the same key: the
\* newest request of a key never loses to an older one, whatever the order in
\* which the older ones finish, are dropped or answered.
SupersededOnlyByNewer ==
    \A r \in Request : reason[r] = "Superseded" =>
        \E q \in Request : /\ KeyOf[q] = KeyOf[r]
                           /\ generation[q] > generation[r]

\* What `active` holds is the guard that is alive for that key: an entry is
\* of a request that has begun and not closed (no leak after finish or drop),
\* and every live request is registered or is just being displaced (a late
\* drop of an older guard has not removed it).
RegistryMatchesGuards ==
    /\ \A k \in Key : active[k] # None =>
          LET q == active[k].token IN
          /\ KeyOf[q] = k
          /\ generation[q] = active[k].generation
          /\ stage[q] \notin {"new", "closed"}
    /\ \A r \in Request : Live(r) =>
          \/ previous = r
          \/ /\ active[KeyOf[r]] # None
             /\ active[KeyOf[r]].token = r

\* A location from a finished decompilation is only given to a request that
\* nobody cancelled: goto.after_decompile is read in the answering poll.
DecompiledAnswerUncancelled ==
    \A r \in Request :
        answer[r] = "value" /\ child[r] = "exited" => reason[r] = "none"

\* Once a handler has closed, nobody reaches its token any more: a request
\* that was answered is not cancelled afterwards by a later begin.
ClosedTokenUntouched ==
    [][\A r \in Request : stage[r] = "closed" => reason'[r] = reason[r]]_vars

\* A superseded goto-definition never waits for a decompiler that hangs: the
\* wait_with_output_or_cancel select ends although the process owes no exit.
SupersededDecompileEnds ==
    \A r \in Request :
        (stage[r] = "decompile" /\ reason[r] = "Superseded")
            ~> stage[r] = "closed"
=============================================================================
