------------------------------ MODULE Runtime ------------------------------
(***************************************************************************)
(* Runtime.step() and Runtime.recover() of runtime.py over one RunStore.   *)
(*                                                                         *)
(* Several Runtime objects share the run on one event loop.  A task runs   *)
(* alone from one await to the next (`running`), and each transaction on   *)
(* the way is a step of its own, because the process may die between any   *)
(* two of them.  While a task waits for its adapter, a guard, the tool or  *)
(* the evaluator, other tasks and the application go on: they may end the  *)
(* run, recover the same operation, or cancel the waiting task.            *)
(***************************************************************************)
EXTENDS RunStore

CONSTANTS
    Runtimes,   \* the Runtime objects that share the run
    NoRuntime,  \* nobody holds the event loop
    GuardOrder, \* the guards of the runtimes, in the order they are asked
    AppErrors   \* bound: what callbacks, adapters, guards, tools and evaluators raise

ASSUME RuntimeAssumption == NoRuntime \notin Runtimes
ASSUME AppAssumption     == AppErrors \subseteq {"Failure", "BudgetExhausted"}
ASSUME EventAssumption   ==
    {"started", "inference_returned", "guard_allowed", "guard_denied", "tool_dispatched",
     "tool_returned", "committed", "observed", "effect_unknown", "failed"} \subseteq EventStage
ASSUME GuardAssumption   ==
    /\ GuardOrder \in Seq(Guard)
    /\ \A g \in Guard : \E i \in 1..Len(GuardOrder) : GuardOrder[i] = g
    /\ \A i, j \in 1..Len(GuardOrder) : GuardOrder[i] = GuardOrder[j] => i = j

VARIABLES
    running,    \* the runtime whose task holds the event loop
    pc,         \* what the task of a runtime does next, or awaits
    op,         \* the operation its current call works on, 0 for none
    asking,     \* position in GuardOrder of the guard being asked, 0 for none
    at,         \* the local variable `stage` when the exception was raised
    error,      \* the exception being raised, or that the last call ended with
    rejected,   \* operation whose exception is in rejected_proposal, 0 for none
    effects,    \* history: how often the tool of an operation began to execute
    received    \* history: operations whose usage report reached this process

task        == <<pc, op, asking, at, error, rejected, running>>
history     == <<effects, received>>
runtimeVars == <<vars, task, history>>

Await == {"generating", "checking", "executing", "evaluating", "reevaluating"}
\* "Failure" stands for every exception its callers treat alike: ContractError,
\* DispatchDenied, InferenceFailure, UnresolvedEffect and what application code raises
Error == {"none", "Failure", "BudgetExhausted", "CancelledError",
          "InferenceRejected", "ProposalRejected"}

\* the value of the local variable `stage` of _step() at each point
StageAt == [notify_started    |-> "notification",
            generating        |-> "inference",
            proposing         |-> "inference",
            notify_inference  |-> "notification",
            validating        |-> "validation",
            checking          |-> "guard",
            notify_guard      |-> "guard",
            dispatching       |-> "dispatch",
            notify_dispatched |-> "tool",
            executing         |-> "tool",
            notify_returned   |-> "evaluation",
            evaluating        |-> "evaluation",
            notify_done       |-> "notification"]

PC == DOMAIN StageAt \cup {"idle", "failing", "notify_failed", "reevaluating"}

-----------------------------------------------------------------------------
(* Control of one task *)

\* the task resumes at an await, or continues after a transaction
Runs(r, point) ==
    /\ pc[r] = point
    /\ running = IF point \in Await \cup {"idle"} THEN NoRuntime ELSE r

Goto(r, point) ==
    /\ pc' = [pc EXCEPT ![r] = point]
    /\ running' = IF point \in Await \cup {"idle"} THEN NoRuntime ELSE r
    /\ UNCHANGED <<op, at, error, rejected>>

\* an exception inside the try block reaches its except clause
Raise(r, exception) ==
    /\ pc' = [pc EXCEPT ![r] = "failing"]
    /\ at' = [at EXCEPT ![r] = StageAt[pc[r]]]
    /\ error' = [error EXCEPT ![r] = exception]
    /\ asking' = [asking EXCEPT ![r] = 0]
    /\ running' = r
    /\ UNCHANGED <<op, rejected>>

\* the call ends, with the exception it raises, and its local variables are gone
End(r, exception) ==
    /\ pc' = [pc EXCEPT ![r] = "idle"]
    /\ op' = [op EXCEPT ![r] = 0]
    /\ at' = [at EXCEPT ![r] = "none"]
    /\ error' = [error EXCEPT ![r] = exception]
    /\ running' = NoRuntime
    /\ UNCHANGED asking

\* record_event() and then the callback, which may raise
Emits(r, event) == RecordEvent(op[r], event) /\ UNCHANGED received

EmitRaises(r, event) ==
    \/ /\ RecordEvent(op[r], event)
       /\ \E exception \in AppErrors : Raise(r, exception)
       /\ UNCHANGED history
    \/ ~CanRecordEvent(op[r]) /\ Raise(r, "Failure") /\ UNCHANGED <<vars, history>>

-----------------------------------------------------------------------------
(* step(): inference *)

\* step() up to start(): reads, plans and reserves without an await
Begin(r, o, plan) ==
    /\ Runs(r, "idle")
    /\ Start(o, CurrentRevision, plan, Guard)
    /\ pc' = [pc EXCEPT ![r] = "notify_started"]
    /\ op' = [op EXCEPT ![r] = o]
    /\ error' = [error EXCEPT ![r] = "none"]
    /\ rejected' = [rejected EXCEPT ![r] = 0]
    /\ running' = r
    /\ UNCHANGED <<asking, at, history>>

\* step() raises before start() has made an operation: the store is not ready, the
\* request or its plan is refused, or a budget is exhausted
BeginRefused(r, exception) ==
    /\ Runs(r, "idle")
    /\ End(r, exception)
    /\ rejected' = [rejected EXCEPT ![r] = 0]
    /\ UNCHANGED <<vars, history>>

NotifyStarted(r) ==
    /\ Runs(r, "notify_started")
    /\ \/ Emits(r, "started") /\ Goto(r, "generating") /\ UNCHANGED <<asking, effects>>
       \/ EmitRaises(r, "started")

\* generate() answers or raises, with or without the usage of the request: the report
\* is kept first, and raises itself when it breaks the plan or is refused
Generate(r, usage, exception) ==
    /\ Runs(r, "generating")
    /\ received' = received \cup {op[r]}
    /\ UNCHANGED effects
    /\ IF CanRecordUsage(op[r])
       THEN /\ RecordUsage(op[r], usage)
            /\ IF BreachesPlan(op[r], usage) THEN Raise(r, "Failure")
               ELSE IF exception # "none" THEN Raise(r, exception)
               ELSE Goto(r, "proposing") /\ UNCHANGED asking
       ELSE Raise(r, "Failure") /\ UNCHANGED vars

\* generate() raises and has no usage to report
GenerateFails(r, exception) ==
    /\ Runs(r, "generating")
    /\ Raise(r, exception)
    /\ UNCHANGED <<vars, history>>

\* proposed() keeps the call, or refuses what is no tool call
Propose(r) ==
    /\ Runs(r, "proposing")
    /\ UNCHANGED history
    /\ \/ Proposed(op[r]) /\ Goto(r, "notify_inference") /\ UNCHANGED asking
       \/ Raise(r, "Failure") /\ UNCHANGED vars

NotifyInference(r) ==
    /\ Runs(r, "notify_inference")
    /\ \/ Emits(r, "inference_returned") /\ Goto(r, "validating") /\ UNCHANGED <<asking, effects>>
       \/ EmitRaises(r, "inference_returned")

-----------------------------------------------------------------------------
(* step(): authorisation *)

\* the next guard is awaited; after the last one the task goes on to dispatch
Ask(r, i) ==
    /\ asking' = [asking EXCEPT ![r] = IF i <= Len(GuardOrder) THEN i ELSE 0]
    /\ Goto(r, IF i <= Len(GuardOrder) THEN "checking" ELSE "dispatching")

\* tools.prepare(): grants and the application's validator
Validate(r) ==
    /\ Runs(r, "validating")
    /\ \/ Ask(r, 1)
       \/ \E exception \in {"ProposalRejected", "BudgetExhausted", "Failure"} :
             Raise(r, exception)
    /\ UNCHANGED <<vars, history>>

\* a guard answers and its decision is kept, unless the operation was closed meanwhile
Check(r, allowed) ==
    /\ Runs(r, "checking")
    /\ UNCHANGED history
    /\ LET g == GuardOrder[asking[r]] IN
       \/ RecordGuard(op[r], g, allowed) /\ Goto(r, "notify_guard") /\ UNCHANGED asking
       \/ ~CanRecordGuard(op[r], g) /\ Raise(r, "Failure") /\ UNCHANGED vars

NotifyGuard(r) ==
    /\ Runs(r, "notify_guard")
    /\ LET allowed == <<op[r], GuardOrder[asking[r]], TRUE>> \in guard_decisions
           event   == IF allowed THEN "guard_allowed" ELSE "guard_denied"
       IN \/ /\ Emits(r, event)
             /\ UNCHANGED effects
             /\ IF allowed THEN Ask(r, asking[r] + 1) ELSE Raise(r, "Failure")
          \/ EmitRaises(r, event)

\* the durable intent, before the effect
DispatchTool(r, observes, external) ==
    /\ Runs(r, "dispatching")
    /\ UNCHANGED history
    /\ \/ Dispatch(op[r], observes, external) /\ Goto(r, "notify_dispatched") /\ UNCHANGED asking
       \/ /\ ~CanDispatch(op[r], external)
          /\ Raise(r, IF RequireOpen /\ ~behind THEN "BudgetExhausted" ELSE "Failure")
          /\ UNCHANGED vars

-----------------------------------------------------------------------------
(* step(): effect and evaluation *)

\* the tool starts once its dispatch is durable and announced
NotifyDispatched(r) ==
    /\ Runs(r, "notify_dispatched")
    /\ \/ /\ Emits(r, "tool_dispatched")
          /\ Goto(r, "executing")
          /\ effects' = [effects EXCEPT ![op[r]] = @ + 1]
          /\ UNCHANGED asking
       \/ EmitRaises(r, "tool_dispatched")

Execute(r, result) ==
    /\ Runs(r, "executing")
    /\ Returned(op[r], result)
    /\ Goto(r, "notify_returned")
    /\ UNCHANGED <<asking, history>>

NotifyReturned(r) ==
    /\ Runs(r, "notify_returned")
    /\ \/ /\ Emits(r, "tool_returned")
          /\ UNCHANGED effects
          /\ IF expired THEN Raise(r, "BudgetExhausted")
             ELSE Goto(r, "evaluating") /\ UNCHANGED asking
       \/ EmitRaises(r, "tool_returned")

\* complete() and the deadline check before it refuse with these exceptions
Refusal == IF expired THEN "BudgetExhausted" ELSE "Failure"

Evaluate(r, evaluation) ==
    /\ Runs(r, "evaluating")
    /\ UNCHANGED history
    /\ \/ Complete(op[r], evaluation) /\ Goto(r, "notify_done") /\ UNCHANGED asking
       \/ ~CanComplete(op[r], evaluation) /\ Raise(r, Refusal) /\ UNCHANGED vars

NotifyDone(r) ==
    /\ Runs(r, "notify_done")
    /\ LET event == IF Publishes(evaluations[op[r]]) THEN "committed" ELSE "observed"
       IN \/ Emits(r, event) /\ End(r, "none") /\ UNCHANGED <<rejected, effects>>
          \/ EmitRaises(r, event)

\* a guard, the tool or the evaluator raises, also what step() knows as a rejection
AwaitFails(r, exception) ==
    /\ \E point \in {"checking", "executing", "evaluating"} : Runs(r, point)
    /\ Raise(r, exception)
    /\ UNCHANGED <<vars, history>>

\* the caller, or the deadline of asyncio.timeout(), cancels the task at its await
Cancel(r) ==
    /\ \E point \in {"generating", "checking", "executing", "evaluating"} : Runs(r, point)
    /\ Raise(r, "CancelledError")
    /\ UNCHANGED <<vars, history>>

-----------------------------------------------------------------------------
(* step(): the except clause *)

RecordFailure(r) ==
    /\ Runs(r, "failing")
    /\ Failed(op[r])
    /\ Goto(r, "notify_failed")
    /\ UNCHANGED <<asking, history>>

\* Mutant: a rejection is certified by its type, wherever it came from
CertifiedByType(r) == error[r] \in {"InferenceRejected", "ProposalRejected"}

\* rejections that step() certifies to its caller
Certified(r) ==
    \/ at[r] = "inference" /\ error[r] = "InferenceRejected"
    \/ at[r] = "validation" /\ error[r] = "ProposalRejected"

\* the exception is raised again, unless the record of it is refused
NotifyFailed(r) ==
    /\ Runs(r, "notify_failed")
    /\ UNCHANGED history
    /\ \/ /\ RecordEvent(op[r], IF at[r] = "tool" THEN "effect_unknown" ELSE "failed")
          /\ rejected' = [rejected EXCEPT ![r] = IF Certified(r) THEN op[r] ELSE 0]
          /\ End(r, error[r])
       \/ /\ ~CanRecordEvent(op[r])
          /\ End(r, "Failure")
          /\ UNCHANGED <<vars, rejected>>

-----------------------------------------------------------------------------
(* recover() *)

\* an attempt that had no effect is closed
RecoverUndispatched(r, o) ==
    /\ Runs(r, "idle")
    /\ AbandonUndispatched(o)
    /\ UNCHANGED <<task, history>>

\* returned evidence is evaluated again; an unknown effect is left as it is
RecoverReturned(r, o) ==
    /\ Runs(r, "idle")
    /\ RequireOpen /\ ~expired
    /\ stage[o] = "returned"
    /\ pc' = [pc EXCEPT ![r] = "reevaluating"]
    /\ op' = [op EXCEPT ![r] = o]
    /\ UNCHANGED <<asking, at, error, rejected, running, vars, history>>

Reevaluate(r, evaluation) ==
    /\ Runs(r, "reevaluating")
    /\ UNCHANGED <<rejected, history>>
    /\ \/ Complete(op[r], evaluation) /\ End(r, "none")
       \/ ~CanComplete(op[r], evaluation) /\ End(r, Refusal) /\ UNCHANGED vars

\* the evaluator raises, or the caller or the deadline cancels: nothing is recorded
RecoverFails(r, exception) ==
    /\ Runs(r, "reevaluating")
    /\ End(r, exception)
    /\ UNCHANGED <<rejected, vars, history>>

-----------------------------------------------------------------------------
(* The application and the process *)

\* finish() from another task, or from the callback of an event that a task goes on from
\* without an await
AppFinish(value) ==
    /\ running \in Runtimes => pc[running] \in {"validating", "dispatching"}
    /\ Finish(value)
    /\ UNCHANGED <<task, history>>

Time == Tick /\ UNCHANGED <<task, history>>

\* the process dies between any two steps; its run is opened again with fresh runtimes
Crash ==
    /\ Reopen
    /\ pc' = [r \in Runtimes |-> "idle"]
    /\ op' = [r \in Runtimes |-> 0]
    /\ asking' = [r \in Runtimes |-> 0]
    /\ at' = [r \in Runtimes |-> "none"]
    /\ error' = [r \in Runtimes |-> "none"]
    /\ rejected' = [r \in Runtimes |-> 0]
    /\ running' = NoRuntime
    /\ received' = {}
    /\ UNCHANGED effects

RuntimeInit ==
    /\ Init
    /\ running = NoRuntime
    /\ pc = [r \in Runtimes |-> "idle"]
    /\ op = [r \in Runtimes |-> 0]
    /\ asking = [r \in Runtimes |-> 0]
    /\ at = [r \in Runtimes |-> "none"]
    /\ error = [r \in Runtimes |-> "none"]
    /\ rejected = [r \in Runtimes |-> 0]
    /\ effects = [o \in Op |-> 0]
    /\ received = {}

\* the task goes on between two awaits
Slice(r) ==
    \/ NotifyStarted(r) \/ Propose(r) \/ NotifyInference(r) \/ Validate(r) \/ NotifyGuard(r)
    \/ \E observes, external \in BOOLEAN : DispatchTool(r, observes, external)
    \/ NotifyDispatched(r) \/ NotifyReturned(r) \/ NotifyDone(r)
    \/ RecordFailure(r) \/ NotifyFailed(r)

\* what the task awaits answers or raises
Resume(r) ==
    \/ \E usage \in Reports, exception \in {"none", "Failure", "InferenceRejected",
                                            "CancelledError"} : Generate(r, usage, exception)
    \/ \E exception \in AppErrors \cup {"InferenceRejected"} : GenerateFails(r, exception)
    \/ \E allowed \in BOOLEAN : Check(r, allowed)
    \/ \E result \in Output : Execute(r, result)
    \/ \E evaluation \in Evaluation : Evaluate(r, evaluation) \/ Reevaluate(r, evaluation)
    \/ \E exception \in AppErrors \cup {"InferenceRejected", "ProposalRejected"} :
          AwaitFails(r, exception)
    \/ \E exception \in AppErrors : RecoverFails(r, exception)

\* Mutant: only step() has a timeout
InterruptStep(r) == Cancel(r)

Interrupt(r) == Cancel(r) \/ RecoverFails(r, "CancelledError")

Call(r) ==
    \/ \E exception \in {"Failure", "BudgetExhausted"} : BeginRefused(r, exception)
    \/ \E o \in Op :
          \/ \E plan \in Plans \cup {NoReservation} : Begin(r, o, plan)
          \/ RecoverUndispatched(r, o)
          \/ RecoverReturned(r, o)

RuntimeNext ==
    \/ \E r \in Runtimes : Call(r) \/ Slice(r) \/ Resume(r) \/ Interrupt(r)
    \/ \E value \in Outcome : AppFinish(value)
    \/ Time
    \/ Crash

RuntimeSpec == RuntimeInit /\ [][RuntimeNext]_runtimeVars

\* The event loop runs every ready task, the deadline of a wall-limited run passes, and
\* what a task awaits yields to the cancellation asyncio.timeout() then delivers.
Fairness ==
    /\ \A r \in Runtimes : WF_runtimeVars(Slice(r)) /\ WF_runtimeVars(expired /\ Interrupt(r))
    /\ WF_runtimeVars(Time /\ expired')

FairSpec == RuntimeSpec /\ Fairness

-----------------------------------------------------------------------------
(* Properties *)

RuntimeTypeOK ==
    /\ TypeOK
    /\ running \in Runtimes \cup {NoRuntime}
    /\ pc \in [Runtimes -> PC]
    /\ op \in [Runtimes -> Op \cup {0}]
    /\ asking \in [Runtimes -> 0..Len(GuardOrder)]
    /\ at \in [Runtimes -> {StageAt[p] : p \in DOMAIN StageAt} \cup {"none"}]
    /\ error \in [Runtimes -> Error]
    /\ rejected \in [Runtimes -> Op \cup {0}]
    /\ effects \in [Op -> Nat]
    /\ received \subseteq Op

\* A tool executes at most once for an operation, only behind a durable dispatch, and
\* never beside the tool of another operation: not across two runtimes of one run, a
\* recovery that takes the operation over, a failure, or a crash.
EffectAtMostOnce ==
    /\ \A o \in Op : effects[o] <= IF <<o, "tool">> \in reservations THEN 1 ELSE 0
    /\ \A r \in Runtimes : pc[r] = "executing" => Pending = {op[r]} /\ stage[op[r]] = "dispatched"
    /\ \A r, q \in Runtimes : pc[r] = "executing" /\ pc[q] = "executing" => r = q

\* Usage is durable before the proposal it paid for is kept, and output that broke its
\* plan never leads to an effect.
ReportedBeforeUse ==
    \A o \in Op :
       /\ stage[o] \in {"proposed", "dispatched", "returned", "completed"} =>
             inference_usage[o] # NoUsage
       /\ <<o, "tool">> \in reservations => o \notin Breached

\* A durable event is never contradicted by the control state it reports, in any
\* interleaving and whatever happens later.
EventsTellTruth ==
    \A o \in Op : \A event \in EventStage : <<o, event>> \in lifecycle_events =>
       CASE event = "started" -> stage[o] # "none"
         [] event = "inference_returned" -> inference_usage[o] # NoUsage
         [] event = "guard_allowed" -> \E g \in Guard : <<o, g, TRUE>> \in guard_decisions
         [] event = "guard_denied" -> <<o, "tool">> \notin reservations
         [] event = "tool_dispatched" -> <<o, "tool">> \in reservations
         [] event = "tool_returned" -> output[o] # NoOutput
         [] event = "committed" -> \E c \in 1..Len(commits) : commits[c].operation = o
         [] event = "observed" -> stage[o] = "completed" /\
                                  \A c \in 1..Len(commits) : commits[c].operation # o
         [] event = "effect_unknown" -> stage[o] = "dispatched"
         [] event = "failed" -> stage[o] \in {"failed", "returned", "completed"}

\* What step() certifies as a rejected proposal had no effect and never will, so that a
\* correction may follow it.
RejectionHadNoEffect ==
    \A r \in Runtimes : rejected[r] # 0 =>
       stage[rejected[r]] = "failed" /\ effects[rejected[r]] = 0

\* A step that waits cannot act for an operation another runtime has closed.  Two runtimes
\* may evaluate the same returned evidence, or one may recover what the other is still
\* working on: the first to close the operation decides, and neither a tool, a result, a
\* second evaluation nor a reservation follows from the other.  Its failure and the events
\* of it may still be recorded.
ClosedOperationStaysClosed ==
    [][\A o \in Op : stage[o] \in {"completed", "failed"} =>
          /\ effects'[o] = effects[o]
          /\ output'[o] = output[o]
          /\ evaluations'[o] = evaluations[o]
          /\ \A k \in Kind : (<<o, k>> \in reservations)' = (<<o, k>> \in reservations)]_runtimeVars

\* In a wall-limited run every step and every recovery ends.
CallsEnd == \A r \in Runtimes : pc[r] # "idle" ~> pc[r] = "idle"

\* "receiving an accounting report [...] must not erase consumed usage"
UsageNeverErased == \A o \in received : inference_usage[o] # NoUsage

\* "Root boundary records diagnostics, preserving cancellation and programming errors":
\* a cancelled step ends cancelled, or the process dies before it ends.
CancellationPreserved ==
    [][\A r \in Runtimes : pc[r] = "notify_failed" /\ pc'[r] = "idle"
          /\ error[r] = "CancelledError" =>
                error'[r] \in {"CancelledError", "none"}]_runtimeVars
=============================================================================
