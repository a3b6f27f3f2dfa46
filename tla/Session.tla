------------------------------ MODULE Session ------------------------------
(***************************************************************************)
(* Session.execute() of session.py: the loop that asks an application      *)
(* policy for the next step, drives its private Runtime, and leaves one    *)
(* terminal record in the run.                                             *)
(*                                                                         *)
(* The runtimes in Sessions are each owned by one Session; the others are  *)
(* the application's own, on the same run.  Between two steps execute()    *)
(* does not await, so it keeps the event loop (`Keeps`).  Decisions of the *)
(* policy are choices; a correction is the decision of on_rejection(), and *)
(* is carried out exactly as a decision of the policy.                     *)
(***************************************************************************)
EXTENDS Runtime

CONSTANT Sessions  \* runtimes owned by a Session

Termination == [kind : {"stopped", "budget_exhausted", "timed_out", "cancelled", "failed"},
                completed_steps : 0..MaxOps]

ASSUME SessionAssumption == Sessions \subseteq Runtimes /\ Termination \subseteq Outcome

VARIABLES
    driver,    \* where execute() of a session is
    baseline,  \* completed_operations() when it began
    count,     \* steps that returned to it
    raised,    \* the exception that left its try block
    own        \* history: the operations its steps began

session     == <<driver, baseline, count, raised, own>>
sessionVars == <<runtimeVars, session>>

Driver == {"idle", "deciding", "stepping", "closing", "ended", "refused"}

-----------------------------------------------------------------------------
(* execute() *)

\* execute() of s runs between two awaits of its task
Keeps(s) ==
    \/ driver[s] \in {"deciding", "closing"}
    \/ driver[s] = "stepping" /\ pc[s] = "idle"

\* every other task waits for the next await
Alone(r) == \A s \in Sessions \ {r} : ~Keeps(s)

Leave(s, exception) ==
    /\ driver' = [driver EXCEPT ![s] = "closing"]
    /\ raised' = [raised EXCEPT ![s] = exception]
    /\ UNCHANGED <<baseline, own>>

\* _check_ready(): the exception it raises, if any
NotReady == IF ~CheckReady THEN "Failure" ELSE IF expired THEN "BudgetExhausted" ELSE "none"

\* an ended or unresolved run is refused before the try block, and stays as it is
Enter(s) ==
    /\ driver[s] = "idle"
    /\ running = NoRuntime
    /\ RequireOpen /\ Pending = {}
    /\ baseline' = [baseline EXCEPT ![s] = CompletedOperations]
    /\ count' = [count EXCEPT ![s] = 0]
    /\ own' = [own EXCEPT ![s] = {}]
    /\ IF NotReady = "none"
       THEN /\ driver' = [driver EXCEPT ![s] = "deciding"]
            /\ raised' = [raised EXCEPT ![s] = "none"]
       ELSE /\ driver' = [driver EXCEPT ![s] = "closing"]
            /\ raised' = [raised EXCEPT ![s] = NotReady]
    /\ UNCHANGED runtimeVars

\* the policy asks for a step, which makes an operation
DecideStep(s, o, plan) ==
    /\ driver[s] = "deciding"
    /\ NotReady = "none"
    /\ Begin(s, o, plan)
    /\ driver' = [driver EXCEPT ![s] = "stepping"]
    /\ own' = [own EXCEPT ![s] = @ \cup {o}]
    /\ UNCHANGED <<baseline, count, raised>>

\* the step is refused before it makes an operation
DecideRefused(s, exception) ==
    /\ driver[s] = "deciding"
    /\ NotReady = "none"
    /\ BeginRefused(s, exception)
    /\ Leave(s, exception)
    /\ UNCHANGED count

\* the policy stops the session
DecideStop(s) ==
    /\ driver[s] = "deciding"
    /\ NotReady = "none"
    /\ Finish([kind |-> "stopped", completed_steps |-> count[s]])
    /\ driver' = [driver EXCEPT ![s] = "ended"]
    /\ UNCHANGED <<task, history, baseline, count, raised, own>>

\* the policy raises, or the run is no longer ready when it returns, or it returned neither
DecideFails(s) ==
    /\ driver[s] = "deciding"
    /\ \/ \E exception \in AppErrors : Leave(s, exception)
       \/ NotReady # "none" /\ Leave(s, NotReady)
       \/ NotReady = "none" /\ Leave(s, "Failure")
    /\ UNCHANGED <<runtimeVars, count>>

\* a step returned: it is counted, and on_step() may raise
StepReturned(s) ==
    /\ driver[s] = "stepping" /\ pc[s] = "idle"
    /\ error[s] = "none"
    /\ count' = [count EXCEPT ![s] = @ + 1]
    /\ \/ /\ driver' = [driver EXCEPT ![s] = "deciding"]
          /\ UNCHANGED <<baseline, raised, own>>
       \/ \E exception \in AppErrors : Leave(s, exception)
    /\ UNCHANGED runtimeVars

\* Mutant: a corrected step counts as a completed one
StepRejectedCounting(s) ==
    /\ driver[s] = "stepping" /\ pc[s] = "idle"
    /\ rejected[s] # 0
    /\ NotReady = "none"
    /\ driver' = [driver EXCEPT ![s] = "deciding"]
    /\ count' = [count EXCEPT ![s] = @ + 1]
    /\ UNCHANGED <<runtimeVars, baseline, raised, own>>

\* a certified rejection: on_rejection(), when there is one, decides what follows
StepRejected(s) ==
    /\ driver[s] = "stepping" /\ pc[s] = "idle"
    /\ rejected[s] # 0
    /\ NotReady = "none"
    /\ driver' = [driver EXCEPT ![s] = "deciding"]
    /\ UNCHANGED <<runtimeVars, baseline, count, raised, own>>

\* Mutant: a certified rejection is left to a correction that may not come
StepFailedUncertified(s) ==
    /\ driver[s] = "stepping" /\ pc[s] = "idle"
    /\ error[s] # "none" /\ rejected[s] = 0
    /\ Leave(s, error[s])
    /\ UNCHANGED <<runtimeVars, count>>

\* the step raised, and nothing corrects it: there is no on_rejection(), or the run is
\* not ready for it
StepFailed(s) ==
    /\ driver[s] = "stepping" /\ pc[s] = "idle"
    /\ error[s] # "none"
    /\ \/ Leave(s, error[s])
       \/ rejected[s] # 0 /\ NotReady # "none" /\ Leave(s, NotReady)
    /\ UNCHANGED <<runtimeVars, count>>

\* Mutant: the type of the exception is recorded as it is
KindsUnclassified(exception) == {exception}

\* kinds the except clause may record: a cancellation by the deadline is a TimeoutError,
\* which application code may raise of its own
Kinds(exception) ==
    CASE exception = "CancelledError"  -> {"cancelled"} \cup (IF expired THEN {"timed_out"} ELSE {})
      [] exception = "BudgetExhausted" -> {"budget_exhausted"}
      [] OTHER                         -> {"failed", "timed_out"}

\* the except clause records the termination, or finds the run ended by somebody else
Close(s, kind) ==
    /\ driver[s] = "closing"
    /\ UNCHANGED <<task, history, baseline, count, raised, own>>
    /\ \/ /\ Finish([kind |-> kind, completed_steps |-> CompletedOperations - baseline[s]])
          /\ driver' = [driver EXCEPT ![s] = "ended"]
       \/ /\ ~RequireOpen
          /\ driver' = [driver EXCEPT ![s] = "refused"]
          /\ UNCHANGED vars

-----------------------------------------------------------------------------
(* The sessions, the application's own runtimes, and the process *)

SessionInit ==
    /\ RuntimeInit
    /\ driver = [s \in Sessions |-> "idle"]
    /\ baseline = [s \in Sessions |-> 0]
    /\ count = [s \in Sessions |-> 0]
    /\ raised = [s \in Sessions |-> "none"]
    /\ own = [s \in Sessions |-> {}]

\* execute() between the awaits of its steps
Drive(s) ==
    /\ Alone(s)
    /\ \/ Enter(s)
       \/ \E o \in Op, plan \in Plans \cup {NoReservation} : DecideStep(s, o, plan)
       \/ \E exception \in {"Failure", "BudgetExhausted"} : DecideRefused(s, exception)
       \/ DecideStop(s)
       \/ DecideFails(s)
       \/ StepReturned(s)
       \/ StepRejected(s)
       \/ StepFailed(s)
       \/ \E kind \in Kinds(raised[s]) : Close(s, kind)

\* a runtime goes on, and only those without a session are called by the application
Other(r) ==
    /\ Alone(r)
    /\ r \in Sessions => driver[r] = "stepping" /\ pc[r] # "idle"
    /\ Slice(r) \/ Resume(r) \/ Interrupt(r) \/ (r \notin Sessions /\ Call(r))
    /\ UNCHANGED session

\* finish() from another task or a callback; the except clause has neither
SessionAppFinish ==
    /\ \A s \in Sessions : driver[s] # "closing"
    /\ \E value \in Outcome \ Termination : AppFinish(value)
    /\ UNCHANGED session

SessionCrash ==
    /\ Crash
    /\ driver' = [s \in Sessions |-> "idle"]
    /\ UNCHANGED <<baseline, count, raised, own>>

SessionNext ==
    \/ \E s \in Sessions : Drive(s)
    \/ \E r \in Runtimes : Other(r)
    \/ SessionAppFinish
    \/ Time /\ UNCHANGED session
    \/ SessionCrash

SessionSpec == SessionInit /\ [][SessionNext]_sessionVars

\* as in Runtime: ready tasks run, the deadline passes, cancelled awaits yield
SessionFairness ==
    /\ \A s \in Sessions : WF_sessionVars(driver[s] # "idle" /\ Drive(s))
    /\ \A r \in Runtimes : /\ WF_sessionVars(Other(r) /\ Slice(r))
                          /\ WF_sessionVars(Other(r) /\ expired /\ Interrupt(r))
    /\ WF_sessionVars(Time /\ expired' /\ UNCHANGED session)

FairSessionSpec == SessionSpec /\ SessionFairness

-----------------------------------------------------------------------------
(* Properties *)

SessionTypeOK ==
    /\ RuntimeTypeOK
    /\ driver \in [Sessions -> Driver]
    /\ baseline \in [Sessions -> 0..MaxOps]
    /\ count \in [Sessions -> 0..MaxOps]
    /\ raised \in [Sessions -> Error]
    /\ own \in [Sessions -> SUBSET Op]

\* the steps of this invocation that were fully evaluated
Evaluated(s) == Cardinality({o \in own[s] : stage[o] = "completed"})

\* The policy is asked on a settled run, with the exact number of its own steps that were
\* evaluated: whatever the other runtimes of the run did while a step waited.
PolicySeesSettledRun ==
    \A s \in Sessions : driver[s] = "deciding" => Pending = {} /\ count[s] = Evaluated(s)

\* A session that stopped of its own will left nothing pending, and recorded exactly the
\* steps of this invocation that were evaluated.
StopIsExact ==
    \A s \in Sessions : driver[s] = "ended" /\ outcome.kind = "stopped" =>
       Pending = {} /\ outcome.completed_steps = Evaluated(s)

\* "completed_steps counts fully evaluated steps in this invocation, not model calls,
\* tokens or total historical operations"
CountsThisInvocation ==
    \A s \in Sessions : driver[s] = "ended" => outcome.completed_steps = Evaluated(s)

\* execute() returns or raises in a wall-limited run, however the policy decides.
SessionEnds ==
    \A s \in Sessions : driver[s] # "idle" ~> driver[s] \in {"idle", "ended", "refused"}
=============================================================================
