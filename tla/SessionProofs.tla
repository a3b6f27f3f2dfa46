---------------------------- MODULE SessionProofs ----------------------------
(***************************************************************************)
(* What Session guarantees for any number of sessions and rivals: they use *)
(* their runtimes as Runtime lets them, so its theorems hold of them, and  *)
(* the policy is asked on a settled run with an exact count.               *)
(***************************************************************************)
EXTENDS Session, RuntimeProofs, AccountingProofs

-----------------------------------------------------------------------------
(* The inductive invariant *)

\* A step of s that goes on: what it began is the only operation of s that may be open.
UnderWay(s) ==
    /\ pc[s] # "reevaluating"
    /\ op[s] \in own[s] /\ rejected[s] = 0
    /\ count[s] = Cardinality({o \in own[s] \ {op[s]} : stage[o] = "completed"})
    /\ \A o \in own[s] \ {op[s]} : stage[o] \in {"completed", "failed"}
    /\ pc[s] \in {"failing", "notify_failed"} => error[s] # "none"
    /\ pc[s] = "notify_done" => running = s /\ Pending = {} /\ stage[op[s]] = "completed"

\* A step of s that ended: it completed its operation, or certified that it did not.
Over(s) ==
    /\ error[s] = "none" => Pending = {} /\ Evaluated(s) = count[s] + 1
    /\ rejected[s] # 0 => Evaluated(s) = count[s]

\* where execute() is
Station(s) ==
    /\ driver[s] # "stepping" => pc[s] = "idle"
    /\ Keeps(s) => running = NoRuntime
    /\ driver[s] \in {"deciding", "stepping", "closing"} => baseline[s] <= CompletedOperations
    /\ \A o \in own[s] : stage[o] # "none"
    /\ driver[s] = "deciding" => Pending = {} /\ count[s] = Evaluated(s)
    /\ driver[s] = "stepping" /\ pc[s] # "idle" => UnderWay(s)
    /\ driver[s] = "stepping" /\ pc[s] = "idle" => Over(s)
    /\ driver[s] = "ended" => /\ outcome # NoOutcome
                              /\ outcome.kind = "stopped" =>
                                    Pending = {} /\ outcome.completed_steps = Evaluated(s)

Stations == \A s \in Sessions : Station(s)

SessionTyped ==
    /\ driver \in [Sessions -> Driver]
    /\ baseline \in [Sessions -> 0..MaxOps]
    /\ count \in [Sessions -> 0..MaxOps]
    /\ raised \in [Sessions -> Error]
    /\ own \in [Sessions -> SUBSET Op]

SessionInv == RuntimeInv /\ SessionTyped /\ Stations

-----------------------------------------------------------------------------
(* Facts about the journal *)

\* An operation that was begun stays begun.
LEMMA BegunStays ==
  ASSUME TypeOK, [Next]_vars, NEW o \in Op, stage[o] # "none"
  PROVE  stage'[o] # "none"
  <1> DEFINE Stays == stage'[o] # "none"
  <1> USE DEF TypeOK
  <1> SUFFICES Stays
    OBVIOUS
  <1>1. ASSUME UNCHANGED stage PROVE Stays
    BY <1>1
  <1>2. ASSUME NEW p \in Op, \E b \in Revision, plan \in Plans \cup {NoReservation},
                                required \in SUBSET Guard : Start(p, b, plan, required)
        PROVE  Stays
    BY <1>2 DEF Start
  <1>3. ASSUME NEW p \in Op, \/ \E observes, external \in BOOLEAN : Dispatch(p, observes, external)
                             \/ \E result \in Output : Returned(p, result)
                             \/ \E evaluation \in Evaluation : Complete(p, evaluation)
                             \/ Proposed(p) \/ Failed(p) \/ AbandonUndispatched(p)
        PROVE  Stays
    BY <1>3 DEF Dispatch, Returned, Complete, Proposed, Failed, AbandonUndispatched
  <1>4. ASSUME NEW p \in Op, \/ \E usage \in Reports : RecordUsage(p, usage)
                             \/ \E g \in Guard, allowed \in BOOLEAN : RecordGuard(p, g, allowed)
                             \/ \E event \in EventStage : RecordEvent(p, event)
        PROVE  Stays
    BY <1>1, <1>4 DEF RecordUsage, RecordGuard, RecordEvent
  <1>5. ASSUME (\E value \in Outcome : Finish(value)) \/ Tick \/ Reopen \/ UNCHANGED vars
        PROVE  Stays
    BY <1>1, <1>5 DEF Finish, Tick, Reopen, vars
  <1> HIDE DEF Stays
  <1> QED
    BY <1>2, <1>3, <1>4, <1>5 DEF Next

\* A set of operations has a size, and at most as many members as there are operations.
LEMMA OpsCounted ==
  ASSUME NEW S \in SUBSET Op
  PROVE  IsFiniteSet(S) /\ Cardinality(S) \in 0..MaxOps
  <1>1. IsFiniteSet(1..MaxOps) /\ Cardinality(1..MaxOps) = MaxOps
    BY MaxOpsAssumption, FS_Interval
  <1>2. IsFiniteSet(S) /\ Cardinality(S) <= Cardinality(1..MaxOps)
    BY <1>1, FS_Subset DEF Op
  <1> QED
    BY <1>1, <1>2, FS_CardinalityType, MaxOpsAssumption

\* Completed operations never become fewer.
LEMMA CompletedGrow ==
  ASSUME TypeOK, [Next]_vars
  PROVE  /\ CompletedOperations \in 0..MaxOps /\ CompletedOperations' \in 0..MaxOps
         /\ CompletedOperations <= CompletedOperations'
  <1> DEFINE S == {o \in Op : stage[o] = "completed"}
             T == {o \in Op : stage'[o] = "completed"}
  <1>1. S \subseteq T
    BY EffectStep
  <1>2. Cardinality(S) <= Cardinality(T)
    BY <1>1, OpsCounted, FS_Subset
  <1> QED
    BY <1>2, OpsCounted DEF CompletedOperations

\* With nothing pending, what was begun is closed.
LEMMA NothingOpen ==
  ASSUME TypeOK, Pending = {}, NEW o \in Op, stage[o] # "none"
  PROVE  stage[o] \in {"completed", "failed"}
  BY DEF TypeOK, Pending, Unfinished, Undispatched, Stage

-----------------------------------------------------------------------------
(* Every step is one the runtimes may take *)

\* execute() between the awaits of its steps.
LEMMA DriveRuntime ==
  ASSUME SessionInv, NEW s \in Sessions, Drive(s)
  PROVE  [RuntimeNext]_runtimeVars
  <1>0. s \in Runtimes /\ Termination \subseteq Outcome /\ Station(s) /\ TypeOK
    BY SessionAssumption DEF SessionInv, Stations, RuntimeInv, StoreInv, AuthorityInv
  <1>1. ASSUME Enter(s) \/ DecideFails(s) \/ StepReturned(s) \/ StepRejected(s) \/ StepFailed(s)
        PROVE  UNCHANGED runtimeVars
    BY <1>1 DEF Enter, DecideFails, StepReturned, StepRejected, StepFailed
  <1>2. ASSUME \/ \E o \in Op, plan \in Plans \cup {NoReservation} : DecideStep(s, o, plan)
               \/ \E exception \in {"Failure", "BudgetExhausted"} : DecideRefused(s, exception)
        PROVE  RuntimeNext
    BY <1>0, <1>2 DEF DecideStep, DecideRefused, RuntimeNext, Call
  <1>3. ASSUME Keeps(s), NEW value \in Outcome, Finish(value), UNCHANGED <<task, history>>
        PROVE  RuntimeNext
    <2>1. running \notin Runtimes
      BY <1>0, <1>3, RuntimeAssumption DEF Station
    <2> QED
      BY <1>3, <2>1 DEF AppFinish, RuntimeNext
  <1>4. ASSUME DecideStop(s) PROVE RuntimeNext
    <2>1. [kind |-> "stopped", completed_steps |-> count[s]] \in Outcome
      BY <1>0 DEF Termination, SessionInv, SessionTyped
    <2> QED
      BY <1>3, <1>4, <2>1 DEF DecideStop, Keeps
  <1>5. ASSUME NEW kind \in Kinds(raised[s]), Close(s, kind)
        PROVE  RuntimeNext \/ UNCHANGED runtimeVars
    <2>1. Keeps(s) /\ baseline[s] <= CompletedOperations /\ baseline[s] \in 0..MaxOps
      BY <1>0, <1>5 DEF Close, Keeps, Station, SessionInv, SessionTyped
    <2>2. CompletedOperations \in 0..MaxOps
      BY OpsCounted DEF CompletedOperations
    <2>3. CompletedOperations - baseline[s] \in 0..MaxOps
      BY <2>1, <2>2, MaxOpsAssumption
    <2>4. kind \in {"stopped", "budget_exhausted", "timed_out", "cancelled", "failed"}
      BY DEF Kinds
    <2>5. [kind |-> kind, completed_steps |-> CompletedOperations - baseline[s]] \in Outcome
      BY <1>0, <2>3, <2>4 DEF Termination
    <2> QED
      BY <1>3, <1>5, <2>1, <2>5 DEF Close, runtimeVars
  <1> QED
    BY <1>1, <1>2, <1>4, <1>5 DEF Drive

\* Every step of the sessions and their rivals is one of the runtimes.
LEMMA SessionAllowed ==
  ASSUME SessionInv, [SessionNext]_sessionVars
  PROVE  [RuntimeNext]_runtimeVars
  <1>1. ASSUME NEW r \in Runtimes, Other(r) PROVE RuntimeNext
    BY <1>1 DEF Other, RuntimeNext
  <1>2. ASSUME SessionAppFinish PROVE RuntimeNext
    BY <1>2 DEF SessionAppFinish, RuntimeNext
  <1>3. ASSUME Time \/ SessionCrash PROVE RuntimeNext
    BY <1>3 DEF SessionCrash, RuntimeNext
  <1>4. CASE UNCHANGED sessionVars
    BY <1>4 DEF sessionVars
  <1> QED
    BY <1>1, <1>2, <1>3, <1>4, DriveRuntime DEF SessionNext

-----------------------------------------------------------------------------
(* A session that only watches *)

\* nothing of s moves
Untouched(s) ==
    /\ pc'[s] = pc[s] /\ op'[s] = op[s] /\ error'[s] = error[s] /\ rejected'[s] = rejected[s]
    /\ driver'[s] = driver[s] /\ baseline'[s] = baseline[s] /\ count'[s] = count[s]
    /\ own'[s] = own[s]

\* A set of closed operations has the same completed ones after a step.
LEMMA ClosedCount ==
  ASSUME TypeOK, [Next]_vars, NEW S \in SUBSET Op, \A o \in S : stage[o] \in {"completed", "failed"}
  PROVE  /\ {o \in S : stage'[o] = "completed"} = {o \in S : stage[o] = "completed"}
         /\ \A o \in S : stage'[o] \in {"completed", "failed"}
  BY EffectStep

\* A session whose step waits, or that is over, keeps its place whatever the others do.
LEMMA Bystander ==
  ASSUME TypeOK, [Next]_vars, NEW s \in Sessions, Station(s), own[s] \subseteq Op,
         baseline[s] \in 0..MaxOps, op[s] \in Op \cup {0}, Untouched(s), ~Keeps(s),
         pc[s] = "notify_done" => UNCHANGED <<running, stage>>
  PROVE  Station(s)'
  <1>1. ~Keeps(s)' /\ driver[s] \notin {"deciding", "closing"}
    BY DEF Keeps, Untouched
  <1>2. baseline[s] <= CompletedOperations => baseline[s] <= CompletedOperations'
    BY CompletedGrow, MaxOpsAssumption
  <1>3. \A o \in own'[s] : stage'[o] # "none"
    BY BegunStays DEF Untouched, Station
  <1>4. CASE driver[s] = "stepping"
    <2>1. pc[s] # "idle" /\ UnderWay(s)
      BY <1>4 DEF Keeps, Station
    <2>2. UnderWay(s)'
      <3> DEFINE S == own[s] \ {op[s]}
      <3>1. /\ {o \in S : stage'[o] = "completed"} = {o \in S : stage[o] = "completed"}
            /\ \A o \in S : stage'[o] \in {"completed", "failed"}
        BY <2>1, ClosedCount DEF UnderWay
      <3>2. pc[s] = "notify_done" => Pending' = Pending
        BY DEF Pending
      <3> QED
        BY <2>1, <3>1, <3>2 DEF UnderWay, Untouched
    <2> QED
      BY <1>1, <1>2, <1>3, <1>4, <2>1, <2>2 DEF Station, Untouched
  <1>5. CASE driver[s] = "ended"
    <2>1. outcome # NoOutcome /\ outcome' = outcome
      BY <1>5, TerminalStep DEF Station
    <2>2. ASSUME outcome.kind = "stopped"
          PROVE  Pending' = {} /\ outcome.completed_steps = Evaluated(s)'
      <3>1. Pending = {} /\ outcome.completed_steps = Evaluated(s)
        BY <1>5, <2>2 DEF Station
      <3>2. \A o \in own[s] : stage[o] \in {"completed", "failed"}
        BY <3>1, NothingOpen DEF Station
      <3>3. Evaluated(s)' = Evaluated(s)
        BY <3>2, ClosedCount DEF Evaluated, Untouched
      <3>4. Pending' = {}
        BY <2>1, <3>1, TerminalStep DEF Pending, Unfinished, Undispatched
      <3> QED
        BY <3>1, <3>3, <3>4
    <2> QED
      BY <1>1, <1>3, <1>5, <2>1, <2>2 DEF Station, Untouched
  <1>6. CASE driver[s] \notin {"stepping", "ended"}
    BY <1>1, <1>3, <1>6 DEF Station, Untouched
  <1> QED
    BY <1>4, <1>5, <1>6

\* The clock, and an end of the run by somebody else, move no session.
LEMMA Still ==
  ASSUME NEW s \in Sessions, Station(s), Untouched(s), UNCHANGED <<stage, running>>,
         outcome' = outcome \/ outcome = NoOutcome
  PROVE  Station(s)'
  <1>1. /\ Pending' = Pending /\ CompletedOperations' = CompletedOperations
        /\ Evaluated(s)' = Evaluated(s) /\ (Keeps(s)' <=> Keeps(s))
    BY DEF Pending, CompletedOperations, Evaluated, Keeps, Untouched
  <1>2. UnderWay(s) => UnderWay(s)'
    BY <1>1 DEF UnderWay, Untouched
  <1>3. Over(s) => Over(s)'
    BY <1>1 DEF Over, Untouched
  <1> QED
    BY <1>1, <1>2, <1>3 DEF Station, Untouched

-----------------------------------------------------------------------------
(* The step of one runtime, as the others and its session see it *)

\* a step of r is nobody else's, and nobody else's turn
Turn(r) ==
    /\ running \in {r, NoRuntime}
    /\ \A q \in Runtimes \ {r} : /\ pc'[q] = pc[q] /\ op'[q] = op[q]
                                 /\ error'[q] = error[q] /\ rejected'[q] = rejected[q]

\* step() of r goes on
Goes(r) ==
    /\ pc'[r] \notin {"idle", "reevaluating"} /\ op'[r] = op[r] /\ rejected'[r] = rejected[r]
    /\ pc'[r] = "failing" => error'[r] # "none"
    /\ pc'[r] = "notify_failed" => error'[r] = error[r] /\ pc[r] = "failing"
    /\ pc'[r] = "notify_done" =>
          running' = r /\ \E evaluation \in Evaluation : Complete(op[r], evaluation)

\* step() of r ends
Ends(r) ==
    /\ pc'[r] = "idle" /\ running' = NoRuntime /\ UNCHANGED stage
    /\ rejected'[r] \in {0, rejected[r], op[r]}
    /\ error'[r] = "none" =>
          pc[r] = "notify_done" \/ (pc[r] = "notify_failed" /\ error[r] = "none")

\* An exception inside the try block.
LEMMA RaiseGoes ==
  ASSUME ControlTyped, NEW r \in Runtimes, running \in {r, NoRuntime}, NEW exception,
         exception # "none", Raise(r, exception)
  PROVE  Turn(r) /\ Goes(r)
  BY DEF ControlTyped, Raise, Turn, Goes

\* The task goes on to a point that is no end.
LEMMA GotoGoes ==
  ASSUME ControlTyped, NEW r \in Runtimes, running \in {r, NoRuntime}, NEW point, Goto(r, point),
         point \notin {"idle", "reevaluating", "failing", "notify_failed", "notify_done"}
  PROVE  Turn(r) /\ Goes(r)
  BY DEF ControlTyped, Goto, Turn, Goes

\* The call ends.
LEMMA EndEnds ==
  ASSUME ControlTyped, NEW r \in Runtimes, running \in {r, NoRuntime}, NEW exception,
         End(r, exception), UNCHANGED stage,
         \A q \in Runtimes \ {r} : rejected'[q] = rejected[q],
         rejected'[r] \in {0, rejected[r], op[r]},
         exception = "none" =>
            pc[r] = "notify_done" \/ (pc[r] = "notify_failed" /\ error[r] = "none")
  PROVE  Turn(r) /\ Ends(r)
  BY DEF ControlTyped, End, Turn, Ends

\* A callback that raises.
LEMMA EmitGoes ==
  ASSUME ControlTyped, NEW r \in Runtimes, running \in {r, NoRuntime}, NEW event,
         EmitRaises(r, event)
  PROVE  Turn(r) /\ Goes(r)
  BY RaiseGoes, AppAssumption DEF EmitRaises

\* What step() does between two awaits.
LEMMA SliceMoves ==
  ASSUME ControlTyped, NEW r \in Runtimes, Slice(r)
  PROVE  Turn(r) /\ (Goes(r) \/ Ends(r))
  <1> DEFINE Step == Turn(r) /\ (Goes(r) \/ Ends(r))
  <1>0. ASSUME NEW point, Runs(r, point) PROVE running \in {r, NoRuntime}
    BY <1>0 DEF Runs
  <1>1. ASSUME NotifyStarted(r) \/ NotifyInference(r) PROVE Step
    BY <1>0, <1>1, EmitGoes, GotoGoes DEF NotifyStarted, NotifyInference
  <1>2. ASSUME Propose(r) PROVE Step
    BY <1>0, <1>2, RaiseGoes, GotoGoes DEF Propose
  <1>3. ASSUME NEW i, Ask(r, i), running \in {r, NoRuntime} PROVE Step
    BY <1>3, GotoGoes DEF Ask
  <1>4. ASSUME Validate(r) PROVE Step
    <2>1. ASSUME NEW exception \in {"ProposalRejected", "BudgetExhausted", "Failure"},
                 Raise(r, exception)
          PROVE  Step
      BY <1>0, <1>4, <2>1, RaiseGoes DEF Validate
    <2> QED
      BY <1>0, <1>3, <1>4, <2>1 DEF Validate
  <1>5. ASSUME NotifyGuard(r) PROVE Step
    BY <1>0, <1>3, <1>5, EmitGoes, RaiseGoes DEF NotifyGuard
  <1>6. ASSUME NEW observes \in BOOLEAN, NEW external \in BOOLEAN,
               DispatchTool(r, observes, external)
        PROVE  Step
    BY <1>0, <1>6, RaiseGoes, GotoGoes DEF DispatchTool
  <1>7. ASSUME NotifyDispatched(r) PROVE Step
    BY <1>0, <1>7, EmitGoes, GotoGoes DEF NotifyDispatched
  <1>8. ASSUME NotifyReturned(r) PROVE Step
    BY <1>0, <1>8, EmitGoes, RaiseGoes, GotoGoes DEF NotifyReturned
  <1>9. ASSUME NotifyDone(r) PROVE Step
    <2>1. pc[r] = "notify_done" /\ running \in {r, NoRuntime}
      BY <1>9 DEF NotifyDone, Runs
    <2>2. ASSUME NEW event, Emits(r, event), End(r, "none"), UNCHANGED rejected PROVE Step
      <3>1. UNCHANGED stage
        BY <2>2 DEF Emits, RecordEvent
      <3> QED
        BY <2>1, <2>2, <3>1, EndEnds
    <2> QED
      BY <1>9, <2>1, <2>2, EmitGoes DEF NotifyDone
  <1>10. ASSUME RecordFailure(r) PROVE Step
    BY <1>0, <1>10 DEF RecordFailure, Runs, ControlTyped, Goto, Turn, Goes
  <1>11. ASSUME NotifyFailed(r) PROVE Step
    <2>1. pc[r] = "notify_failed" /\ running \in {r, NoRuntime}
      BY <1>11 DEF NotifyFailed, Runs
    <2>2. UNCHANGED stage
      BY <1>11 DEF NotifyFailed, RecordEvent, vars
    <2>3. CASE UNCHANGED rejected /\ End(r, "Failure")
      BY <2>1, <2>2, <2>3, EndEnds
    <2>4. CASE rejected' = [rejected EXCEPT ![r] = IF Certified(r) THEN op[r] ELSE 0]
               /\ End(r, error[r])
      <3>1. /\ \A q \in Runtimes \ {r} : rejected'[q] = rejected[q]
            /\ rejected'[r] \in {0, rejected[r], op[r]}
        BY <2>4 DEF ControlTyped
      <3> QED
        BY <2>1, <2>2, <2>4, <3>1, EndEnds
    <2> QED
      BY <1>11, <2>3, <2>4 DEF NotifyFailed
  <1> QED
    BY <1>1, <1>2, <1>4, <1>5, <1>6, <1>7, <1>8, <1>9, <1>10, <1>11 DEF Slice

\* What step() does when its await ends.
LEMMA ResumeMoves ==
  ASSUME ControlTyped, NEW r \in Runtimes, Resume(r) \/ Interrupt(r)
  PROVE  Turn(r) /\ (pc[r] # "reevaluating" => Goes(r))
  <1> DEFINE Step == Turn(r) /\ (pc[r] # "reevaluating" => Goes(r))
  <1>0. ASSUME NEW point, Runs(r, point) PROVE running \in {r, NoRuntime}
    BY <1>0 DEF Runs
  <1>1. ASSUME NEW usage \in Reports, NEW exception, Generate(r, usage, exception) PROVE Step
    BY <1>0, <1>1, RaiseGoes, GotoGoes DEF Generate
  <1>2. ASSUME NEW allowed \in BOOLEAN, Check(r, allowed) PROVE Step
    BY <1>0, <1>2, RaiseGoes, GotoGoes DEF Check
  <1>3. ASSUME NEW result \in Output, Execute(r, result) PROVE Step
    BY <1>0, <1>3, GotoGoes DEF Execute
  <1>4. ASSUME NEW evaluation \in Evaluation, Evaluate(r, evaluation) PROVE Step
    <2>1. running \in {r, NoRuntime}
      BY <1>0, <1>4 DEF Evaluate
    <2>2. CASE Complete(op[r], evaluation) /\ Goto(r, "notify_done")
      <3>1. "notify_done" \notin Await \cup {"idle"}
        BY DEF Await
      <3> QED
        BY <2>1, <2>2, <3>1 DEF ControlTyped, Goto, Turn, Goes
    <2>3. ASSUME Raise(r, Refusal) PROVE Step
      BY <2>1, <2>3, RaiseGoes DEF Refusal
    <2> QED
      BY <1>4, <2>2, <2>3 DEF Evaluate
  <1>5. ASSUME NEW exception \in AppErrors \cup {"InferenceRejected", "ProposalRejected",
                                                 "CancelledError"},
               GenerateFails(r, exception) \/ AwaitFails(r, exception)
        PROVE  Step
    BY <1>0, <1>5, AppAssumption, RaiseGoes DEF GenerateFails, AwaitFails
  <1>6. ASSUME Cancel(r) PROVE Step
    BY <1>0, <1>6, RaiseGoes DEF Cancel
  <1>7. ASSUME NEW exception, RecoverFails(r, exception) PROVE Step
    BY <1>7 DEF RecoverFails, Runs, ControlTyped, End, Turn
  <1>8. ASSUME NEW evaluation \in Evaluation, Reevaluate(r, evaluation) PROVE Step
    BY <1>8 DEF Reevaluate, Runs, ControlTyped, End, Turn
  <1> QED
    BY <1>1, <1>2, <1>3, <1>4, <1>5, <1>6, <1>7, <1>8 DEF Resume, Interrupt

\* A call of the application.
LEMMA CallMoves ==
  ASSUME ControlTyped, NEW r \in Runtimes, Call(r)
  PROVE  Turn(r) /\ running = NoRuntime
  BY DEF Call, BeginRefused, Begin, RecoverUndispatched, RecoverReturned, Runs, ControlTyped, End,
     Turn, task

-----------------------------------------------------------------------------
(* The session's own steps *)

\* The step of a session goes on.
LEMMA OwnGoes ==
  ASSUME RuntimeInv, [Next]_vars, NEW s \in Sessions, s \in Runtimes, Station(s),
         own[s] \subseteq Op, baseline[s] \in 0..MaxOps,
         driver[s] = "stepping", pc[s] # "idle", Goes(s), UNCHANGED session
  PROVE  Station(s)'
  <1>0. TypeOK /\ OneAtATime /\ UnderWay(s) /\ ~Keeps(s)'
    BY DEF RuntimeInv, StoreInv, HistoryInv, SerialInv, AuthorityInv, Station, Keeps, Goes, session
  <1>1. baseline[s] <= CompletedOperations'
    BY <1>0, CompletedGrow, MaxOpsAssumption DEF Station
  <1>2. \A o \in own[s] : stage'[o] # "none"
    BY <1>0, BegunStays DEF Station
  <1>3. UnderWay(s)'
    <2> DEFINE S == own[s] \ {op[s]}
    <2>1. /\ {o \in S : stage'[o] = "completed"} = {o \in S : stage[o] = "completed"}
          /\ \A o \in S : stage'[o] \in {"completed", "failed"}
      BY <1>0, ClosedCount DEF UnderWay
    <2>2. ASSUME pc'[s] = "notify_done"
          PROVE  running' = s /\ Pending' = {} /\ stage'[op[s]] = "completed"
      <3>1. PICK evaluation \in Evaluation : Complete(op[s], evaluation)
        BY <2>2 DEF Goes
      <3>2. /\ op[s] \in Op /\ stage[op[s]] = "returned"
            /\ stage' = [stage EXCEPT ![op[s]] = "completed"]
        BY <1>0, <3>1 DEF UnderWay, Complete, CanComplete
      <3>3. \A o \in Pending : o = op[s]
        BY <1>0, <3>2, PendingUnique DEF Pending, Unfinished
      <3> QED
        BY <1>0, <2>2, <3>2, <3>3 DEF Goes, Pending, Unfinished, TypeOK
    <2> QED
      BY <1>0, <2>1, <2>2 DEF UnderWay, Goes, session
  <1> QED
    BY <1>0, <1>1, <1>2, <1>3 DEF Station, Goes, session

\* The step of a session ends.
LEMMA OwnEnds ==
  ASSUME RuntimeInv, RuntimeInv', NEW s \in Sessions, s \in Runtimes, Station(s),
         own[s] \subseteq Op,
         count[s] \in 0..MaxOps, driver[s] = "stepping", pc[s] # "idle", Ends(s),
         UNCHANGED session
  PROVE  Station(s)'
  <1>0. UnderWay(s) /\ UNCHANGED stage /\ op[s] \in own[s] /\ op[s] \in Op
    BY DEF Station, Ends, UnderWay
  <1>1. UNCHANGED <<Pending, CompletedOperations>> /\ Evaluated(s)' = Evaluated(s)
    BY <1>0 DEF Pending, CompletedOperations, Evaluated, session
  <1> DEFINE S == {o \in own[s] \ {op[s]} : stage[o] = "completed"}
             T == {o \in own[s] : stage[o] = "completed"}
  <1>2. count[s] = Cardinality(S) /\ Evaluated(s) = Cardinality(T) /\ IsFiniteSet(S)
    BY <1>0, OpsCounted DEF UnderWay, Evaluated
  <1>3. ASSUME error'[s] = "none" PROVE Pending' = {} /\ Evaluated(s)' = count[s] + 1
    <2>1. pc[s] = "notify_done" /\ Pending = {} /\ stage[op[s]] = "completed"
      BY <1>0, <1>3 DEF Ends, UnderWay
    <2>2. T = S \cup {op[s]} /\ op[s] \notin S
      BY <1>0, <2>1
    <2>3. Cardinality(T) = Cardinality(S) + 1
      BY <1>2, <2>2, FS_AddElement
    <2> QED
      BY <1>1, <1>2, <2>1, <2>3
  <1>4. ASSUME rejected'[s] # 0 PROVE Evaluated(s)' = count[s]
    <2>1. rejected'[s] = op[s]
      BY <1>0, <1>4 DEF Ends, UnderWay
    <2>2. stage[op[s]] = "failed"
      BY <1>0, <1>4, <2>1 DEF RuntimeInv, Places, Place
    <2>3. T = S
      BY <2>2
    <2> QED
      BY <1>1, <1>2, <2>3
  <1>5. Over(s)'
    BY <1>3, <1>4 DEF Over, session
  <1>6. \A o \in own[s] : stage'[o] # "none"
    BY <1>0 DEF Station
  <1> QED
    BY <1>1, <1>5, <1>6 DEF Station, Keeps, Ends, session

\* The steps of the runtimes.
LEMMA OtherStations ==
  ASSUME SessionInv, RuntimeInv', [Next]_vars, NEW r \in Runtimes, Other(r),
         NEW s \in Sessions
  PROVE  Station(s)'
  <1>0. /\ TypeOK /\ ControlTyped /\ Station(s) /\ s \in Runtimes /\ op[s] \in Op \cup {0}
        /\ own[s] \subseteq Op /\ baseline[s] \in 0..MaxOps /\ count[s] \in 0..MaxOps
        /\ UNCHANGED session
    BY SessionAssumption
       DEF SessionInv, SessionTyped, Stations, RuntimeInv, StoreInv, AuthorityInv, ControlTyped, Other
  <1>1. Turn(r)
    BY <1>0, SliceMoves, ResumeMoves, CallMoves DEF Other
  <1>2. CASE s # r
    <2>1. Untouched(s) /\ ~Keeps(s)
      BY <1>0, <1>1, <1>2 DEF Untouched, Turn, Other, Alone, session
    <2>2. pc[s] # "notify_done"
      <3>1. driver[s] = "stepping" /\ pc[s] = "notify_done" => running = s
        BY <1>0 DEF Station, UnderWay
      <3>2. driver[s] # "stepping" => pc[s] = "idle"
        BY <1>0 DEF Station
      <3> QED
        BY <1>0, <1>1, <1>2, <3>1, <3>2, RuntimeAssumption DEF Turn
    <2> QED
      BY <1>0, <2>1, <2>2, Bystander
  <1>3. CASE s = r
    <2>1. driver[s] = "stepping" /\ pc[s] # "idle" /\ pc[s] # "reevaluating"
      BY <1>0, <1>3 DEF Other, Station, UnderWay
    <2>2. Goes(s) \/ Ends(s)
      BY <1>0, <1>3, <2>1, SliceMoves, ResumeMoves DEF Other
    <2> QED
      BY <1>0, <2>1, <2>2, OwnGoes, OwnEnds DEF SessionInv
  <1> QED
    BY <1>2, <1>3

\* What execute() does between two awaits, as the other sessions see it.
LEMMA DriveMoves ==
  ASSUME ControlTyped, SessionTyped, NEW s \in Sessions, s \in Runtimes, Drive(s)
  PROVE  /\ \A q \in Sessions \ {s} : q \in Runtimes => Untouched(q)
         /\ running = NoRuntime \/ UNCHANGED <<stage, running>>
  <1> DEFINE Frame == /\ \A q \in Sessions \ {s} : q \in Runtimes => Untouched(q)
                      /\ running = NoRuntime \/ UNCHANGED <<stage, running>>
  <1>1. ASSUME UNCHANGED task, UNCHANGED stage,
               \A q \in Sessions \ {s} : /\ driver'[q] = driver[q] /\ baseline'[q] = baseline[q]
                                         /\ count'[q] = count[q] /\ own'[q] = own[q]
        PROVE  Frame
    BY <1>1 DEF task, Untouched
  <1>2. ASSUME Enter(s) \/ DecideFails(s) \/ StepReturned(s) \/ StepRejected(s) \/ StepFailed(s)
        PROVE  Frame
    BY <1>1, <1>2 DEF Enter, DecideFails, StepReturned, StepRejected, StepFailed, Leave,
       SessionTyped, runtimeVars, vars
  <1>3. ASSUME DecideStop(s) \/ \E kind \in Kinds(raised[s]) : Close(s, kind) PROVE Frame
    BY <1>1, <1>3 DEF DecideStop, Close, Finish, SessionTyped, vars
  <1>4. ASSUME \/ \E o \in Op, plan \in Plans \cup {NoReservation} : DecideStep(s, o, plan)
               \/ \E exception \in {"Failure", "BudgetExhausted"} : DecideRefused(s, exception)
        PROVE  Frame
    <2>1. Turn(s) /\ running = NoRuntime
      BY <1>4, CallMoves DEF DecideStep, DecideRefused, Call
    <2>2. \A q \in Sessions \ {s} : /\ driver'[q] = driver[q] /\ baseline'[q] = baseline[q]
                                    /\ count'[q] = count[q] /\ own'[q] = own[q]
      BY <1>4 DEF DecideStep, DecideRefused, Leave, SessionTyped
    <2> QED
      BY <2>1, <2>2 DEF Turn, Untouched
  <1> QED
    BY <1>2, <1>3, <1>4 DEF Drive

\* execute() in its own place.
LEMMA DriveOwn ==
  ASSUME SessionInv, [Next]_vars, NEW s \in Sessions, Drive(s)
  PROVE  Station(s)'
  <1>0. /\ TypeOK /\ ControlTyped /\ Station(s) /\ s \in Runtimes
        /\ own[s] \subseteq Op /\ baseline[s] \in 0..MaxOps /\ count[s] \in 0..MaxOps
    BY SessionAssumption
       DEF SessionInv, SessionTyped, Stations, RuntimeInv, StoreInv, AuthorityInv
  <1> USE DEF SessionInv, SessionTyped
  <1>1. ASSUME Enter(s) PROVE Station(s)'
    <2>1. /\ pc'[s] = "idle" /\ running' = NoRuntime /\ Pending' = {}
          /\ CompletedOperations' = CompletedOperations /\ baseline'[s] = CompletedOperations
          /\ own'[s] = {} /\ count'[s] = 0 /\ driver'[s] \in {"deciding", "closing"}
      BY <1>0, <1>1 DEF Enter, Station, runtimeVars, task, vars, Pending, CompletedOperations
    <2>2. CompletedOperations \in 0..MaxOps
      BY OpsCounted DEF CompletedOperations
    <2>3. Evaluated(s)' = 0
      BY <2>1, FS_EmptySet DEF Evaluated
    <2> QED
      BY <2>1, <2>2, <2>3, MaxOpsAssumption DEF Station
  <1>2. ASSUME NEW o \in Op, NEW plan \in Plans \cup {NoReservation}, DecideStep(s, o, plan)
        PROVE  Station(s)'
    <2>1. /\ Pending = {} /\ count[s] = Evaluated(s) /\ baseline[s] <= CompletedOperations
          /\ \A p \in own[s] : stage[p] # "none"
      BY <1>0, <1>2 DEF DecideStep, Station
    <2>2. stage[o] = "none" /\ stage' = [stage EXCEPT ![o] = "inference"]
      BY <1>2 DEF DecideStep, Begin, Start, Fresh
    <2>3. /\ driver'[s] = "stepping" /\ pc'[s] = "notify_started" /\ op'[s] = o
          /\ rejected'[s] = 0 /\ own'[s] = own[s] \cup {o} /\ baseline'[s] = baseline[s]
          /\ count'[s] = count[s]
      BY <1>0, <1>2 DEF DecideStep, Begin, ControlTyped
    <2>4. own'[s] \ {op'[s]} = own[s]
      BY <2>1, <2>2, <2>3
    <2>5. \A p \in own[s] : stage'[p] = stage[p] /\ stage'[p] \in {"completed", "failed"}
      BY <1>0, <2>1, <2>2, NothingOpen DEF TypeOK
    <2>6. {p \in own'[s] \ {op'[s]} : stage'[p] = "completed"} = {p \in own[s] : stage[p] = "completed"}
      BY <2>4, <2>5
    <2>7. UnderWay(s)'
      BY <2>1, <2>3, <2>4, <2>5, <2>6 DEF UnderWay, Evaluated
    <2>8. baseline[s] <= CompletedOperations'
      BY <1>0, <2>1, CompletedGrow, MaxOpsAssumption
    <2>9. stage'[o] # "none"
      BY <1>0, <2>2 DEF TypeOK
    <2> QED
      BY <2>3, <2>5, <2>7, <2>8, <2>9 DEF Station, Keeps
  <1>3. ASSUME NEW exception, Leave(s, exception), pc'[s] = "idle", running' = NoRuntime,
               UNCHANGED stage, driver[s] \in {"deciding", "stepping"}
        PROVE  Station(s)'
    <2>1. /\ driver'[s] = "closing" /\ own'[s] = own[s] /\ baseline'[s] = baseline[s]
          /\ CompletedOperations' = CompletedOperations
      BY <1>3 DEF Leave, CompletedOperations
    <2> QED
      BY <1>0, <1>3, <2>1 DEF Station
  <1>4. ASSUME NEW exception \in {"Failure", "BudgetExhausted"}, DecideRefused(s, exception)
        PROVE  Station(s)'
    BY <1>0, <1>3, <1>4 DEF DecideRefused, BeginRefused, End, ControlTyped, vars
  <1>5. ASSUME DecideFails(s) \/ StepFailed(s) PROVE Station(s)'
    <2>1. Keeps(s) /\ driver[s] \in {"deciding", "stepping"} /\ pc[s] = "idle"
          /\ UNCHANGED runtimeVars
      BY <1>0, <1>5 DEF DecideFails, StepFailed, Keeps, Station
    <2>2. pc'[s] = "idle" /\ running' = NoRuntime /\ UNCHANGED stage
      BY <1>0, <2>1 DEF Station, runtimeVars, task, vars
    <2> QED
      BY <1>3, <1>5, <2>1, <2>2 DEF DecideFails, StepFailed
  <1>6. ASSUME StepReturned(s) PROVE Station(s)'
    <2>1. /\ Keeps(s) /\ pc[s] = "idle" /\ driver[s] = "stepping" /\ UNCHANGED runtimeVars
          /\ Pending = {} /\ Evaluated(s) = count[s] + 1
      BY <1>0, <1>6 DEF StepReturned, Keeps, Station, Over
    <2>2. pc'[s] = "idle" /\ running' = NoRuntime /\ UNCHANGED stage
      BY <1>0, <2>1 DEF Station, runtimeVars, task, vars
    <2>3. ASSUME driver' = [driver EXCEPT ![s] = "deciding"], UNCHANGED <<baseline, raised, own>>
          PROVE  Station(s)'
      <3>1. /\ Pending' = {} /\ Evaluated(s)' = Evaluated(s) /\ count'[s] = count[s] + 1
            /\ CompletedOperations' = CompletedOperations
            /\ driver'[s] = "deciding"
        BY <1>0, <1>6, <2>1, <2>2, <2>3
           DEF StepReturned, Pending, Evaluated, CompletedOperations
      <3> QED
        BY <1>0, <2>1, <2>2, <2>3, <3>1 DEF Station
    <2> QED
      BY <1>3, <1>6, <2>1, <2>2, <2>3 DEF StepReturned
  <1>7. ASSUME StepRejected(s) PROVE Station(s)'
    <2>1. /\ Keeps(s) /\ pc[s] = "idle" /\ driver[s] = "stepping" /\ UNCHANGED runtimeVars
          /\ Pending = {} /\ Evaluated(s) = count[s]
      BY <1>0, <1>7 DEF StepRejected, Keeps, Station, Over, NotReady, CheckReady
    <2>2. pc'[s] = "idle" /\ running' = NoRuntime /\ UNCHANGED stage
      BY <1>0, <2>1 DEF Station, runtimeVars, task, vars
    <2>3. /\ Pending' = {} /\ Evaluated(s)' = Evaluated(s) /\ count' = count
          /\ CompletedOperations' = CompletedOperations
          /\ driver'[s] = "deciding" /\ UNCHANGED <<baseline, own>>
      BY <1>7, <2>1, <2>2 DEF StepRejected, Pending, Evaluated, CompletedOperations
    <2> QED
      BY <1>0, <2>1, <2>2, <2>3 DEF Station
  <1>8. ASSUME DecideStop(s) PROVE Station(s)'
    <2>1. /\ pc'[s] = "idle" /\ Pending = {} /\ count[s] = Evaluated(s) /\ UNCHANGED stage
          /\ driver'[s] = "ended" /\ outcome' = [kind |-> "stopped", completed_steps |-> count[s]]
          /\ UNCHANGED own
      BY <1>0, <1>8 DEF DecideStop, Finish, Station, task
    <2>2. outcome' # NoOutcome
      BY <1>0, <2>1, SessionAssumption, OutcomeAssumption DEF Termination
    <2>3. Pending' = {} /\ Evaluated(s)' = Evaluated(s)
      BY <2>1 DEF Pending, Evaluated
    <2> QED
      BY <1>0, <2>1, <2>2, <2>3 DEF Station, Keeps
  <1>9. ASSUME NEW kind \in Kinds(raised[s]), Close(s, kind) PROVE Station(s)'
    <2>1. /\ pc'[s] = "idle" /\ UNCHANGED <<stage, own>> /\ driver'[s] \in {"ended", "refused"}
          /\ baseline[s] <= CompletedOperations
      BY <1>0, <1>9 DEF Close, Finish, Station, task, vars
    <2>2. kind \in {"budget_exhausted", "timed_out", "cancelled", "failed"}
      BY DEF Kinds
    <2>3. CompletedOperations - baseline[s] \in 0..MaxOps
      <3>1. CompletedOperations \in 0..MaxOps
        BY OpsCounted DEF CompletedOperations
      <3> QED
        BY <1>0, <2>1, <3>1, MaxOpsAssumption
    <2>4. driver'[s] = "ended" =>
             outcome' = [kind |-> kind, completed_steps |-> CompletedOperations - baseline[s]]
      BY <1>0, <1>9 DEF Close, Finish
    <2>5. driver'[s] = "ended" => outcome' # NoOutcome /\ outcome'.kind # "stopped"
      BY <2>2, <2>3, <2>4, SessionAssumption, OutcomeAssumption DEF Termination
    <2> QED
      BY <1>0, <2>1, <2>5 DEF Station, Keeps
  <1> QED
    BY <1>1, <1>2, <1>4, <1>5, <1>6, <1>7, <1>8, <1>9 DEF Drive

-----------------------------------------------------------------------------
(* The invariant *)

\* The counts and marks of the sessions keep their types.
LEMMA StepSessionTyped ==
  ASSUME SessionInv, [Next]_vars, [SessionNext]_sessionVars
  PROVE  SessionTyped'
  <1> USE DEF SessionInv, SessionTyped
  <1>0. CompletedOperations \in 0..MaxOps /\ 0 \in 0..MaxOps
    BY OpsCounted, MaxOpsAssumption DEF CompletedOperations
  <1>1. ASSUME UNCHANGED session PROVE SessionTyped'
    BY <1>1 DEF session
  <1>2. ASSUME NEW s \in Sessions, NEW exception \in Error, Leave(s, exception)
        PROVE  UNCHANGED count => SessionTyped'
    BY <1>2 DEF Leave, Driver
  <1>3. \A exception \in AppErrors \cup {"Failure", "BudgetExhausted", NotReady} :
           exception \in Error
    BY AppAssumption DEF NotReady, Error
  <1>4. ASSUME NEW s \in Sessions, Enter(s) PROVE SessionTyped'
    BY <1>0, <1>3, <1>4 DEF Enter, Driver, Error
  <1>5. ASSUME NEW s \in Sessions, NEW o \in Op, NEW plan \in Plans \cup {NoReservation},
               DecideStep(s, o, plan)
        PROVE  SessionTyped'
    BY <1>5 DEF DecideStep, Driver
  <1>6. ASSUME NEW s \in Sessions,
               \/ \E exception \in {"Failure", "BudgetExhausted"} : DecideRefused(s, exception)
               \/ DecideFails(s)
        PROVE  SessionTyped'
    BY <1>2, <1>3, <1>6 DEF DecideRefused, DecideFails
  <1>7. ASSUME NEW s \in Sessions,
               \/ DecideStop(s) \/ StepRejected(s)
               \/ \E kind \in Kinds(raised[s]) : Close(s, kind)
        PROVE  SessionTyped'
    BY <1>7 DEF DecideStop, StepRejected, Close, Driver
  <1>8. ASSUME NEW s \in Sessions, StepFailed(s) PROVE SessionTyped'
    <2>1. RuntimeInv /\ s \in Runtimes
      BY SessionAssumption
    <2>2. error[s] \in Error /\ NotReady \in Error
      BY <2>1 DEF RuntimeInv, ControlTyped, NotReady, Error
    <2> QED
      BY <1>2, <1>8, <2>2 DEF StepFailed
  <1>9. ASSUME NEW s \in Sessions, StepReturned(s) PROVE SessionTyped'
    <2>1. Evaluated(s) = count[s] + 1
      BY <1>9 DEF StepReturned, Stations, Station, Over
    <2>2. Evaluated(s) \in 0..MaxOps
      BY OpsCounted DEF Evaluated
    <2>3. count' \in [Sessions -> 0..MaxOps]
      BY <1>9, <2>1, <2>2 DEF StepReturned
    <2>4. CASE driver' = [driver EXCEPT ![s] = "deciding"] /\ UNCHANGED <<baseline, raised, own>>
      BY <2>3, <2>4 DEF Driver
    <2>5. ASSUME NEW exception \in AppErrors, Leave(s, exception) PROVE SessionTyped'
      BY <1>3, <2>3, <2>5 DEF Leave, Driver
    <2> QED
      BY <1>9, <2>4, <2>5 DEF StepReturned
  <1>10. ASSUME NEW s \in Sessions, Drive(s) PROVE SessionTyped'
    BY <1>4, <1>5, <1>6, <1>7, <1>8, <1>9, <1>10 DEF Drive
  <1>11. ASSUME SessionCrash PROVE SessionTyped'
    BY <1>11 DEF SessionCrash, Driver
  <1>12. ASSUME (\E r \in Runtimes : Other(r)) \/ SessionAppFinish \/ (Time /\ UNCHANGED session)
                \/ UNCHANGED sessionVars
         PROVE  UNCHANGED session
    BY <1>12 DEF Other, SessionAppFinish, sessionVars
  <1> QED
    BY <1>1, <1>10, <1>11, <1>12 DEF SessionNext

\* The application, the clock and the process.
LEMMA OutsideStations ==
  ASSUME SessionInv, [Next]_vars, NEW s \in Sessions,
         SessionAppFinish \/ (Time /\ UNCHANGED session) \/ SessionCrash \/ UNCHANGED sessionVars
  PROVE  Station(s)'
  <1>0. Station(s) /\ own[s] \subseteq Op /\ s \in Runtimes /\ TypeOK
    BY SessionAssumption
       DEF SessionInv, Stations, SessionTyped, RuntimeInv, StoreInv, AuthorityInv
  <1>1. ASSUME SessionAppFinish \/ (Time /\ UNCHANGED session) \/ UNCHANGED sessionVars
        PROVE  Station(s)'
    <2>1. /\ Untouched(s) /\ UNCHANGED <<stage, running>>
          /\ outcome' = outcome \/ outcome = NoOutcome
      BY <1>1 DEF SessionAppFinish, AppFinish, Finish, RequireOpen, Time, Tick, sessionVars,
         runtimeVars, vars, task, session, Untouched
    <2> QED
      BY <1>0, <2>1, Still
  <1>2. ASSUME SessionCrash PROVE Station(s)'
    <2>1. /\ driver'[s] = "idle" /\ pc'[s] = "idle" /\ own'[s] = own[s]
      BY <1>0, <1>2 DEF SessionCrash, Crash
    <2>2. \A o \in own[s] : stage'[o] # "none"
      BY <1>0, BegunStays DEF Station
    <2> QED
      BY <2>1, <2>2 DEF Station, Keeps
  <1> QED
    BY <1>1, <1>2

\* The first state satisfies the invariant.
LEMMA InitSession == SessionInit => SessionInv
  <1> SUFFICES ASSUME SessionInit PROVE SessionInv
    OBVIOUS
  <1>1. RuntimeInv
    BY InitRuntime DEF SessionInit
  <1>2. SessionTyped
    BY MaxOpsAssumption DEF SessionInit, SessionTyped, Driver, Error
  <1>3. Stations
    BY SessionAssumption DEF SessionInit, RuntimeInit, Stations, Station, Keeps
  <1> QED
    BY <1>1, <1>2, <1>3 DEF SessionInv

\* Every step preserves the invariant.
LEMMA StepSession == SessionInv /\ [SessionNext]_sessionVars => SessionInv'
  <1> SUFFICES ASSUME SessionInv, [SessionNext]_sessionVars PROVE SessionInv'
    OBVIOUS
  <1>1. RuntimeInv /\ [RuntimeNext]_runtimeVars
    BY SessionAllowed DEF SessionInv
  <1>2. [Next]_vars /\ RuntimeInv'
    BY <1>1, StepAllowed, StepStore, StepControl DEF RuntimeInv, Control
  <1>3. SessionTyped'
    BY <1>2, StepSessionTyped
  <1>4. ASSUME NEW s \in Sessions PROVE Station(s)'
    <2>1. ASSUME NEW q \in Sessions, Drive(q), s # q PROVE Station(s)'
      <3>1. /\ TypeOK /\ ControlTyped /\ SessionTyped /\ Station(s)
            /\ s \in Runtimes /\ q \in Runtimes
            /\ own[s] \subseteq Op /\ baseline[s] \in 0..MaxOps /\ op[s] \in Op \cup {0}
        BY SessionAssumption
           DEF SessionInv, SessionTyped, Stations, RuntimeInv, StoreInv, AuthorityInv, ControlTyped
      <3>2. Untouched(s) /\ (running = NoRuntime \/ UNCHANGED <<stage, running>>)
        BY <2>1, <3>1, DriveMoves
      <3>3. ~Keeps(s)
        BY <2>1 DEF Drive, Alone
      <3>4. pc[s] = "notify_done" => running = s
        BY <3>1 DEF Station, UnderWay
      <3>5. pc[s] = "notify_done" => UNCHANGED <<running, stage>>
        BY <3>1, <3>2, <3>4, RuntimeAssumption
      <3> QED
        BY <1>2, <3>1, <3>2, <3>3, <3>5, Bystander
    <2>2. ASSUME NEW q \in Sessions, Drive(q) PROVE Station(s)'
      BY <1>2, <2>1, <2>2, DriveOwn
    <2>3. ASSUME NEW r \in Runtimes, Other(r) PROVE Station(s)'
      BY <1>2, <2>3, OtherStations
    <2> QED
      BY <1>2, <2>2, <2>3, OutsideStations DEF SessionNext
  <1> QED
    BY <1>2, <1>3, <1>4 DEF SessionInv, Stations

\* The invariant holds of every behaviour of the sessions and their rivals.
LEMMA SessionInvariant == SessionSpec => []SessionInv
  BY InitSession, StepSession, PTL DEF SessionSpec

-----------------------------------------------------------------------------
(* What follows *)

\* Sessions and their rivals use the runtimes as Runtime lets them: what is proved of
\* RuntimeSpec, and of Spec, holds of them.
THEOREM UsesRuntime == SessionSpec => RuntimeSpec
  <1>1. SessionInit => RuntimeInit
    BY DEF SessionInit
  <1>2. SessionInv /\ [SessionNext]_sessionVars => [RuntimeNext]_runtimeVars
    BY SessionAllowed
  <1> QED
    BY <1>1, <1>2, SessionInvariant, PTL DEF SessionSpec, RuntimeSpec

\* Sessions, their rivals, recoveries, cancellations and crashes together keep the promise
\* of a run.
THEOREM KeepPromise == SessionSpec => ImplementsPromise
  BY UsesRuntime, UsesJournal, Implements, PTL

\* The journal of a run that sessions and their rivals drive is all that was proved of it.
THEOREM KeepJournal ==
  SessionSpec =>
     /\ [](CommitChain /\ BudgetRespected /\ GuardedDispatch)
     /\ [](OutputBounded /\ NoModelRequestAfterExposure /\ UsageSummary)
     /\ EffectNeverForgotten /\ UnknownEffectBlocks /\ TerminalFrozen
     /\ ObservationIsLastReturned
  <1>1. SessionSpec => Spec
    BY UsesRuntime, UsesJournal, PTL
  <1>2. Spec => [](CommitChain /\ BudgetRespected /\ GuardedDispatch)
    BY Published, WithinLimits, Authorised, PTL
  <1>3. Spec => [](OutputBounded /\ NoModelRequestAfterExposure /\ UsageSummary)
    BY Bounded, Contained, Summarised, PTL
  <1>4. Spec => /\ EffectNeverForgotten /\ UnknownEffectBlocks /\ TerminalFrozen
                /\ ObservationIsLastReturned
    BY NeverForgotten, UnknownBlocks, Terminal, Observes, PTL
  <1> QED
    BY <1>1, <1>2, <1>3, <1>4, PTL

\* What was proved of runtimes that share a run holds of those that sessions drive.
THEOREM KeepRuntimes ==
  SessionSpec =>
     /\ [](EffectAtMostOnce /\ RejectionHadNoEffect /\ ReportedBeforeUse /\ EventsTellTruth)
     /\ ClosedOperationStaysClosed
  BY UsesRuntime, EffectOnce, Rejections, Reported, Truthful, Closed, PTL

\* The sessions are type correct, and a count never exceeds the operations.
THEOREM SessionTyping == SessionSpec => []SessionTypeOK
  <1>1. SessionInv => SessionTypeOK
    BY DEF SessionInv, SessionTyped, RuntimeInv, StoreInv, AuthorityInv, ControlTyped,
       HistoryTyped, RuntimeTypeOK, SessionTypeOK
  <1> QED
    BY <1>1, SessionInvariant, PTL

\* execute() asks its policy on a settled run, with the exact number of its evaluated steps.
THEOREM SettledRun == SessionSpec => []PolicySeesSettledRun
  <1>1. SessionInv => PolicySeesSettledRun
    BY DEF SessionInv, Stations, Station, PolicySeesSettledRun
  <1> QED
    BY <1>1, SessionInvariant, PTL

\* A session that stops leaves nothing pending, and records what it evaluated.
THEOREM ExactStop == SessionSpec => []StopIsExact
  <1>1. SessionInv => StopIsExact
    BY DEF SessionInv, Stations, Station, StopIsExact
  <1> QED
    BY <1>1, SessionInvariant, PTL
=============================================================================
