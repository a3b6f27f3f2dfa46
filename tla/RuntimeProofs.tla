---------------------------- MODULE RuntimeProofs ----------------------------
(***************************************************************************)
(* What Runtime guarantees for any number of runtimes that share a run:    *)
(* they use the journal as RunStore lets them, so its theorems hold of     *)
(* them, and no effect is started twice.                                   *)
(***************************************************************************)
EXTENDS Runtime, RunStepProofs

-----------------------------------------------------------------------------
(* The journal, with what Runtime needs of it *)

\* there are no more accepted states than operations
Numbered == \A r \in 1..Len(commits) : r <= commits[r].operation

StoreInv == HistoryInv /\ AuthorityInv /\ Numbered

\* The first state satisfies the invariant of the journal.
LEMMA InitStore == Init => StoreInv
  <1>1. Init => Numbered
    BY DEF Init, Numbered
  <1> QED
    BY <1>1, InitHistory, InitAuthority DEF StoreInv

\* A transaction leaves the accepted states, or adds one.
LEMMA CommitsGrow ==
  ASSUME [Next]_vars
  PROVE  \/ UNCHANGED commits
         \/ \E o \in Op : commits' = Append(commits, [operation |-> o, base |-> base[o]])
  <1> DEFINE Grows == \/ UNCHANGED commits
                      \/ \E o \in Op :
                            commits' = Append(commits, [operation |-> o, base |-> base[o]])
  <1>1. ASSUME NEW o \in Op, NEW evaluation \in Evaluation, Complete(o, evaluation)
        PROVE  Grows
    BY <1>1 DEF Complete
  <1>2. ASSUME NEW o \in Op, NEW b \in Revision, NEW plan \in Plans \cup {NoReservation},
               NEW required \in SUBSET Guard, Start(o, b, plan, required)
        PROVE  UNCHANGED commits
    BY <1>2 DEF Start
  <1>3. ASSUME NEW o \in Op, \E usage \in Reports : RecordUsage(o, usage) PROVE UNCHANGED commits
    BY <1>3 DEF RecordUsage
  <1>4. ASSUME NEW o \in Op, Proposed(o) \/ Failed(o) \/ AbandonUndispatched(o)
        PROVE  UNCHANGED commits
    BY <1>4 DEF Proposed, Failed, AbandonUndispatched
  <1>5. ASSUME NEW o \in Op, \E g \in Guard, allowed \in BOOLEAN : RecordGuard(o, g, allowed)
        PROVE  UNCHANGED commits
    BY <1>5 DEF RecordGuard
  <1>6. ASSUME NEW o \in Op, \E event \in EventStage : RecordEvent(o, event)
        PROVE  UNCHANGED commits
    BY <1>6 DEF RecordEvent
  <1>7. ASSUME NEW o \in Op, \E observes, external \in BOOLEAN : Dispatch(o, observes, external)
        PROVE  UNCHANGED commits
    BY <1>7 DEF Dispatch
  <1>8. ASSUME NEW o \in Op, \E result \in Output : Returned(o, result) PROVE UNCHANGED commits
    BY <1>8 DEF Returned
  <1>9. ASSUME (\E value \in Outcome : Finish(value)) \/ Tick \/ Reopen \/ UNCHANGED vars
        PROVE  UNCHANGED commits
    BY <1>9 DEF Finish, Tick, Reopen, vars
  <1>10. Grows
    BY <1>1, <1>2, <1>3, <1>4, <1>5, <1>6, <1>7, <1>8, <1>9 DEF Next
  <1> QED
    BY <1>10

\* Every transaction preserves the invariant of the journal.
LEMMA StepStore == StoreInv /\ [Next]_vars => StoreInv'
  <1> SUFFICES ASSUME StoreInv, [Next]_vars PROVE StoreInv'
    OBVIOUS
  <1>1. HistoryInv' /\ AuthorityInv'
    BY StepHistory, StepAuthority DEF StoreInv
  <1>2. /\ Len(commits) \in Nat /\ Len(commits') \in Nat
        /\ \A r \in 1..Len(commits') : commits'[r].operation \in Op
    <2> DEFINE S == [operation : Op, base : Revision]
    <2>1. commits \in Seq(S) /\ commits' \in Seq(S)
      BY <1>1 DEF StoreInv, AuthorityInv, TypeOK
    <2>2. \A row \in S : row.operation \in Op
      OBVIOUS
    <2> HIDE DEF S
    <2>3. Len(commits) \in Nat /\ Len(commits') \in Nat
          /\ \A r \in 1..Len(commits') : commits'[r] \in S
      BY <2>1
    <2> QED
      BY <2>2, <2>3
  <1>3. commits \in Seq([operation : Op, base : Revision])
    BY DEF StoreInv, AuthorityInv, TypeOK
  <1>4. CASE UNCHANGED commits
    BY <1>1, <1>4 DEF StoreInv, Numbered
  <1>5. ASSUME NEW o \in Op, commits' = Append(commits, [operation |-> o, base |-> base[o]])
        PROVE  Numbered'
    <2> DEFINE row == [operation |-> o, base |-> base[o]]
    <2>1. base[o] \in Revision
      BY DEF StoreInv, AuthorityInv, TypeOK
    <2>2. row \in [operation : Op, base : Revision]
      BY <2>1
    <2>3. /\ Len(commits') = Len(commits) + 1
          /\ \A r \in 1..Len(commits) : commits'[r] = commits[r]
      <3> HIDE DEF row
      <3> QED
        BY <1>3, <1>5, <2>2 DEF row
    <2>4. \A r \in 1..Len(commits') : r > 1 => commits'[r - 1].operation < commits'[r].operation
      BY <1>1 DEF HistoryInv, CommitChain
    <2>5. ASSUME NEW r \in 1..Len(commits') PROVE r <= commits'[r].operation
      <3>1. CASE r <= Len(commits)
        BY <1>2, <2>3, <3>1 DEF StoreInv, Numbered
      <3>2. CASE r = Len(commits) + 1 /\ r > 1
        <4>1. /\ r - 1 \in 1..Len(commits) /\ r - 1 <= commits'[r - 1].operation
              /\ commits'[r - 1].operation < commits'[r].operation
              /\ commits'[r - 1].operation \in Op /\ commits'[r].operation \in Op
          BY <1>2, <2>3, <2>4, <3>2 DEF StoreInv, Numbered
        <4> QED
          BY <1>2, <4>1, MaxOpsAssumption DEF Op
      <3>3. CASE r = 1
        BY <1>2, <3>3, MaxOpsAssumption DEF Op
      <3> QED
        BY <1>2, <2>3, <3>1, <3>2, <3>3
    <2> QED
      BY <2>5 DEF Numbered
  <1> QED
    BY <1>1, <1>4, <1>5, CommitsGrow DEF StoreInv

\* The revision a step reads is one the journal may have.
LEMMA RevisionTyped == StoreInv => CurrentRevision \in Revision
  <1> SUFFICES ASSUME StoreInv PROVE Len(commits) \in Revision
    BY DEF CurrentRevision
  <1>1. /\ Len(commits) \in Nat
        /\ \A r \in 1..Len(commits) : commits[r].operation \in Op
    BY CommitTyped DEF StoreInv, AuthorityInv
  <1>2. CASE Len(commits) = 0
    BY <1>2, MaxOpsAssumption DEF Revision
  <1>3. CASE Len(commits) > 0
    BY <1>1, <1>3, MaxOpsAssumption DEF StoreInv, Numbered, Revision, Op
  <1> QED
    BY <1>1, <1>2, <1>3

-----------------------------------------------------------------------------
(* The inductive invariant *)

Requesting  == {"notify_started", "generating", "proposing"}
Authorising == {"notify_inference", "validating", "checking", "notify_guard", "dispatching"}
Acting      == {"notify_dispatched", "executing"}
Stepping    == PC \ {"idle", "reevaluating"}

ControlTyped ==
    /\ running \in Runtimes \cup {NoRuntime}
    /\ pc \in [Runtimes -> PC]
    /\ op \in [Runtimes -> Op \cup {0}]
    /\ asking \in [Runtimes -> 0..Len(GuardOrder)]
    /\ at \in [Runtimes -> {StageAt[p] : p \in DOMAIN StageAt} \cup {"none"}]
    /\ error \in [Runtimes -> Error]
    /\ rejected \in [Runtimes -> Op \cup {0}]

HistoryTyped == effects \in [Op -> Nat] /\ received \subseteq Op

\* a report arrived, and did not break its plan
Sound(o) == inference_usage[o] # NoUsage /\ o \notin Breached

\* an attempt that ended before its dispatch had no effect and will have none
Harmless(r) == at[r] \in {"inference", "validation"}

\* where a task is, its operation can only be in a few stages: nobody else moves it but a
\* recovery, which closes what has no effect and completes what has returned
Place(r) ==
    /\ pc[r] # "idle" => op[r] \in Op /\ stage[op[r]] # "none"
    /\ pc[r] \in Requesting => stage[op[r]] \in {"inference", "failed"}
    /\ pc[r] = "proposing" => Sound(op[r])
    /\ pc[r] \in Authorising => stage[op[r]] \in {"proposed", "failed"}
    /\ pc[r] \in Acting => stage[op[r]] = "dispatched"
    /\ pc[r] = "notify_dispatched" => effects[op[r]] = 0
    /\ pc[r] = "failing" /\ Harmless(r) => stage[op[r]] \in {"inference", "proposed", "failed"}
    /\ pc[r] = "notify_failed" /\ Harmless(r) => stage[op[r]] = "failed"
    /\ rejected[r] # 0 => stage[rejected[r]] = "failed"

Places == \A r \in Runtimes : Place(r)

\* two steps never work on one operation
Apart == \A r, q \in Runtimes :
            r # q /\ pc[r] \in Stepping /\ pc[q] \in Stepping => op[r] # op[q]

\* an effect is counted against its reservation, and a proposal against its report
Accounted(o) ==
    /\ effects[o] <= IF <<o, "tool">> \in reservations THEN 1 ELSE 0
    /\ stage[o] \in {"proposed", "dispatched", "returned", "completed"} => Sound(o)

AllAccounted == \A o \in Op : Accounted(o)

RuntimeInv ==
    StoreInv /\ ControlTyped /\ HistoryTyped /\ Places /\ Apart /\ AllAccounted

-----------------------------------------------------------------------------
(* Every step is one the journal allows *)

\* What a task does when it raises leaves the journal, or records an event in it.
LEMMA EmitsStore ==
  ASSUME StoreInv, NEW r \in Runtimes, op[r] \in Op, NEW event \in EventStage,
         Emits(r, event) \/ EmitRaises(r, event)
  PROVE  [Next]_vars
  BY DEF Emits, EmitRaises, Next

\* The calls of a runtime.
LEMMA CallStore == \A r \in Runtimes : RuntimeInv /\ Call(r) => [Next]_vars
  <1> SUFFICES ASSUME NEW r \in Runtimes, RuntimeInv, Call(r) PROVE [Next]_vars
    OBVIOUS
  <1>1. ASSUME NEW o \in Op, NEW plan \in Plans \cup {NoReservation}, Begin(r, o, plan)
        PROVE  Next
    <2>1. CurrentRevision \in Revision
      BY RevisionTyped DEF RuntimeInv
    <2> QED
      BY <1>1, <2>1 DEF Begin, Next
  <1>2. ASSUME NEW o \in Op, RecoverUndispatched(r, o) PROVE Next
    BY <1>2 DEF RecoverUndispatched, Next
  <1>3. ASSUME (\E exception \in {"Failure", "BudgetExhausted"} : BeginRefused(r, exception))
               \/ (\E o \in Op : RecoverReturned(r, o))
        PROVE  UNCHANGED vars
    BY <1>3 DEF BeginRefused, RecoverReturned
  <1> QED
    BY <1>1, <1>2, <1>3 DEF Call

\* What a task does between two awaits.
LEMMA SliceStore == \A r \in Runtimes : RuntimeInv /\ Slice(r) => [Next]_vars
  <1> SUFFICES ASSUME NEW r \in Runtimes, RuntimeInv, Slice(r) PROVE [Next]_vars
    OBVIOUS
  <1>0. pc[r] # "idle" => op[r] \in Op
    BY DEF RuntimeInv, Places, Place
  <1>1. StoreInv
    BY DEF RuntimeInv
  <1>2. ASSUME NotifyStarted(r) PROVE [Next]_vars
    BY <1>0, <1>1, <1>2, EmitsStore, EventAssumption DEF NotifyStarted, Runs
  <1>3. ASSUME Propose(r) PROVE [Next]_vars
    BY <1>0, <1>3 DEF Propose, Runs, Next
  <1>4. ASSUME NotifyInference(r) PROVE [Next]_vars
    BY <1>0, <1>1, <1>4, EmitsStore, EventAssumption DEF NotifyInference, Runs
  <1>5. ASSUME Validate(r) PROVE [Next]_vars
    BY <1>5 DEF Validate
  <1>6. ASSUME NotifyGuard(r) PROVE [Next]_vars
    BY <1>0, <1>1, <1>6, EmitsStore, EventAssumption DEF NotifyGuard, Runs
  <1>7. ASSUME NEW observes \in BOOLEAN, NEW external \in BOOLEAN,
               DispatchTool(r, observes, external)
        PROVE  [Next]_vars
    BY <1>0, <1>7 DEF DispatchTool, Runs, Next
  <1>8. ASSUME NotifyDispatched(r) PROVE [Next]_vars
    BY <1>0, <1>1, <1>8, EmitsStore, EventAssumption DEF NotifyDispatched, Runs, Emits
  <1>9. ASSUME NotifyReturned(r) PROVE [Next]_vars
    BY <1>0, <1>1, <1>9, EmitsStore, EventAssumption DEF NotifyReturned, Runs
  <1>10. ASSUME NotifyDone(r) PROVE [Next]_vars
    BY <1>0, <1>1, <1>10, EmitsStore, EventAssumption DEF NotifyDone, Runs
  <1>11. ASSUME RecordFailure(r) PROVE [Next]_vars
    BY <1>0, <1>11 DEF RecordFailure, Runs, Next
  <1>12. ASSUME NotifyFailed(r) PROVE [Next]_vars
    BY <1>0, <1>12, EventAssumption DEF NotifyFailed, Runs, Next
  <1> QED
    BY <1>2, <1>3, <1>4, <1>5, <1>6, <1>7, <1>8, <1>9, <1>10, <1>11, <1>12 DEF Slice

\* What a task does when its await ends.
LEMMA ResumeStore == \A r \in Runtimes : RuntimeInv /\ (Resume(r) \/ Interrupt(r)) => [Next]_vars
  <1> SUFFICES ASSUME NEW r \in Runtimes, RuntimeInv, Resume(r) \/ Interrupt(r)
               PROVE  [Next]_vars
    OBVIOUS
  <1>0. pc[r] # "idle" => op[r] \in Op
    BY DEF RuntimeInv, Places, Place
  <1>1. ASSUME NEW usage \in Reports, NEW exception, Generate(r, usage, exception)
        PROVE  [Next]_vars
    BY <1>0, <1>1 DEF Generate, Runs, Next
  <1>2. ASSUME NEW allowed \in BOOLEAN, Check(r, allowed) PROVE [Next]_vars
    <2>1. CASE UNCHANGED vars
      BY <2>1
    <2>2. CASE RecordGuard(op[r], GuardOrder[asking[r]], allowed)
      <3>1. GuardOrder[asking[r]] \in Guard
        BY <2>2 DEF RuntimeInv, StoreInv, AuthorityInv, TypeOK, RecordGuard, CanRecordGuard
      <3> QED
        BY <1>0, <1>2, <2>2, <3>1 DEF Check, Runs, Next
    <2> QED
      BY <1>2, <2>1, <2>2 DEF Check
  <1>3. ASSUME NEW result \in Output, Execute(r, result) PROVE [Next]_vars
    BY <1>0, <1>3 DEF Execute, Runs, Next
  <1>4. ASSUME NEW evaluation \in Evaluation, Evaluate(r, evaluation) \/ Reevaluate(r, evaluation)
        PROVE  [Next]_vars
    BY <1>0, <1>4 DEF Evaluate, Reevaluate, Runs, Next
  <1>5. ASSUME NEW exception, GenerateFails(r, exception) \/ AwaitFails(r, exception)
                              \/ RecoverFails(r, exception) \/ Cancel(r)
        PROVE  [Next]_vars
    BY <1>5 DEF GenerateFails, AwaitFails, RecoverFails, Cancel
  <1> QED
    BY <1>1, <1>2, <1>3, <1>4, <1>5 DEF Resume, Interrupt

\* Every step of the runtimes, the application and the process is one of the journal.
LEMMA StepAllowed == RuntimeInv /\ [RuntimeNext]_runtimeVars => [Next]_vars
  <1> SUFFICES ASSUME RuntimeInv, [RuntimeNext]_runtimeVars PROVE [Next]_vars
    OBVIOUS
  <1>1. ASSUME NEW value \in Outcome, AppFinish(value) PROVE Next
    BY <1>1 DEF AppFinish, Next
  <1>2. ASSUME Time \/ Crash PROVE Next
    BY <1>2 DEF Time, Crash, Next
  <1>3. CASE UNCHANGED runtimeVars
    BY <1>3 DEF runtimeVars
  <1> QED
    BY <1>1, <1>2, <1>3, CallStore, SliceStore, ResumeStore DEF RuntimeNext

-----------------------------------------------------------------------------
(* The control of one task *)

\* a step of r is nobody else's
OnlyTask(r) == \A q \in Runtimes \ {r} :
    pc'[q] = pc[q] /\ op'[q] = op[q] /\ at'[q] = at[q] /\ rejected'[q] = rejected[q]

\* An exception inside the try block.
LEMMA Raised ==
  ASSUME ControlTyped, NEW r \in Runtimes, pc[r] \in DOMAIN StageAt, NEW exception \in Error,
         Raise(r, exception)
  PROVE  /\ ControlTyped' /\ OnlyTask(r)
         /\ pc'[r] = "failing" /\ at'[r] = StageAt[pc[r]]
         /\ op'[r] = op[r] /\ rejected'[r] = rejected[r]
  <1>1. StageAt[pc[r]] \in {StageAt[p] : p \in DOMAIN StageAt}
    OBVIOUS
  <1>2. 0 \in 0..Len(GuardOrder)
    BY GuardAssumption
  <1>3. "failing" \in PC
    BY DEF PC
  <1> HIDE DEF StageAt, Error
  <1> QED
    BY <1>1, <1>2, <1>3 DEF Raise, ControlTyped, OnlyTask

\* The task goes on to another point.
LEMMA Went ==
  ASSUME ControlTyped, NEW r \in Runtimes, NEW point \in PC, Goto(r, point),
         asking' \in [Runtimes -> 0..Len(GuardOrder)]
  PROVE  /\ ControlTyped' /\ OnlyTask(r)
         /\ pc'[r] = point /\ UNCHANGED <<op, at, rejected>>
  BY DEF Goto, ControlTyped, OnlyTask

\* The call ends.
LEMMA Ended ==
  ASSUME ControlTyped, NEW r \in Runtimes, NEW exception \in Error, End(r, exception),
         rejected' \in [Runtimes -> Op \cup {0}],
         \A q \in Runtimes \ {r} : rejected'[q] = rejected[q]
  PROVE  ControlTyped' /\ OnlyTask(r) /\ pc'[r] = "idle"
  <1>1. "idle" \in PC
    BY DEF PC
  <1> QED
    BY <1>1 DEF End, ControlTyped, OnlyTask

-----------------------------------------------------------------------------
(* Steps that leave the tables alone *)

\* what the invariant reads of the journal, and of the effects
Tables == <<stage, reservations, output_reservations, inference_usage, effects>>

Control == ControlTyped /\ HistoryTyped /\ Places /\ Apart /\ AllAccounted

\* A step of r that moves only r, to a place that its operation is in.
LEMMA QuietStep ==
  ASSUME Control, ControlTyped', HistoryTyped', NEW r \in Runtimes, OnlyTask(r),
         UNCHANGED Tables, Place(r)',
         pc'[r] \in Stepping => pc[r] \in Stepping /\ op'[r] = op[r]
  PROVE  Control'
  <1>1. \A o \in Op : (Sound(o) <=> Sound(o)') /\ (Accounted(o) <=> Accounted(o)')
    BY DEF Tables, Sound, Accounted, Breached, Mismatched, Overrun, Planned
  <1>2. ASSUME NEW q \in Runtimes \ {r} PROVE Place(q)'
    <2>1. /\ pc'[q] = pc[q] /\ op'[q] = op[q] /\ at'[q] = at[q] /\ rejected'[q] = rejected[q]
          /\ Place(q)
      BY DEF OnlyTask, Control, Places
    <2>2. pc[q] = "proposing" => op[q] \in Op
      BY <2>1 DEF Place
    <2> QED
      BY <1>1, <2>1, <2>2 DEF Place, Harmless, Tables
  <1>3. Apart'
    BY DEF Control, Apart, OnlyTask
  <1> QED
    BY <1>1, <1>2, <1>3 DEF Control, Places, AllAccounted

\* An exception in a step that leaves the tables alone.
LEMMA QuietRaise ==
  ASSUME Control, HistoryTyped', NEW r \in Runtimes, pc[r] \in DOMAIN StageAt,
         NEW exception \in Error, Raise(r, exception), UNCHANGED Tables
  PROVE  Control'
  <1>1. /\ ControlTyped' /\ OnlyTask(r)
        /\ pc'[r] = "failing" /\ at'[r] = StageAt[pc[r]]
        /\ op'[r] = op[r] /\ rejected'[r] = rejected[r]
    BY Raised DEF Control
  <1>2. pc[r] \in Stepping /\ pc[r] # "idle"
    BY DEF Stepping, PC, StageAt
  <1>3. Place(r)
    BY DEF Control, Places
  <1>4. at'[r] \in {"inference", "validation"} => pc[r] \in {"generating", "proposing", "validating"}
    BY <1>1 DEF StageAt
  <1>5. Place(r)'
    BY <1>1, <1>2, <1>3, <1>4 DEF Place, Harmless, Tables, Requesting, Authorising, Acting
  <1> QED
    BY <1>1, <1>2, <1>5, QuietStep DEF Control

\* A step that leaves the tables alone and stays in the same part of step().
LEMMA QuietGo ==
  ASSUME Control, HistoryTyped', NEW r \in Runtimes, NEW point \in PC, Goto(r, point),
         asking' \in [Runtimes -> 0..Len(GuardOrder)], UNCHANGED Tables,
         \/ pc[r] \in Requesting /\ point \in Requesting \ {"proposing"}
         \/ pc[r] \in Authorising /\ point \in Authorising
         \/ pc[r] = "notify_returned" /\ point = "evaluating"
  PROVE  Control'
  <1>1. ControlTyped' /\ OnlyTask(r) /\ pc'[r] = point /\ UNCHANGED <<op, at, rejected>>
    BY Went DEF Control
  <1>2. pc[r] \in Stepping /\ pc[r] # "idle"
    BY DEF Stepping, PC, StageAt, Requesting, Authorising
  <1>3. Place(r)
    BY DEF Control, Places
  <1>4. Place(r)'
    BY <1>1, <1>2, <1>3 DEF Place, Harmless, Tables, Requesting, Authorising, Acting
  <1> QED
    BY <1>1, <1>2, <1>4, QuietStep

\* A call that ends in a step that leaves the tables alone.
LEMMA QuietEnd ==
  ASSUME Control, HistoryTyped', NEW r \in Runtimes, NEW exception \in Error, End(r, exception),
         UNCHANGED Tables, rejected' \in [Runtimes -> Op \cup {0}],
         \A q \in Runtimes \ {r} : rejected'[q] = rejected[q],
         rejected'[r] # 0 => stage[rejected'[r]] = "failed"
  PROVE  Control'
  <1>1. ControlTyped' /\ OnlyTask(r) /\ pc'[r] = "idle"
    BY Ended DEF Control
  <1>2. Place(r)'
    BY <1>1 DEF Place, Tables, Requesting, Authorising, Acting
  <1>3. pc'[r] \notin Stepping
    BY <1>1 DEF Stepping
  <1> QED
    BY <1>1, <1>2, <1>3, QuietStep

\* The transactions that write none of these tables.
LEMMA QuietTransactions ==
  ASSUME \/ \E o, event : RecordEvent(o, event)
         \/ \E o, g, allowed : RecordGuard(o, g, allowed)
         \/ \E value : Finish(value)
         \/ Tick \/ Reopen \/ UNCHANGED vars
  PROVE  UNCHANGED <<stage, reservations, output_reservations, inference_usage>>
  BY DEF RecordEvent, RecordGuard, Finish, Tick, Reopen, vars, tokens

\* An event that is recorded, or raises.
LEMMA EmitQuiet ==
  ASSUME Control, NEW r \in Runtimes, pc[r] \in DOMAIN StageAt, NEW event
  PROVE  /\ Emits(r, event) /\ UNCHANGED effects => HistoryTyped' /\ UNCHANGED Tables
         /\ EmitRaises(r, event) => Control'
  <1>1. ASSUME Emits(r, event), UNCHANGED effects PROVE HistoryTyped' /\ UNCHANGED Tables
    BY <1>1, QuietTransactions DEF Emits, Tables, HistoryTyped, Control
  <1>2. ASSUME EmitRaises(r, event) PROVE Control'
    <2>1. PICK exception \in Error : Raise(r, exception)
      BY <1>2, AppAssumption DEF EmitRaises, Error
    <2>2. HistoryTyped' /\ UNCHANGED Tables
      BY <1>2, QuietTransactions DEF EmitRaises, Tables, HistoryTyped, Control, history
    <2> QED
      BY <2>1, <2>2, QuietRaise
  <1> QED
    BY <1>1, <1>2

\* The events of step() before the last one, and the checks between them.
LEMMA QuietSlices ==
  \A r \in Runtimes :
     Control /\ (NotifyStarted(r) \/ NotifyInference(r) \/ Validate(r) \/ NotifyGuard(r)
                 \/ NotifyReturned(r)) => Control'
  <1> SUFFICES ASSUME NEW r \in Runtimes, Control PROVE
         (NotifyStarted(r) \/ NotifyInference(r) \/ Validate(r) \/ NotifyGuard(r)
                 \/ NotifyReturned(r)) => Control'
    OBVIOUS
  <1> DEFINE Typed == asking' \in [Runtimes -> 0..Len(GuardOrder)]
  <1>0. UNCHANGED asking => Typed
    BY DEF Control, ControlTyped
  <1>1. ASSUME NotifyStarted(r) PROVE Control'
    <2>1. pc[r] = "notify_started" /\ pc[r] \in DOMAIN StageAt /\ "generating" \in PC
      BY <1>1 DEF NotifyStarted, Runs, StageAt, PC
    <2> QED
      BY <1>0, <1>1, <2>1, EmitQuiet, QuietGo DEF NotifyStarted, Requesting
  <1>2. ASSUME NotifyInference(r) PROVE Control'
    <2>1. pc[r] = "notify_inference" /\ pc[r] \in DOMAIN StageAt /\ "validating" \in PC
      BY <1>2 DEF NotifyInference, Runs, StageAt, PC
    <2> QED
      BY <1>0, <1>2, <2>1, EmitQuiet, QuietGo DEF NotifyInference, Authorising
  <1>3. ASSUME NEW i \in Nat, i > 0, Ask(r, i), pc[r] \in Authorising, HistoryTyped',
               UNCHANGED Tables
        PROVE  Control'
    <2>1. Len(GuardOrder) \in Nat
      BY GuardAssumption
    <2>2. Typed
      BY <1>3, <2>1 DEF Ask, Control, ControlTyped
    <2>3. PICK point \in {"checking", "dispatching"} : Goto(r, point)
      BY <1>3 DEF Ask
    <2>4. point \in PC /\ point \in Authorising
      BY <2>3 DEF PC, StageAt, Authorising
    <2> QED
      BY <1>3, <2>2, <2>3, <2>4, QuietGo
  <1>4. ASSUME Validate(r) PROVE Control'
    <2>1. pc[r] = "validating" /\ pc[r] \in DOMAIN StageAt /\ pc[r] \in Authorising
      BY <1>4 DEF Validate, Runs, StageAt, Authorising
    <2>2. HistoryTyped' /\ UNCHANGED Tables
      BY <1>4, QuietTransactions DEF Validate, history, Tables, Control, HistoryTyped
    <2>3. CASE Ask(r, 1)
      BY <1>3, <2>1, <2>2, <2>3
    <2>4. ASSUME NEW exception \in {"ProposalRejected", "BudgetExhausted", "Failure"},
                 Raise(r, exception)
          PROVE  Control'
      BY <2>1, <2>2, <2>4, QuietRaise DEF Error
    <2> QED
      BY <1>4, <2>3, <2>4 DEF Validate
  <1>5. ASSUME NotifyGuard(r) PROVE Control'
    <2>1. pc[r] = "notify_guard" /\ pc[r] \in DOMAIN StageAt /\ pc[r] \in Authorising
      BY <1>5 DEF NotifyGuard, Runs, StageAt, Authorising
    <2>2. asking[r] + 1 \in Nat /\ asking[r] + 1 > 0
      BY DEF Control, ControlTyped
    <2>3. PICK event \in {"guard_allowed", "guard_denied"} :
             \/ /\ Emits(r, event) /\ UNCHANGED effects
                /\ Ask(r, asking[r] + 1) \/ Raise(r, "Failure")
             \/ EmitRaises(r, event)
      BY <1>5 DEF NotifyGuard
    <2> QED
      BY <1>3, <2>1, <2>2, <2>3, EmitQuiet, QuietRaise DEF Error
  <1>6. ASSUME NotifyReturned(r) PROVE Control'
    <2>1. pc[r] = "notify_returned" /\ pc[r] \in DOMAIN StageAt /\ "evaluating" \in PC
      BY <1>6 DEF NotifyReturned, Runs, StageAt, PC
    <2>2. \/ /\ Emits(r, "tool_returned") /\ UNCHANGED effects
             /\ Raise(r, "BudgetExhausted") \/ (Goto(r, "evaluating") /\ UNCHANGED asking)
          \/ EmitRaises(r, "tool_returned")
      BY <1>6 DEF NotifyReturned
    <2> QED
      BY <1>0, <2>1, <2>2, EmitQuiet, QuietRaise, QuietGo DEF Error
  <1> QED
    BY <1>1, <1>2, <1>4, <1>5, <1>6

\* The end of step(), and the starts and ends of calls that touch no table.
LEMMA QuietCalls ==
  \A r \in Runtimes :
     Control /\ (NotifyDone(r) \/ NotifyFailed(r)
                 \/ (\E exception \in {"Failure", "BudgetExhausted"} : BeginRefused(r, exception))
                 \/ (\E o \in Op : RecoverReturned(r, o))
                 \/ (\E exception \in AppErrors \cup {"CancelledError"} :
                        RecoverFails(r, exception))) => Control'
  <1> SUFFICES ASSUME NEW r \in Runtimes, Control PROVE
         (NotifyDone(r) \/ NotifyFailed(r)
                 \/ (\E exception \in {"Failure", "BudgetExhausted"} : BeginRefused(r, exception))
                 \/ (\E o \in Op : RecoverReturned(r, o))
                 \/ (\E exception \in AppErrors \cup {"CancelledError"} :
                        RecoverFails(r, exception))) => Control'
    OBVIOUS
  <1>0. rejected \in [Runtimes -> Op \cup {0}] /\ error[r] \in Error
    BY DEF Control, ControlTyped
  <1>1. ASSUME UNCHANGED rejected
        PROVE  /\ rejected' \in [Runtimes -> Op \cup {0}]
               /\ \A q \in Runtimes \ {r} : rejected'[q] = rejected[q]
               /\ rejected'[r] # 0 => stage[rejected'[r]] = "failed"
    BY <1>0, <1>1 DEF Control, Places, Place
  <1>2. ASSUME NotifyDone(r) PROVE Control'
    <2>1. pc[r] \in DOMAIN StageAt
      BY <1>2 DEF NotifyDone, Runs, StageAt
    <2>2. PICK event \in {"committed", "observed"} :
             \/ Emits(r, event) /\ End(r, "none") /\ UNCHANGED <<rejected, effects>>
             \/ EmitRaises(r, event)
      BY <1>2 DEF NotifyDone
    <2> QED
      BY <1>1, <2>1, <2>2, EmitQuiet, QuietEnd DEF Error
  <1>3. ASSUME NotifyFailed(r) PROVE Control'
    <2>1. HistoryTyped' /\ UNCHANGED Tables
      BY <1>3, QuietTransactions DEF NotifyFailed, history, Tables, Control, HistoryTyped
    <2>2. /\ pc[r] = "notify_failed" /\ op[r] \in Op
          /\ Harmless(r) => stage[op[r]] = "failed"
      BY <1>3 DEF NotifyFailed, Runs, Control, Places, Place
    <2>3. CASE UNCHANGED rejected
      <3>1. PICK exception \in Error : End(r, exception)
        BY <1>0, <1>3 DEF NotifyFailed, Error
      <3> QED
        BY <1>1, <2>1, <2>3, <3>1, QuietEnd
    <2>4. CASE rejected' = [rejected EXCEPT ![r] = IF Certified(r) THEN op[r] ELSE 0]
               /\ End(r, error[r])
      <3>1. Certified(r) => Harmless(r)
        BY DEF Certified, Harmless
      <3>2. /\ rejected' \in [Runtimes -> Op \cup {0}]
            /\ \A q \in Runtimes \ {r} : rejected'[q] = rejected[q]
            /\ rejected'[r] # 0 => stage[rejected'[r]] = "failed"
        BY <1>0, <2>2, <2>4, <3>1
      <3> QED
        BY <1>0, <2>1, <2>4, <3>2, QuietEnd
    <2> QED
      BY <1>3, <2>3, <2>4 DEF NotifyFailed
  <1>4. ASSUME NEW exception \in {"Failure", "BudgetExhausted"}, BeginRefused(r, exception)
        PROVE  Control'
    <2>1. HistoryTyped' /\ UNCHANGED Tables
      BY <1>4, QuietTransactions DEF BeginRefused, history, Tables, Control, HistoryTyped
    <2>2. /\ rejected' \in [Runtimes -> Op \cup {0}]
          /\ \A q \in Runtimes \ {r} : rejected'[q] = rejected[q]
          /\ rejected'[r] = 0
      BY <1>0, <1>4 DEF BeginRefused
    <2> QED
      BY <1>4, <2>1, <2>2, QuietEnd DEF BeginRefused, Error
  <1>5. ASSUME NEW o \in Op, RecoverReturned(r, o) PROVE Control'
    <2>1. HistoryTyped' /\ UNCHANGED Tables
      BY <1>5, QuietTransactions DEF RecoverReturned, history, Tables, Control, HistoryTyped
    <2>2. /\ ControlTyped' /\ OnlyTask(r)
          /\ pc'[r] = "reevaluating" /\ op'[r] = o /\ stage[o] = "returned"
          /\ UNCHANGED rejected
      <3>1. "reevaluating" \in PC
        BY DEF PC
      <3> QED
        BY <1>5, <3>1 DEF RecoverReturned, Control, ControlTyped, OnlyTask
    <2>3. Place(r)' /\ pc'[r] \notin Stepping
      BY <1>1, <2>1, <2>2 DEF Place, Tables, Stepping, Requesting, Authorising, Acting
    <2> QED
      BY <2>1, <2>2, <2>3, QuietStep
  <1>6. ASSUME NEW exception \in AppErrors \cup {"CancelledError"}, RecoverFails(r, exception)
        PROVE  Control'
    <2>1. HistoryTyped' /\ UNCHANGED Tables
      BY <1>6, QuietTransactions DEF RecoverFails, history, Tables, Control, HistoryTyped
    <2>2. exception \in Error
      BY AppAssumption DEF Error
    <2> QED
      BY <1>1, <1>6, <2>1, <2>2, QuietEnd DEF RecoverFails
  <1> QED
    BY <1>2, <1>3, <1>4, <1>5, <1>6

\* Awaits that end without a write of these tables.
LEMMA QuietAwaits ==
  \A r \in Runtimes :
     Control /\ (\/ \E exception \in AppErrors \cup {"InferenceRejected"} : GenerateFails(r, exception)
                 \/ \E allowed \in BOOLEAN : Check(r, allowed)
                 \/ \E exception \in AppErrors \cup {"InferenceRejected", "ProposalRejected"} :
                       AwaitFails(r, exception)
                 \/ Cancel(r)) => Control'
  <1> SUFFICES ASSUME NEW r \in Runtimes, Control PROVE
         (\/ \E exception \in AppErrors \cup {"InferenceRejected"} : GenerateFails(r, exception)
          \/ \E allowed \in BOOLEAN : Check(r, allowed)
          \/ \E exception \in AppErrors \cup {"InferenceRejected", "ProposalRejected"} :
                AwaitFails(r, exception)
          \/ Cancel(r)) => Control'
    OBVIOUS
  <1>1. ASSUME NEW exception \in Error, Raise(r, exception), UNCHANGED <<vars, history>>,
               pc[r] \in {"generating", "checking", "executing", "evaluating"}
        PROVE  Control'
    <2>1. pc[r] \in DOMAIN StageAt
      BY <1>1 DEF StageAt
    <2>2. HistoryTyped' /\ UNCHANGED Tables
      BY <1>1, QuietTransactions DEF history, Tables, Control, HistoryTyped
    <2> QED
      BY <1>1, <2>1, <2>2, QuietRaise
  <1>2. ASSUME NEW exception \in AppErrors \cup {"InferenceRejected", "ProposalRejected"},
               GenerateFails(r, exception) \/ AwaitFails(r, exception)
        PROVE  Control'
    <2>1. exception \in Error
      BY AppAssumption DEF Error
    <2> QED
      BY <1>1, <1>2, <2>1 DEF GenerateFails, AwaitFails, Runs
  <1>3. ASSUME Cancel(r) PROVE Control'
    BY <1>1, <1>3 DEF Cancel, Runs, Error
  <1>4. ASSUME NEW allowed \in BOOLEAN, Check(r, allowed) PROVE Control'
    <2>1. pc[r] = "checking" /\ pc[r] \in DOMAIN StageAt /\ "notify_guard" \in PC
      BY <1>4 DEF Check, Runs, StageAt, PC
    <2>2. HistoryTyped' /\ UNCHANGED Tables
      BY <1>4, QuietTransactions DEF Check, history, Tables, Control, HistoryTyped
    <2>3. \/ Goto(r, "notify_guard") /\ UNCHANGED asking
          \/ Raise(r, "Failure")
      BY <1>4 DEF Check
    <2>4. UNCHANGED asking => asking' \in [Runtimes -> 0..Len(GuardOrder)]
      BY DEF Control, ControlTyped
    <2> QED
      BY <2>1, <2>2, <2>3, <2>4, QuietRaise, QuietGo DEF Error, Authorising
  <1> QED
    BY <1>1, <1>2, <1>3, <1>4

\* The application, the clock and the process.
LEMMA QuietOutside ==
  Control /\ ((\E value \in Outcome : AppFinish(value)) \/ Time \/ Crash
              \/ UNCHANGED runtimeVars) => Control'
  <1> SUFFICES ASSUME Control PROVE
         ((\E value \in Outcome : AppFinish(value)) \/ Time \/ Crash
              \/ UNCHANGED runtimeVars) => Control'
    OBVIOUS
  <1>0. ASSUME UNCHANGED Tables
        PROVE  \A o \in Op : (Sound(o) <=> Sound(o)') /\ (Accounted(o) <=> Accounted(o)')
    BY <1>0 DEF Tables, Sound, Accounted, Breached, Mismatched, Overrun, Planned
  <1>1. ASSUME UNCHANGED Tables, UNCHANGED <<task, history>> PROVE Control'
    <2>1. ControlTyped' /\ HistoryTyped' /\ Apart' /\ AllAccounted'
      BY <1>0, <1>1 DEF Control, ControlTyped, HistoryTyped, Apart, AllAccounted, task, history
    <2>2. ASSUME NEW r \in Runtimes PROVE Place(r)'
      <3>1. Place(r) /\ UNCHANGED <<pc, op, at, rejected>>
        BY <1>1 DEF Control, Places, task
      <3>2. pc[r] = "proposing" => op[r] \in Op
        BY <3>1 DEF Place
      <3> QED
        BY <1>0, <1>1, <3>1, <3>2 DEF Place, Harmless, Tables
    <2> QED
      BY <2>1, <2>2 DEF Control, Places
  <1>2. ASSUME (\E value \in Outcome : AppFinish(value)) \/ Time \/ UNCHANGED runtimeVars
        PROVE  Control'
    <2>1. UNCHANGED Tables /\ UNCHANGED <<task, history>>
      BY <1>2, QuietTransactions DEF AppFinish, Time, runtimeVars, history, Tables
    <2> QED
      BY <1>1, <2>1
  <1>3. ASSUME Crash PROVE Control'
    <2>1. UNCHANGED Tables
      BY <1>3, QuietTransactions DEF Crash, Tables
    <2>2. "idle" \in PC /\ "none" \in Error /\ 0 \in 0..Len(GuardOrder)
      BY GuardAssumption DEF PC, Error
    <2>3. ControlTyped' /\ HistoryTyped'
      BY <1>3, <2>2 DEF Crash, Control, ControlTyped, HistoryTyped
    <2>4. Apart' /\ Places'
      BY <1>3 DEF Crash, Apart, Places, Place, Stepping, Requesting, Authorising, Acting
    <2> QED
      BY <1>0, <2>1, <2>3, <2>4 DEF Control, AllAccounted
  <1> QED
    BY <1>2, <1>3

-----------------------------------------------------------------------------
(* Steps that move an operation *)

\* the tables of every other operation are left alone
TouchesOnly(o) == \A p \in Op \ {o} :
    /\ stage'[p] = stage[p] /\ effects'[p] = effects[p]
    /\ inference_usage'[p] = inference_usage[p]
    /\ output_reservations'[p] = output_reservations[p]
    /\ <<p, "tool">> \in reservations' <=> <<p, "tool">> \in reservations

\* the operation is new, or it is the one of a step of r, or a recovery closes it
Moves(r, o) ==
    /\ stage'[o] # "none"
    /\ stage[o] = "failed" => stage'[o] = "failed"
    /\ \/ stage[o] = "none"
       \/ o = op[r] /\ pc[r] \in Stepping
       \/ /\ \/ stage[o] \in Undispatched /\ stage'[o] = "failed"
             \/ stage[o] = "returned" /\ stage'[o] = "completed"
          /\ effects'[o] = effects[o]
          /\ inference_usage'[o] = inference_usage[o]
          /\ output_reservations'[o] = output_reservations[o]

\* A report is sound for as long as its rows are what they were.
LEMMA SoundKept ==
  ASSUME NEW o \in Op, inference_usage'[o] = inference_usage[o],
         output_reservations'[o] = output_reservations[o]
  PROVE  Sound(o)' <=> Sound(o)
  BY DEF Sound, Breached, Mismatched, Overrun, Planned

\* A step of r that moves an operation finds every other task where it may be.
LEMMA MovingStep ==
  ASSUME Control, ControlTyped', HistoryTyped', NEW r \in Runtimes, OnlyTask(r),
         NEW o \in Op, TouchesOnly(o), Moves(r, o), Place(r)', Accounted(o)',
         pc'[r] \in Stepping => \/ pc[r] \in Stepping /\ op'[r] = op[r]
                                \/ op'[r] = o /\ stage[o] = "none"
  PROVE  Control'
  <1>1. ASSUME NEW p \in Op, p # o PROVE Accounted(p)' /\ (Sound(p)' <=> Sound(p))
    <2>1. Sound(p)' <=> Sound(p)
      BY <1>1, SoundKept DEF TouchesOnly
    <2>2. Accounted(p)
      BY DEF Control, AllAccounted
    <2> QED
      BY <1>1, <2>1, <2>2 DEF Accounted, TouchesOnly
  <1>2. ASSUME NEW q \in Runtimes, q # r PROVE Place(q)'
    <2>1. /\ pc'[q] = pc[q] /\ op'[q] = op[q] /\ at'[q] = at[q] /\ rejected'[q] = rejected[q]
          /\ Place(q) /\ pc[q] \in PC /\ rejected[q] \in Op \cup {0}
      BY <1>2 DEF OnlyTask, Control, Places, ControlTyped
    <2>2. rejected[q] # 0 => stage'[rejected[q]] = "failed"
      BY <2>1 DEF Place, TouchesOnly, Moves
    <2>3. CASE pc[q] = "idle"
      BY <2>1, <2>2, <2>3 DEF Place, Requesting, Authorising, Acting
    <2>4. CASE pc[q] # "idle" /\ op[q] # o
      <3>1. /\ op[q] \in Op /\ stage'[op[q]] = stage[op[q]] /\ effects'[op[q]] = effects[op[q]]
            /\ Sound(op[q])' <=> Sound(op[q])
        BY <1>1, <2>1, <2>4 DEF Place, TouchesOnly
      <3> QED
        BY <2>1, <2>2, <2>4, <3>1 DEF Place, Harmless
    <2>5. CASE pc[q] = "reevaluating" /\ op[q] = o
      BY <2>1, <2>2, <2>5 DEF Place, Moves, Requesting, Authorising, Acting
    <2>6. CASE pc[q] \in Stepping /\ op[q] = o
      <3>1. stage[o] # "none" /\ pc[q] # "idle"
        BY <2>1, <2>6 DEF Place, Stepping
      <3>2. ~(o = op[r] /\ pc[r] \in Stepping)
        BY <1>2, <2>6 DEF Control, Apart
      <3>3. /\ \/ stage[o] \in Undispatched /\ stage'[o] = "failed"
               \/ stage[o] = "returned" /\ stage'[o] = "completed"
            /\ effects'[o] = effects[o]
            /\ inference_usage'[o] = inference_usage[o]
            /\ output_reservations'[o] = output_reservations[o]
        BY <3>1, <3>2 DEF Moves
      <3>4. Sound(o)' <=> Sound(o)
        BY <3>3, SoundKept
      <3> QED
        BY <2>1, <2>2, <2>6, <3>1, <3>3, <3>4
           DEF Place, Harmless, Undispatched
    <2> QED
      BY <2>1, <2>3, <2>4, <2>5, <2>6 DEF Stepping
  <1>3. Apart'
    <2>1. \A q \in Runtimes : pc[q] \in Stepping => op[q] \in Op /\ stage[op[q]] # "none"
      BY DEF Control, Places, Place, Stepping
    <2> QED
      BY <2>1 DEF Control, Apart, OnlyTask
  <1> QED
    BY <1>1, <1>2, <1>3 DEF Control, Places, AllAccounted

\* The same of a step that goes on with its own operation.
LEMMA MovingOwn ==
  ASSUME Control, ControlTyped', HistoryTyped', NEW r \in Runtimes, OnlyTask(r),
         NEW o \in Op, TouchesOnly(o), Moves(r, o), Place(r)', Accounted(o)',
         pc[r] \in Stepping, op'[r] = op[r]
  PROVE  Control'
  BY MovingStep

\* step() makes its operation.
LEMMA MoveBegin ==
  ASSUME Control, TypeOK, NEW r \in Runtimes, NEW o \in Op,
         NEW plan \in Plans \cup {NoReservation}, Begin(r, o, plan)
  PROVE  Control'
  <1>1. /\ stage[o] = "none" /\ stage' = [stage EXCEPT ![o] = "inference"]
        /\ reservations' = reservations \cup {<<o, "inference">>}
        /\ output_reservations' = [output_reservations EXCEPT ![o] = plan]
        /\ UNCHANGED <<inference_usage, effects, received>>
    BY DEF Begin, Start, Fresh, history
  <1>2. "notify_started" \in PC /\ "none" \in Error
    BY DEF PC, StageAt, Error
  <1>3. ControlTyped' /\ HistoryTyped' /\ OnlyTask(r)
    BY <1>1, <1>2 DEF Begin, Control, ControlTyped, HistoryTyped, OnlyTask
  <1>4. pc'[r] = "notify_started" /\ op'[r] = o /\ rejected'[r] = 0
    BY DEF Begin, Control, ControlTyped
  <1>5. TouchesOnly(o) /\ stage'[o] = "inference"
    BY <1>1 DEF TouchesOnly, TypeOK
  <1>6. Moves(r, o) /\ Place(r)'
    BY <1>1, <1>4, <1>5 DEF Moves, Place, Requesting, Authorising, Acting
  <1>7. Accounted(o)'
    <2>1. Accounted(o)
      BY DEF Control, AllAccounted
    <2>2. <<o, "tool">> \in reservations' <=> <<o, "tool">> \in reservations
      BY <1>1
    <2> QED
      BY <1>1, <1>5, <2>1, <2>2 DEF Accounted
  <1> QED
    BY <1>1, <1>3, <1>4, <1>5, <1>6, <1>7, MovingStep

\* The adapter answers: its report is kept, and one that broke its plan goes no further.
LEMMA MoveGenerate ==
  ASSUME Control, TypeOK, NEW r \in Runtimes, NEW o \in Op, o = op[r], NEW usage \in Reports,
         NEW exception \in {"none", "Failure", "InferenceRejected", "CancelledError"},
         Generate(r, usage, exception)
  PROVE  Control'
  <1>1. /\ pc[r] = "generating" /\ pc[r] \in DOMAIN StageAt /\ o = op[r]
        /\ pc[r] \in Stepping /\ stage[o] \in {"inference", "failed"} /\ Place(r)
    BY DEF Generate, Runs, StageAt, Stepping, PC, Control, Places, Place, Requesting
  <1>2. HistoryTyped' /\ UNCHANGED effects
    BY <1>1 DEF Generate, Control, HistoryTyped
  <1>3. UNCHANGED asking => asking' \in [Runtimes -> 0..Len(GuardOrder)]
    BY DEF Control, ControlTyped
  <1>4. CASE UNCHANGED vars /\ Raise(r, "Failure")
    <2>1. UNCHANGED Tables
      BY <1>2, <1>4, QuietTransactions DEF Tables
    <2> QED
      BY <1>1, <1>2, <1>4, <2>1, QuietRaise DEF Error
  <1>5. CASE RecordUsage(o, usage)
    <2>1. /\ stage[o] = "inference" /\ UNCHANGED <<stage, reservations, output_reservations>>
          /\ inference_usage' = [inference_usage EXCEPT ![o] = usage]
      BY <1>5 DEF RecordUsage, CanRecordUsage, tokens
    <2>2. TouchesOnly(o) /\ Moves(r, o)
      BY <1>1, <1>2, <2>1 DEF TouchesOnly, Moves, TypeOK
    <2>3. Accounted(o)'
      BY <1>1, <1>2, <2>1 DEF Accounted, Control, AllAccounted
    <2>4. ASSUME NEW raised \in Error, Raise(r, raised) PROVE Control'
      <3>1. /\ ControlTyped' /\ OnlyTask(r)
            /\ pc'[r] = "failing" /\ at'[r] = StageAt[pc[r]]
            /\ op'[r] = o /\ rejected'[r] = rejected[r]
        BY <1>1, <2>4, Raised DEF Control
      <3>2. Place(r)'
        BY <1>1, <2>1, <3>1 DEF Place, Requesting, Authorising, Acting
      <3> QED
        BY <1>1, <1>2, <2>2, <2>3, <3>1, <3>2, MovingOwn
    <2>5. ASSUME Goto(r, "proposing"), UNCHANGED asking, ~BreachesPlan(o, usage)
          PROVE  Control'
      <3>1. ControlTyped' /\ OnlyTask(r) /\ pc'[r] = "proposing" /\ UNCHANGED <<op, at, rejected>>
        <4>1. "proposing" \in PC
          BY DEF PC, StageAt
        <4> QED
          BY <1>3, <2>5, <4>1, Went DEF Control
      <3>2. inference_usage'[o] = usage /\ usage # NoUsage
        BY <1>1, <2>1, TokensAssumption DEF TypeOK, Usage, NoUsage
      <3>3. Sound(o)'
        BY <1>1, <2>1, <2>5, <3>2
           DEF Sound, BreachesPlan, Breached, Mismatched, Overrun, Planned
      <3>4. Place(r)'
        BY <1>1, <2>1, <3>1, <3>3 DEF Place, Requesting, Authorising, Acting
      <3> QED
        BY <1>1, <1>2, <2>2, <2>3, <3>1, <3>4, MovingOwn
    <2>6. \/ Raise(r, "Failure") \/ (exception \in Error /\ Raise(r, exception))
          \/ Goto(r, "proposing") /\ UNCHANGED asking /\ ~BreachesPlan(o, usage)
      BY <1>5 DEF Generate, RecordUsage, Error
    <2> QED
      BY <2>4, <2>5, <2>6 DEF Error
  <1> QED
    BY <1>4, <1>5 DEF Generate

\* The proposal is kept.
LEMMA MovePropose ==
  ASSUME Control, TypeOK, NEW r \in Runtimes, NEW o \in Op, o = op[r], Propose(r)
  PROVE  Control'
  <1>1. /\ pc[r] = "proposing" /\ pc[r] \in DOMAIN StageAt /\ o = op[r]
        /\ pc[r] \in Stepping /\ Sound(o) /\ Place(r)
    BY DEF Propose, Runs, StageAt, Stepping, PC, Control, Places, Place
  <1>2. HistoryTyped' /\ UNCHANGED effects
    BY DEF Propose, history, Control, HistoryTyped
  <1>3. CASE Raise(r, "Failure") /\ UNCHANGED vars
    <2>1. UNCHANGED Tables
      BY <1>2, <1>3, QuietTransactions DEF Tables
    <2> QED
      BY <1>1, <1>2, <1>3, <2>1, QuietRaise DEF Error
  <1>4. CASE Proposed(o) /\ Goto(r, "notify_inference") /\ UNCHANGED asking
    <2>1. /\ stage[o] = "inference" /\ stage' = [stage EXCEPT ![o] = "proposed"]
          /\ UNCHANGED <<reservations, output_reservations, inference_usage>>
      BY <1>4 DEF Proposed, CanPropose, tokens
    <2>2. TouchesOnly(o) /\ stage'[o] = "proposed"
      BY <1>1, <1>2, <2>1 DEF TouchesOnly, TypeOK
    <2>3. Moves(r, o)
      BY <1>1, <2>1, <2>2 DEF Moves
    <2>4. Sound(o)'
      BY <1>1, <2>1, SoundKept
    <2>5. Accounted(o)'
      BY <1>1, <1>2, <2>1, <2>4 DEF Accounted, Control, AllAccounted
    <2>6. /\ ControlTyped' /\ OnlyTask(r) /\ pc'[r] = "notify_inference"
          /\ UNCHANGED <<op, at, rejected>>
      <3>1. "notify_inference" \in PC /\ asking' \in [Runtimes -> 0..Len(GuardOrder)]
        BY <1>4 DEF PC, StageAt, Control, ControlTyped
      <3> QED
        BY <1>4, <3>1, Went DEF Control
    <2>7. rejected[r] # 0 => rejected[r] # o /\ rejected[r] \in Op
      BY <1>1, <2>1 DEF Place, Control, ControlTyped
    <2>8. Place(r)'
      BY <1>1, <2>1, <2>2, <2>6, <2>7 DEF Place, TouchesOnly, Requesting, Authorising, Acting
    <2> QED
      BY <1>1, <1>2, <2>2, <2>3, <2>5, <2>6, <2>8, MovingOwn
  <1> QED
    BY <1>3, <1>4 DEF Propose

\* The dispatch: before it the operation had no effect, because nothing was reserved for one.
LEMMA MoveDispatch ==
  ASSUME Control, TypeOK, ReservationsFollowStage, NEW r \in Runtimes, NEW o \in Op, o = op[r],
         NEW observes \in BOOLEAN, NEW external \in BOOLEAN, DispatchTool(r, observes, external)
  PROVE  Control'
  <1>1. /\ pc[r] = "dispatching" /\ pc[r] \in DOMAIN StageAt /\ o = op[r]
        /\ pc[r] \in Stepping /\ Place(r)
    BY DEF DispatchTool, Runs, StageAt, Stepping, PC, Control, Places, Place
  <1>2. HistoryTyped' /\ UNCHANGED effects
    BY DEF DispatchTool, history, Control, HistoryTyped
  <1>3. CASE UNCHANGED vars /\ (Raise(r, "Failure") \/ Raise(r, "BudgetExhausted"))
    <2>1. UNCHANGED Tables
      BY <1>2, <1>3, QuietTransactions DEF Tables
    <2> QED
      BY <1>1, <1>2, <1>3, <2>1, QuietRaise DEF Error
  <1>4. CASE Dispatch(o, observes, external) /\ Goto(r, "notify_dispatched")
             /\ UNCHANGED asking
    <2>1. /\ stage[o] = "proposed" /\ stage' = [stage EXCEPT ![o] = "dispatched"]
          /\ reservations' = reservations \cup {<<o, "tool">>}
                               \cup (IF external THEN {<<o, "external">>} ELSE {})
          /\ UNCHANGED <<output_reservations, inference_usage>>
      BY <1>4 DEF Dispatch, CanDispatch, tokens
    <2>2. TouchesOnly(o) /\ stage'[o] = "dispatched"
      BY <1>1, <1>2, <2>1 DEF TouchesOnly, TypeOK
    <2>3. Moves(r, o)
      BY <1>1, <2>1, <2>2 DEF Moves
    <2>4. effects[o] = 0 /\ Sound(o)
      <3>1. Accounted(o) /\ effects[o] \in Nat /\ <<o, "tool">> \notin reservations
        BY <1>1, <2>1 DEF Control, AllAccounted, HistoryTyped, ReservationsFollowStage
      <3> QED
        BY <2>1, <3>1 DEF Accounted
    <2>5. Sound(o)'
      BY <1>1, <2>1, <2>4, SoundKept
    <2>6. Accounted(o)'
      BY <1>1, <1>2, <2>1, <2>4, <2>5 DEF Accounted
    <2>7. /\ ControlTyped' /\ OnlyTask(r) /\ pc'[r] = "notify_dispatched"
          /\ UNCHANGED <<op, at, rejected>>
      <3>1. "notify_dispatched" \in PC /\ asking' \in [Runtimes -> 0..Len(GuardOrder)]
        BY <1>4 DEF PC, StageAt, Control, ControlTyped
      <3> QED
        BY <1>4, <3>1, Went DEF Control
    <2>8. rejected[r] # 0 => rejected[r] # o /\ rejected[r] \in Op
      BY <1>1, <2>1 DEF Place, Control, ControlTyped
    <2>9. Place(r)'
      BY <1>1, <1>2, <2>1, <2>2, <2>4, <2>7, <2>8
         DEF Place, TouchesOnly, Requesting, Authorising, Acting
    <2> QED
      BY <1>1, <1>2, <2>2, <2>3, <2>6, <2>7, <2>9, MovingOwn
  <1> QED
    BY <1>3, <1>4 DEF DispatchTool

\* The tool starts, once.
LEMMA MoveEffect ==
  ASSUME Control, TypeOK, ReservationsFollowStage, NEW r \in Runtimes, NEW o \in Op, o = op[r],
         NotifyDispatched(r)
  PROVE  Control'
  <1>1. /\ pc[r] = "notify_dispatched" /\ pc[r] \in DOMAIN StageAt /\ o = op[r]
        /\ pc[r] \in Stepping /\ Place(r)
        /\ stage[o] = "dispatched" /\ effects[o] = 0
    BY DEF NotifyDispatched, Runs, StageAt, Stepping, PC, Control, Places, Place, Acting
  <1>2. CASE EmitRaises(r, "tool_dispatched")
    BY <1>1, <1>2, EmitQuiet
  <1>3. CASE /\ Emits(r, "tool_dispatched") /\ Goto(r, "executing") /\ UNCHANGED asking
             /\ effects' = [effects EXCEPT ![o] = @ + 1]
    <2>1. /\ UNCHANGED <<stage, reservations, output_reservations, inference_usage>>
          /\ UNCHANGED received
      BY <1>3, QuietTransactions DEF Emits
    <2>2. HistoryTyped' /\ effects'[o] = 1 /\ TouchesOnly(o)
      BY <1>1, <1>3, <2>1 DEF Control, HistoryTyped, TouchesOnly
    <2>3. Moves(r, o)
      BY <1>1, <2>1 DEF Moves
    <2>4. Accounted(o)'
      <3>1. Sound(o)'
        BY <1>1, <2>1, SoundKept DEF Control, AllAccounted, Accounted
      <3>2. <<o, "tool">> \in reservations'
        BY <1>1, <2>1 DEF ReservationsFollowStage
      <3> QED
        BY <2>2, <3>1, <3>2 DEF Accounted
    <2>5. /\ ControlTyped' /\ OnlyTask(r) /\ pc'[r] = "executing" /\ UNCHANGED <<op, at, rejected>>
      <3>1. "executing" \in PC /\ asking' \in [Runtimes -> 0..Len(GuardOrder)]
        BY <1>3 DEF PC, StageAt, Control, ControlTyped
      <3> QED
        BY <1>3, <3>1, Went DEF Control
    <2>6. Place(r)'
      BY <1>1, <2>1, <2>5 DEF Place, Requesting, Authorising, Acting
    <2> QED
      BY <1>1, <2>2, <2>3, <2>4, <2>5, <2>6, MovingOwn
  <1> QED
    BY <1>2, <1>3 DEF NotifyDispatched

\* The tool returns, and its output is kept.
LEMMA MoveExecute ==
  ASSUME Control, TypeOK, NEW r \in Runtimes, NEW o \in Op, o = op[r],
         NEW result \in Output, Execute(r, result)
  PROVE  Control'
  <1>1. pc[r] = "executing" /\ pc[r] \in Stepping /\ Place(r)
    BY DEF Execute, Runs, StageAt, Stepping, PC, Control, Places
  <1>2. HistoryTyped' /\ UNCHANGED effects
    BY DEF Execute, history, Control, HistoryTyped
  <1>3. /\ stage[o] = "dispatched" /\ stage' = [stage EXCEPT ![o] = "returned"]
        /\ UNCHANGED <<reservations, output_reservations, inference_usage>>
    BY DEF Execute, Returned, tokens
  <1>4. TouchesOnly(o) /\ stage'[o] = "returned"
    BY <1>2, <1>3 DEF TouchesOnly, TypeOK
  <1>5. Moves(r, o)
    BY <1>1, <1>3, <1>4 DEF Moves
  <1>6. Accounted(o)'
    <2>1. Sound(o)' <=> Sound(o)
      BY <1>3, SoundKept
    <2> QED
      BY <1>2, <1>3, <2>1 DEF Accounted, Control, AllAccounted
  <1>7. ControlTyped' /\ OnlyTask(r) /\ pc'[r] = "notify_returned" /\ UNCHANGED <<op, at, rejected>>
    <2>1. "notify_returned" \in PC /\ asking' \in [Runtimes -> 0..Len(GuardOrder)]
      BY DEF Execute, PC, StageAt, Control, ControlTyped
    <2> QED
      BY <2>1, Went DEF Execute, Control
  <1>8. rejected[r] # 0 => rejected[r] # o /\ rejected[r] \in Op
    BY <1>1, <1>3 DEF Place, Control, ControlTyped
  <1>9. Place(r)'
    BY <1>1, <1>3, <1>4, <1>7, <1>8 DEF Place, TouchesOnly, Requesting, Authorising, Acting
  <1> QED
    BY <1>1, <1>2, <1>4, <1>5, <1>6, <1>7, <1>9, MovingOwn

\* What complete() does to these tables.
LEMMA Completion ==
  ASSUME Control, TypeOK, NEW r \in Runtimes, NEW o \in Op, NEW evaluation \in Evaluation,
         Complete(o, evaluation), UNCHANGED effects
  PROVE  /\ stage[o] = "returned" /\ stage'[o] = "completed"
         /\ TouchesOnly(o) /\ Moves(r, o) /\ Accounted(o)'
         /\ rejected[r] # 0 => rejected[r] # o /\ rejected[r] \in Op
  <1>1. /\ stage[o] = "returned" /\ stage' = [stage EXCEPT ![o] = "completed"]
        /\ UNCHANGED <<reservations, output_reservations, inference_usage>>
    BY DEF Complete, CanComplete, tokens
  <1>2. TouchesOnly(o) /\ stage'[o] = "completed"
    BY <1>1 DEF TouchesOnly, TypeOK
  <1>3. Moves(r, o)
    BY <1>1, <1>2 DEF Moves
  <1>4. Sound(o)' <=> Sound(o)
    BY <1>1, SoundKept
  <1>5. Accounted(o)'
    BY <1>1, <1>4 DEF Accounted, Control, AllAccounted
  <1>6. rejected[r] # 0 => rejected[r] # o /\ rejected[r] \in Op
    BY <1>1 DEF Control, Places, Place, ControlTyped
  <1> QED
    BY <1>1, <1>2, <1>3, <1>5, <1>6

\* step() completes its operation, or finds it closed.
LEMMA MoveEvaluate ==
  ASSUME Control, TypeOK, NEW r \in Runtimes, NEW o \in Op, o = op[r],
         NEW evaluation \in Evaluation, Evaluate(r, evaluation)
  PROVE  Control'
  <1>1. /\ pc[r] = "evaluating" /\ pc[r] \in DOMAIN StageAt
        /\ pc[r] \in Stepping /\ Place(r)
    BY DEF Evaluate, Runs, StageAt, Stepping, PC, Control, Places
  <1>2. HistoryTyped' /\ UNCHANGED effects
    BY DEF Evaluate, history, Control, HistoryTyped
  <1>3. CASE UNCHANGED vars /\ Raise(r, Refusal)
    <2>1. UNCHANGED Tables /\ Refusal \in Error
      BY <1>2, <1>3, QuietTransactions DEF Tables, Refusal, Error
    <2> QED
      BY <1>1, <1>2, <1>3, <2>1, QuietRaise
  <1>4. CASE Complete(o, evaluation) /\ Goto(r, "notify_done") /\ UNCHANGED asking
    <2>1. /\ stage[o] = "returned" /\ stage'[o] = "completed"
          /\ TouchesOnly(o) /\ Moves(r, o) /\ Accounted(o)'
          /\ rejected[r] # 0 => rejected[r] # o /\ rejected[r] \in Op
      BY <1>2, <1>4, Completion
    <2>2. ControlTyped' /\ OnlyTask(r) /\ pc'[r] = "notify_done" /\ UNCHANGED <<op, at, rejected>>
      <3>1. "notify_done" \in PC /\ asking' \in [Runtimes -> 0..Len(GuardOrder)]
        BY <1>4 DEF PC, StageAt, Control, ControlTyped
      <3> QED
        BY <1>4, <3>1, Went DEF Control
    <2>3. Place(r)'
      BY <1>1, <2>1, <2>2 DEF Place, TouchesOnly, Requesting, Authorising, Acting
    <2> QED
      BY <1>1, <1>2, <2>1, <2>2, <2>3, MovingOwn
  <1> QED
    BY <1>3, <1>4 DEF Evaluate

\* recover() completes the operation it evaluated again, or finds it closed.
LEMMA MoveReevaluate ==
  ASSUME Control, TypeOK, NEW r \in Runtimes, NEW o \in Op, o = op[r],
         NEW evaluation \in Evaluation, Reevaluate(r, evaluation)
  PROVE  Control'
  <1>1. HistoryTyped' /\ UNCHANGED <<effects, rejected>> /\ Place(r)
    BY DEF Reevaluate, history, Control, HistoryTyped, Places
  <1>2. /\ rejected' \in [Runtimes -> Op \cup {0}]
        /\ \A q \in Runtimes \ {r} : rejected'[q] = rejected[q]
        /\ rejected'[r] # 0 => stage[rejected'[r]] = "failed"
    BY <1>1 DEF Control, ControlTyped, Place
  <1>3. CASE UNCHANGED vars /\ End(r, Refusal)
    <2>1. UNCHANGED Tables /\ Refusal \in Error
      BY <1>1, <1>3, QuietTransactions DEF Tables, Refusal, Error
    <2> QED
      BY <1>1, <1>2, <1>3, <2>1, QuietEnd
  <1>4. CASE Complete(o, evaluation) /\ End(r, "none")
    <2>1. /\ TouchesOnly(o) /\ Moves(r, o) /\ Accounted(o)'
          /\ rejected[r] # 0 => rejected[r] # o /\ rejected[r] \in Op
      BY <1>1, <1>4, Completion
    <2>2. ControlTyped' /\ OnlyTask(r) /\ pc'[r] = "idle"
      BY <1>2, <1>4, Ended DEF Error, Control
    <2>3. Place(r)' /\ pc'[r] \notin Stepping
      BY <1>1, <2>1, <2>2 DEF Place, TouchesOnly, Requesting, Authorising, Acting, Stepping
    <2> QED
      BY <1>1, <2>1, <2>2, <2>3, MovingStep
  <1> QED
    BY <1>3, <1>4 DEF Reevaluate

\* The except clause closes what had no effect.
LEMMA MoveFailure ==
  ASSUME Control, TypeOK, NEW r \in Runtimes, NEW o \in Op, o = op[r], RecordFailure(r)
  PROVE  Control'
  <1>1. pc[r] = "failing" /\ pc[r] \in Stepping /\ Place(r)
    BY DEF RecordFailure, Runs, StageAt, Stepping, PC, Control, Places
  <1>2. HistoryTyped' /\ UNCHANGED effects
    BY DEF RecordFailure, history, Control, HistoryTyped
  <1>3. /\ stage[o] # "none"
        /\ stage' = [stage EXCEPT ![o] = IF @ \in Undispatched THEN "failed" ELSE @]
        /\ UNCHANGED <<reservations, output_reservations, inference_usage>>
    BY DEF RecordFailure, Failed, tokens
  <1>4. /\ TouchesOnly(o)
        /\ stage'[o] = IF stage[o] \in Undispatched THEN "failed" ELSE stage[o]
    BY <1>2, <1>3 DEF TouchesOnly, TypeOK
  <1>5. Moves(r, o)
    BY <1>1, <1>3, <1>4 DEF Moves
  <1>6. Accounted(o)'
    <2>1. Sound(o)' <=> Sound(o)
      BY <1>3, SoundKept
    <2> QED
      BY <1>2, <1>3, <1>4, <2>1 DEF Accounted, Control, AllAccounted
  <1>7. ControlTyped' /\ OnlyTask(r) /\ pc'[r] = "notify_failed" /\ UNCHANGED <<op, at, rejected>>
    <2>1. "notify_failed" \in PC /\ asking' \in [Runtimes -> 0..Len(GuardOrder)]
      BY DEF RecordFailure, PC, StageAt, Control, ControlTyped
    <2> QED
      BY <2>1, Went DEF RecordFailure, Control
  <1>8. rejected[r] # 0 => stage'[rejected[r]] = "failed"
    BY <1>1, <1>4 DEF Place, TouchesOnly, Control, ControlTyped, Undispatched
  <1>9. Place(r)'
    BY <1>1, <1>3, <1>4, <1>7, <1>8
       DEF Place, Harmless, Undispatched, Requesting, Authorising, Acting
  <1> QED
    BY <1>1, <1>2, <1>4, <1>5, <1>6, <1>7, <1>9, MovingOwn

\* recover() closes an attempt without an effect, of whichever runtime.
LEMMA MoveAbandon ==
  ASSUME Control, TypeOK, NEW r \in Runtimes, NEW o \in Op, RecoverUndispatched(r, o)
  PROVE  Control'
  <1>1. pc[r] = "idle" /\ Place(r) /\ UNCHANGED <<task, history>>
    BY DEF RecoverUndispatched, Runs, Control, Places
  <1>2. ControlTyped' /\ HistoryTyped' /\ OnlyTask(r) /\ UNCHANGED <<effects, pc, op, at, rejected>>
    BY <1>1 DEF task, history, Control, ControlTyped, HistoryTyped, OnlyTask
  <1>3. /\ stage[o] \in Undispatched /\ stage' = [stage EXCEPT ![o] = "failed"]
        /\ UNCHANGED <<reservations, output_reservations, inference_usage>>
    BY DEF RecoverUndispatched, AbandonUndispatched, tokens
  <1>4. TouchesOnly(o) /\ stage'[o] = "failed"
    BY <1>2, <1>3 DEF TouchesOnly, TypeOK
  <1>5. Moves(r, o)
    BY <1>2, <1>3, <1>4 DEF Moves
  <1>6. Accounted(o)'
    BY <1>2, <1>3, <1>4 DEF Accounted, Control, AllAccounted
  <1>7. rejected[r] # 0 => stage'[rejected[r]] = "failed"
    BY <1>1, <1>4 DEF Place, TouchesOnly, Control, ControlTyped
  <1>8. Place(r)' /\ pc'[r] \notin Stepping
    BY <1>1, <1>2, <1>7 DEF Place, Requesting, Authorising, Acting, Stepping
  <1> QED
    BY <1>2, <1>4, <1>5, <1>6, <1>8, MovingStep

-----------------------------------------------------------------------------
(* The invariant *)

\* The first state satisfies the invariant.
LEMMA InitRuntime == RuntimeInit => RuntimeInv
  <1> SUFFICES ASSUME RuntimeInit PROVE RuntimeInv
    OBVIOUS
  <1>1. StoreInv
    BY InitStore DEF RuntimeInit
  <1>2. "idle" \in PC /\ "none" \in Error /\ 0 \in 0..Len(GuardOrder)
    BY GuardAssumption DEF PC, Error
  <1>3. ControlTyped /\ HistoryTyped
    BY <1>2 DEF RuntimeInit, ControlTyped, HistoryTyped
  <1>4. Places /\ Apart
    BY DEF RuntimeInit, Places, Place, Apart, Stepping, Requesting, Authorising, Acting
  <1>5. AllAccounted
    BY DEF RuntimeInit, Init, AllAccounted, Accounted
  <1> QED
    BY <1>1, <1>3, <1>4, <1>5 DEF RuntimeInv

\* Every step keeps the control of the tasks in order.
LEMMA StepControl == RuntimeInv /\ [RuntimeNext]_runtimeVars => Control'
  <1> SUFFICES ASSUME RuntimeInv, [RuntimeNext]_runtimeVars PROVE Control'
    OBVIOUS
  <1>0. Control /\ TypeOK /\ ReservationsFollowStage
    BY DEF RuntimeInv, Control, StoreInv, AuthorityInv
  <1>1. ASSUME NEW r \in Runtimes, pc[r] # "idle" PROVE op[r] \in Op
    BY <1>0, <1>1 DEF Control, Places, Place
  <1>2. ASSUME NEW r \in Runtimes, Call(r) PROVE Control'
    BY <1>0, <1>2, QuietCalls, MoveBegin, MoveAbandon DEF Call
  <1>3. ASSUME NEW r \in Runtimes, Slice(r) PROVE Control'
    <2>1. ASSUME Propose(r) \/ NotifyDispatched(r) \/ RecordFailure(r)
                 \/ (\E observes, external \in BOOLEAN : DispatchTool(r, observes, external))
          PROVE  Control'
      <3>1. op[r] \in Op
        BY <1>1, <2>1 DEF Propose, NotifyDispatched, RecordFailure, DispatchTool, Runs
      <3> QED
        BY <1>0, <2>1, <3>1, MovePropose, MoveEffect, MoveFailure, MoveDispatch
    <2> QED
      BY <1>0, <1>3, <2>1, QuietSlices, QuietCalls DEF Slice
  <1>4. ASSUME NEW r \in Runtimes, Resume(r) \/ Interrupt(r) PROVE Control'
    <2>1. ASSUME NEW usage \in Reports,
                 NEW exception \in {"none", "Failure", "InferenceRejected", "CancelledError"},
                 Generate(r, usage, exception)
          PROVE  Control'
      <3>1. op[r] \in Op
        BY <1>1, <2>1 DEF Generate, Runs
      <3> QED
        BY <1>0, <2>1, <3>1, MoveGenerate
    <2>2. ASSUME NEW result \in Output, Execute(r, result) PROVE Control'
      <3>1. op[r] \in Op
        BY <1>1, <2>2 DEF Execute, Runs
      <3> QED
        BY <1>0, <2>2, <3>1, MoveExecute
    <2>3. ASSUME NEW evaluation \in Evaluation,
                 Evaluate(r, evaluation) \/ Reevaluate(r, evaluation)
          PROVE  Control'
      <3>1. op[r] \in Op
        BY <1>1, <2>3 DEF Evaluate, Reevaluate, Runs
      <3> QED
        BY <1>0, <2>3, <3>1, MoveEvaluate, MoveReevaluate
    <2> QED
      BY <1>0, <1>4, <2>1, <2>2, <2>3, QuietAwaits, QuietCalls DEF Resume, Interrupt
  <1> QED
    BY <1>0, <1>2, <1>3, <1>4, QuietOutside DEF RuntimeNext

\* The invariant holds in every behaviour, and so does the specification of the journal.
LEMMA RuntimeInvariant == RuntimeSpec => []RuntimeInv
  <1>1. RuntimeInv /\ [RuntimeNext]_runtimeVars => RuntimeInv'
    BY StepAllowed, StepStore, StepControl DEF RuntimeInv, Control
  <1> QED
    BY <1>1, InitRuntime, PTL DEF RuntimeSpec

-----------------------------------------------------------------------------
(* Theorems *)

\* Every task of every runtime is where it can be.
THEOREM RuntimeTyping == RuntimeSpec => []RuntimeTypeOK
  <1>1. RuntimeInv => RuntimeTypeOK
    BY DEF RuntimeInv, StoreInv, AuthorityInv, ControlTyped, HistoryTyped, RuntimeTypeOK
  <1> QED
    BY <1>1, RuntimeInvariant, PTL

\* Runtimes use the journal only as it lets them, whatever their tasks await: every theorem
\* about Spec is one about them.
THEOREM UsesJournal == RuntimeSpec => Spec
  <1>1. RuntimeInit => Init
    BY DEF RuntimeInit
  <1> QED
    BY <1>1, RuntimeInvariant, StepAllowed, PTL DEF RuntimeSpec, Spec

\* However many runtimes share a run, and whatever fails, is cancelled, recovered or dies, a
\* tool runs at most once for an operation and never beside another.
THEOREM EffectOnce == RuntimeSpec => []EffectAtMostOnce
  <1>1. RuntimeInv => EffectAtMostOnce
    <2> SUFFICES ASSUME RuntimeInv PROVE EffectAtMostOnce
      OBVIOUS
    <2>1. TypeOK /\ OneAtATime
      BY DEF RuntimeInv, StoreInv, HistoryInv, SerialInv
    <2>2. \A o \in Op : effects[o] <= IF <<o, "tool">> \in reservations THEN 1 ELSE 0
      BY DEF RuntimeInv, AllAccounted, Accounted
    <2>3. ASSUME NEW r \in Runtimes, pc[r] = "executing"
          PROVE  op[r] \in Pending /\ stage[op[r]] = "dispatched" /\ pc[r] \in Stepping
      BY <2>3 DEF RuntimeInv, Places, Place, Acting, Pending, Unfinished, Stepping, PC, StageAt
    <2>4. \A o, p \in Pending : o = p
      BY <2>1, PendingUnique
    <2>5. ASSUME NEW r \in Runtimes, pc[r] = "executing" PROVE Pending = {op[r]}
      BY <2>3, <2>4, <2>5
    <2>6. ASSUME NEW r \in Runtimes, NEW q \in Runtimes, pc[r] = "executing", pc[q] = "executing"
          PROVE  r = q
      BY <2>3, <2>4, <2>6 DEF RuntimeInv, Apart
    <2> QED
      BY <2>2, <2>3, <2>5, <2>6 DEF EffectAtMostOnce
  <1> QED
    BY <1>1, RuntimeInvariant, PTL

\* What a step certifies as a rejected proposal had no effect, and the journal will give it
\* none.
THEOREM Rejections == RuntimeSpec => []RejectionHadNoEffect
  <1>1. RuntimeInv => RejectionHadNoEffect
    <2> SUFFICES ASSUME RuntimeInv, NEW r \in Runtimes, rejected[r] # 0
                 PROVE  stage[rejected[r]] = "failed" /\ effects[rejected[r]] = 0
      BY DEF RejectionHadNoEffect
    <2>1. rejected[r] \in Op /\ stage[rejected[r]] = "failed" /\ Accounted(rejected[r])
          /\ effects[rejected[r]] \in Nat
      BY DEF RuntimeInv, ControlTyped, HistoryTyped, Places, Place, AllAccounted
    <2>2. <<rejected[r], "tool">> \notin reservations
      BY <2>1 DEF RuntimeInv, StoreInv, AuthorityInv, ReservationsFollowStage
    <2> QED
      BY <2>1, <2>2 DEF Accounted
  <1> QED
    BY <1>1, RuntimeInvariant, PTL

\* A report is durable before the proposal it paid for, and one that broke its plan leads to
\* no effect.
THEOREM Reported == RuntimeSpec => []ReportedBeforeUse
  <1>1. RuntimeInv => ReportedBeforeUse
    BY DEF RuntimeInv, StoreInv, AuthorityInv, ReservationsFollowStage, AllAccounted, Accounted,
       Sound, ReportedBeforeUse
  <1> QED
    BY <1>1, RuntimeInvariant, PTL

\* No transaction adds to the output, the evaluation or the reservations of a closed operation.
LEMMA ClosedStore ==
  ASSUME TypeOK, [Next]_vars, NEW o \in Op, stage[o] \in {"completed", "failed"}
  PROVE  /\ output'[o] = output[o] /\ evaluations'[o] = evaluations[o]
         /\ \A k \in Kind : <<o, k>> \in reservations' <=> <<o, k>> \in reservations
  <1> DEFINE Stays ==
         /\ output'[o] = output[o] /\ evaluations'[o] = evaluations[o]
         /\ \A k \in Kind : <<o, k>> \in reservations' <=> <<o, k>> \in reservations
  <1> SUFFICES Stays
    OBVIOUS
  <1>1. ASSUME NEW p \in Op, NEW b \in Revision, NEW plan \in Plans \cup {NoReservation},
               NEW required \in SUBSET Guard, Start(p, b, plan, required)
        PROVE  Stays
    BY <1>1 DEF Start, Fresh
  <1>2. ASSUME NEW p \in Op, NEW result \in Output, Returned(p, result) PROVE Stays
    BY <1>2 DEF Returned, TypeOK
  <1>3. ASSUME NEW p \in Op, NEW observes \in BOOLEAN, NEW external \in BOOLEAN,
               Dispatch(p, observes, external)
        PROVE  Stays
    <2>1. p # o /\ UNCHANGED <<output, evaluations>>
      BY <1>3 DEF Dispatch, CanDispatch
    <2>2. reservations' = reservations \cup {<<p, "tool">>}
                           \cup (IF external THEN {<<p, "external">>} ELSE {})
      BY <1>3 DEF Dispatch
    <2> QED
      BY <2>1, <2>2
  <1>4. ASSUME NEW p \in Op, NEW evaluation \in Evaluation, Complete(p, evaluation) PROVE Stays
    BY <1>4 DEF Complete, CanComplete, TypeOK, rows
  <1>5. ASSUME UNCHANGED <<output, evaluations, reservations>> PROVE Stays
    BY <1>5
  <1>6. ASSUME NEW p \in Op, Proposed(p) \/ Failed(p) \/ AbandonUndispatched(p) PROVE Stays
    BY <1>5, <1>6 DEF Proposed, Failed, AbandonUndispatched, rows
  <1>7. ASSUME NEW p \in Op, \E g \in Guard, allowed \in BOOLEAN : RecordGuard(p, g, allowed)
        PROVE  Stays
    BY <1>5, <1>7 DEF RecordGuard, rows
  <1>8. ASSUME NEW p \in Op, \E event \in EventStage : RecordEvent(p, event) PROVE Stays
    BY <1>5, <1>8 DEF RecordEvent, rows
  <1>9. ASSUME NEW p \in Op, \E usage \in Reports : RecordUsage(p, usage) PROVE Stays
    BY <1>5, <1>9 DEF RecordUsage, rows
  <1>10. ASSUME NEW value \in Outcome, Finish(value) PROVE Stays
    BY <1>5, <1>10 DEF Finish, rows
  <1>11. ASSUME Tick \/ Reopen PROVE Stays
    BY <1>5, <1>11 DEF Tick, Reopen, rows
  <1>12. CASE UNCHANGED vars
    BY <1>5, <1>12 DEF vars, rows
  <1> HIDE DEF Stays
  <1>13. CASE Next
    <2>1. CASE Tick \/ Reopen \/ \E value \in Outcome : Finish(value)
      BY <1>10, <1>11, <2>1
    <2>2. ASSUME NEW p \in Op, \E b \in Revision, plan \in Plans \cup {NoReservation},
                                  required \in SUBSET Guard : Start(p, b, plan, required)
          PROVE  Stays
      BY <1>1, <2>2
    <2>3. ASSUME NEW p \in Op, \E result \in Output : Returned(p, result) PROVE Stays
      BY <1>2, <2>3
    <2>4. ASSUME NEW p \in Op, \E observes, external \in BOOLEAN : Dispatch(p, observes, external)
          PROVE  Stays
      BY <1>3, <2>4
    <2>5. ASSUME NEW p \in Op, \E evaluation \in Evaluation : Complete(p, evaluation) PROVE Stays
      BY <1>4, <2>5
    <2> QED
      BY <1>6, <1>7, <1>8, <1>9, <1>13, <2>1, <2>2, <2>3, <2>4, <2>5 DEF Next
  <1> QED
    BY <1>12, <1>13

\* An effect begins only where its operation is dispatched.
LEMMA EffectsBegin ==
  ASSUME RuntimeInv, [RuntimeNext]_runtimeVars, NEW o \in Op, effects'[o] # effects[o]
  PROVE  stage[o] = "dispatched"
  <1> DEFINE Begins == stage[o] = "dispatched"
  <1>1. ASSUME NEW r \in Runtimes, NotifyDispatched(r) PROVE Begins
    <2>1. op[r] \in Op /\ stage[op[r]] = "dispatched"
      BY <1>1 DEF NotifyDispatched, Runs, RuntimeInv, Places, Place, Acting
    <2>2. effects' = effects \/ effects' = [effects EXCEPT ![op[r]] = @ + 1]
      BY <1>1 DEF NotifyDispatched, EmitRaises, history
    <2> QED
      BY <2>1, <2>2 DEF RuntimeInv, HistoryTyped
  <1>2. ASSUME NEW r \in Runtimes, Call(r) PROVE UNCHANGED effects
    BY <1>2 DEF Call, BeginRefused, Begin, RecoverUndispatched, RecoverReturned, history
  <1>3. ASSUME NEW r \in Runtimes, Slice(r), ~NotifyDispatched(r) PROVE UNCHANGED effects
    <2>1. ASSUME NEW event, EmitRaises(r, event) PROVE UNCHANGED effects
      BY <2>1 DEF EmitRaises, history
    <2>2. ASSUME NotifyStarted(r) \/ NotifyInference(r) \/ NotifyGuard(r) \/ NotifyReturned(r)
                 \/ NotifyDone(r)
          PROVE  UNCHANGED effects
      BY <2>1, <2>2 DEF NotifyStarted, NotifyInference, NotifyGuard, NotifyReturned, NotifyDone
    <2> QED
      BY <1>3, <2>2 DEF Slice, Propose, Validate, DispatchTool, RecordFailure, NotifyFailed, history
  <1>4. ASSUME NEW r \in Runtimes, Resume(r) \/ Interrupt(r) PROVE UNCHANGED effects
    BY <1>4 DEF Resume, Interrupt, Generate, GenerateFails, Check, Execute, Evaluate, Reevaluate,
       AwaitFails, RecoverFails, Cancel, history
  <1>5. ASSUME (\E value \in Outcome : AppFinish(value)) \/ Time \/ Crash
               \/ UNCHANGED runtimeVars
        PROVE  UNCHANGED effects
    BY <1>5 DEF AppFinish, Time, Crash, runtimeVars, history
  <1>6. Begins
    BY <1>1, <1>2, <1>3, <1>4, <1>5 DEF RuntimeNext
  <1> QED
    BY <1>6

\* A runtime that still waits on an operation another one closed changes nothing of it.
THEOREM Closed == RuntimeSpec => ClosedOperationStaysClosed
  <1> DEFINE Kept == \A o \in Op : stage[o] \in {"completed", "failed"} =>
                /\ effects'[o] = effects[o]
                /\ output'[o] = output[o]
                /\ evaluations'[o] = evaluations[o]
                /\ \A k \in Kind : (<<o, k>> \in reservations)' = (<<o, k>> \in reservations)
  <1>1. RuntimeInv /\ [RuntimeNext]_runtimeVars => Kept
    <2> SUFFICES ASSUME RuntimeInv, [RuntimeNext]_runtimeVars, NEW o \in Op,
                        stage[o] \in {"completed", "failed"}
                 PROVE  /\ effects'[o] = effects[o]
                        /\ output'[o] = output[o]
                        /\ evaluations'[o] = evaluations[o]
                        /\ \A k \in Kind : <<o, k>> \in reservations' <=> <<o, k>> \in reservations
      OBVIOUS
    <2>1. TypeOK /\ [Next]_vars
      BY StepAllowed DEF RuntimeInv, StoreInv, AuthorityInv
    <2> QED
      BY <2>1, ClosedStore, EffectsBegin
  <1>2. RuntimeInv /\ [RuntimeNext]_runtimeVars => [Kept]_runtimeVars
    BY <1>1
  <1> QED
    BY <1>2, RuntimeInvariant, PTL DEF RuntimeSpec, ClosedOperationStaysClosed

-----------------------------------------------------------------------------
(* The events of an operation *)

\* the events step() records
Told == {"started", "inference_returned", "guard_allowed", "guard_denied", "tool_dispatched",
         "tool_returned", "committed", "observed", "effect_unknown", "failed"}

\* what makes an event true for good
Holds(o, event) ==
    CASE event = "started" -> stage[o] # "none"
      [] event = "inference_returned" -> inference_usage[o] # NoUsage
      [] event = "guard_allowed" -> \E g \in Guard : <<o, g, TRUE>> \in guard_decisions
      [] event = "guard_denied" -> \E g \in Guard : /\ <<o, g>> \in guard_requirements
                                                    /\ <<o, g, FALSE>> \in guard_decisions
      [] event = "tool_dispatched" -> stage[o] \in {"dispatched", "returned", "completed"}
      [] event = "tool_returned" -> output[o] # NoOutput
      [] event = "committed" -> stage[o] = "completed" /\ Publishes(evaluations[o])
      [] event = "observed" -> stage[o] = "completed" /\ ~Publishes(evaluations[o])
      [] event = "effect_unknown" -> /\ stage[o] = "dispatched"
                                     /\ \A r \in Runtimes : pc[r] \in Acting => op[r] # o
      [] event = "failed" -> stage[o] \in {"failed", "returned", "completed"}

Recorded == \A o \in Op, event \in EventStage :
               <<o, event>> \in lifecycle_events => event \in Told /\ Holds(o, event)

\* what a task is about to tell is true
Telling(r) ==
    /\ pc[r] = "notify_inference" => inference_usage[op[r]] # NoUsage
    /\ pc[r] = "notify_guard" =>
          /\ <<op[r], GuardOrder[asking[r]]>> \in guard_requirements
          /\ \E allowed \in BOOLEAN : <<op[r], GuardOrder[asking[r]], allowed>> \in guard_decisions
    /\ pc[r] \in {"notify_returned", "evaluating"} => stage[op[r]] \in {"returned", "completed"}
    /\ pc[r] = "notify_returned" => output[op[r]] # NoOutput
    /\ pc[r] = "notify_done" => stage[op[r]] = "completed"
    /\ pc[r] \in {"failing", "notify_failed"} /\ at[r] = "tool" => stage[op[r]] = "dispatched"
    /\ pc[r] = "failing" /\ at[r] # "tool" => stage[op[r]] # "dispatched"
    /\ pc[r] = "notify_failed" /\ at[r] # "tool" =>
          stage[op[r]] \in {"failed", "returned", "completed"}

EventsInv == RuntimeInv /\ Recorded /\ \A r \in Runtimes : Telling(r)

\* An operation that was begun stays begun, and its report, output and guard decisions stay.
LEMMA RowsStay ==
  ASSUME TypeOK, [Next]_vars, NEW o \in Op
  PROVE  /\ stage[o] # "none" => stage'[o] # "none"
         /\ inference_usage[o] # NoUsage => inference_usage'[o] # NoUsage
         /\ output[o] # NoOutput => output'[o] # NoOutput
         /\ guard_requirements \subseteq guard_requirements'
         /\ guard_decisions \subseteq guard_decisions'
  <1> DEFINE Stays == /\ stage[o] # "none" => stage'[o] # "none"
                      /\ inference_usage[o] # NoUsage => inference_usage'[o] # NoUsage
                      /\ output[o] # NoOutput => output'[o] # NoOutput
                      /\ guard_requirements \subseteq guard_requirements'
                      /\ guard_decisions \subseteq guard_decisions'
  <1> USE DEF TypeOK, guards, tokens, rows
  <1> SUFFICES Stays
    OBVIOUS
  <1>1. ASSUME UNCHANGED <<stage, inference_usage, output, guard_requirements, guard_decisions>>
        PROVE  Stays
    BY <1>1
  <1>2. ASSUME NEW p \in Op, \E b \in Revision, plan \in Plans \cup {NoReservation},
                                required \in SUBSET Guard : Start(p, b, plan, required)
        PROVE  Stays
    BY <1>2 DEF Start
  <1>3. ASSUME NEW p \in Op, \E usage \in Reports : RecordUsage(p, usage) PROVE Stays
    <2>1. CanRecordUsage(p) /\ UNCHANGED <<stage, output, guard_requirements, guard_decisions>>
          /\ \E usage \in Reports : inference_usage' = [inference_usage EXCEPT ![p] = usage]
      BY <1>3 DEF RecordUsage
    <2> QED
      BY <2>1 DEF CanRecordUsage
  <1>4. ASSUME NEW p \in Op, \E observes, external \in BOOLEAN : Dispatch(p, observes, external)
        PROVE  Stays
    BY <1>4 DEF Dispatch
  <1>5. ASSUME NEW p \in Op, \E result \in Output : Returned(p, result) PROVE Stays
    BY <1>5, OutputAssumption DEF Returned
  <1>6. ASSUME NEW p \in Op, \E evaluation \in Evaluation : Complete(p, evaluation) PROVE Stays
    BY <1>6 DEF Complete
  <1>7. ASSUME NEW p \in Op, Proposed(p) \/ Failed(p) \/ AbandonUndispatched(p) PROVE Stays
    BY <1>7 DEF Proposed, Failed, AbandonUndispatched
  <1>8. ASSUME NEW p \in Op, \E g \in Guard, allowed \in BOOLEAN : RecordGuard(p, g, allowed)
        PROVE  Stays
    BY <1>8 DEF RecordGuard
  <1>9. ASSUME NEW p \in Op, \E event \in EventStage : RecordEvent(p, event) PROVE Stays
    BY <1>1, <1>9 DEF RecordEvent
  <1>10. ASSUME (\E value \in Outcome : Finish(value)) \/ Tick \/ Reopen \/ UNCHANGED vars
         PROVE  Stays
    BY <1>1, <1>10 DEF Finish, Tick, Reopen, vars
  <1> HIDE DEF Stays
  <1> QED
    BY <1>2, <1>3, <1>4, <1>5, <1>6, <1>7, <1>8, <1>9, <1>10 DEF Next

\* What is true for good stays true, unless a runtime goes on to return an unknown effect.
LEMMA HoldsStays ==
  ASSUME TypeOK, [Next]_vars, NEW o \in Op, NEW event \in Told, Holds(o, event),
         event = "effect_unknown" =>
            /\ stage'[o] = "dispatched"
            /\ \A r \in Runtimes : pc'[r] \in Acting => op'[r] # o
  PROVE  Holds(o, event)'
  <1>1. /\ stage[o] # "none" => stage'[o] # "none"
        /\ inference_usage[o] # NoUsage => inference_usage'[o] # NoUsage
        /\ output[o] # NoOutput => output'[o] # NoOutput
        /\ guard_requirements \subseteq guard_requirements'
        /\ guard_decisions \subseteq guard_decisions'
    BY RowsStay
  <1>2. /\ stage[o] = "dispatched" => stage'[o] \in {"dispatched", "returned"}
        /\ stage[o] = "returned" => stage'[o] \in {"returned", "completed"}
        /\ stage[o] \in {"completed", "failed"} => stage'[o] = stage[o]
    BY EffectStep
  <1>3. stage[o] = "completed" => evaluations'[o] = evaluations[o]
    BY ClosedStore
  <1>4. CASE event \in {"started", "inference_returned", "tool_returned"}
    BY <1>1, <1>4 DEF Holds
  <1>5. CASE event \in {"guard_allowed", "guard_denied"}
    BY <1>1, <1>5 DEF Holds
  <1>6. CASE event \in {"tool_dispatched", "failed"}
    BY <1>2, <1>6 DEF Holds
  <1>7. CASE event \in {"committed", "observed"}
    BY <1>2, <1>3, <1>7 DEF Holds, Publishes
  <1>8. CASE event = "effect_unknown"
    BY <1>8 DEF Holds
  <1> QED
    BY <1>4, <1>5, <1>6, <1>7, <1>8 DEF Told

-----------------------------------------------------------------------------
(* One step of a runtime, and what it tells *)

\* the others wait; effects are authorised by "dispatching" and end by "executing"
Apace(r) ==
    /\ \A q \in Runtimes \ {r} :
          pc'[q] = pc[q] /\ op'[q] = op[q] /\ at'[q] = at[q] /\ asking'[q] = asking[q]
    /\ pc'[r] \in Acting => op'[r] = op[r] /\ pc[r] \in Acting \cup {"dispatching"}
    /\ \A o \in Op : (stage'[o] = "dispatched") # (stage[o] = "dispatched") =>
                        o = op[r] /\ pc[r] \in {"dispatching", "executing"}

\* nothing is told, or something true
Announced(r) ==
    \/ lifecycle_events' = lifecycle_events
    \/ \E event \in Told : /\ lifecycle_events' = lifecycle_events \cup {<<op[r], event>>}
                           /\ op[r] \in Op /\ Holds(op[r], event)

Honest(r) == Apace(r) /\ Telling(r)' /\ Announced(r)

\* no operation becomes unknown, or stops to be
SameUnknown == \A o \in Op : (stage'[o] = "dispatched") <=> (stage[o] = "dispatched")

\* An exception inside the try block.
LEMMA RaiseTells ==
  ASSUME ControlTyped, NEW r \in Runtimes, Place(r), Telling(r), pc[r] \in DOMAIN StageAt,
         NEW exception, Raise(r, exception), SameUnknown, Announced(r)
  PROVE  Honest(r)
  <1>1. /\ pc'[r] = "failing" /\ at'[r] = StageAt[pc[r]] /\ op'[r] = op[r]
        /\ \A q \in Runtimes \ {r} :
              pc'[q] = pc[q] /\ op'[q] = op[q] /\ at'[q] = at[q] /\ asking'[q] = asking[q]
    BY DEF Raise, ControlTyped
  <1>2. op[r] \in Op
    BY DEF Place, StageAt
  <1>3. pc[r] \in Acting => stage[op[r]] = "dispatched"
    BY DEF Place
  <1>4. pc[r] \notin Acting => stage[op[r]] # "dispatched"
    BY DEF Place, Telling, StageAt, Requesting, Authorising, Acting
  <1>5. StageAt[pc[r]] = "tool" <=> pc[r] \in Acting
    BY DEF StageAt, Acting
  <1>6. Telling(r)'
    BY <1>1, <1>2, <1>3, <1>4, <1>5 DEF Telling, SameUnknown
  <1>7. pc'[r] \notin Acting
    BY <1>1 DEF Acting
  <1> QED
    BY <1>1, <1>6, <1>7 DEF Honest, Apace, SameUnknown

\* The task goes on to a point where it has nothing to tell.
LEMMA GotoTells ==
  ASSUME ControlTyped, NEW r \in Runtimes, NEW point, Goto(r, point), SameUnknown, Announced(r),
         \A q \in Runtimes \ {r} : asking'[q] = asking[q],
         point \in {"generating", "proposing", "validating", "checking", "dispatching",
                    "executing"},
         point = "executing" => pc[r] \in Acting
  PROVE  Honest(r)
  BY DEF Goto, ControlTyped, Honest, Apace, SameUnknown, Telling, Acting

\* The call ends.
LEMMA EndTells ==
  ASSUME ControlTyped, NEW r \in Runtimes, NEW exception, End(r, exception), SameUnknown,
         Announced(r)
  PROVE  Honest(r)
  BY DEF End, ControlTyped, Honest, Apace, SameUnknown, Telling, Acting

\* An event that is recorded is announced.
LEMMA EmitTells ==
  ASSUME NEW r \in Runtimes, op[r] \in Op, NEW event \in Told, Holds(op[r], event)
  PROVE  /\ RecordEvent(op[r], event) => SameUnknown /\ Announced(r) /\ UNCHANGED stage
         /\ UNCHANGED vars => SameUnknown /\ Announced(r) /\ UNCHANGED stage
  BY DEF RecordEvent, SameUnknown, Announced, vars

\* The events before the effect.
LEMMA EarlyTells ==
  ASSUME ControlTyped, TypeOK, NEW r \in Runtimes, Place(r), Telling(r),
         NotifyStarted(r) \/ NotifyInference(r) \/ NotifyGuard(r)
  PROVE  Honest(r)
  <1>0. /\ pc[r] \in {"notify_started", "notify_inference", "notify_guard"}
        /\ pc[r] \in DOMAIN StageAt /\ op[r] \in Op /\ stage[op[r]] # "none"
    BY DEF NotifyStarted, NotifyInference, NotifyGuard, Runs, StageAt, Place
  <1>1. ASSUME NEW event \in Told, Holds(op[r], event), EmitRaises(r, event) PROVE Honest(r)
    BY <1>0, <1>1, EmitTells, RaiseTells DEF EmitRaises
  <1>2. ASSUME NotifyStarted(r) PROVE Honest(r)
    <2>1. "started" \in Told /\ Holds(op[r], "started")
      BY <1>0 DEF Told, Holds
    <2> QED
      BY <1>0, <1>1, <1>2, <2>1, EmitTells, GotoTells DEF NotifyStarted, Emits
  <1>3. ASSUME NotifyInference(r) PROVE Honest(r)
    <2>1. "inference_returned" \in Told /\ Holds(op[r], "inference_returned")
      BY <1>3 DEF Told, Holds, Telling, NotifyInference, Runs
    <2> QED
      BY <1>0, <1>1, <1>3, <2>1, EmitTells, GotoTells DEF NotifyInference, Emits
  <1>4. ASSUME NotifyGuard(r) PROVE Honest(r)
    <2> DEFINE g == GuardOrder[asking[r]]
               allowed == <<op[r], g, TRUE>> \in guard_decisions
               event == IF allowed THEN "guard_allowed" ELSE "guard_denied"
    <2>1. /\ <<op[r], g>> \in guard_requirements
          /\ <<op[r], g, TRUE>> \in guard_decisions \/ <<op[r], g, FALSE>> \in guard_decisions
      BY <1>4 DEF NotifyGuard, Runs, Telling
    <2>2. g \in Guard
      BY <2>1 DEF TypeOK
    <2>3. event \in Told /\ Holds(op[r], event)
      BY <2>1, <2>2 DEF Told, Holds
    <2>4. \/ /\ Emits(r, event) /\ (Ask(r, asking[r] + 1) \/ Raise(r, "Failure"))
          \/ EmitRaises(r, event)
      BY <1>4 DEF NotifyGuard
    <2> HIDE DEF event
    <2>5. ASSUME Emits(r, event), Ask(r, asking[r] + 1) PROVE Honest(r)
      <3>1. PICK point \in {"checking", "dispatching"} : Goto(r, point)
        BY <2>5 DEF Ask
      <3>2. \A q \in Runtimes \ {r} : asking'[q] = asking[q]
        BY <2>5 DEF Ask, ControlTyped
      <3> QED
        BY <1>0, <2>3, <2>5, <3>1, <3>2, EmitTells, GotoTells DEF Emits
    <2>6. ASSUME Emits(r, event), Raise(r, "Failure") PROVE Honest(r)
      BY <1>0, <2>3, <2>6, EmitTells, RaiseTells DEF Emits
    <2> QED
      BY <1>1, <2>3, <2>4, <2>5, <2>6
  <1> QED
    BY <1>2, <1>3, <1>4

\* The events around the effect, and the last one.
LEMMA LateTells ==
  ASSUME ControlTyped, TypeOK, Apart, NEW r \in Runtimes, Place(r), Telling(r),
         NotifyDispatched(r) \/ NotifyReturned(r) \/ NotifyDone(r) \/ NotifyFailed(r)
  PROVE  Honest(r)
  <1>0. /\ pc[r] \in {"notify_dispatched", "notify_returned", "notify_done", "notify_failed"}
        /\ op[r] \in Op /\ stage[op[r]] # "none"
        /\ pc[r] # "notify_failed" => pc[r] \in DOMAIN StageAt
    BY DEF NotifyDispatched, NotifyReturned, NotifyDone, NotifyFailed, Runs, StageAt, Place
  <1>1. ASSUME NEW event \in Told, Holds(op[r], event), EmitRaises(r, event),
               pc[r] # "notify_failed"
        PROVE  Honest(r)
    BY <1>0, <1>1, EmitTells, RaiseTells DEF EmitRaises
  <1>2. ASSUME NotifyDispatched(r) PROVE Honest(r)
    <2>1. /\ pc[r] = "notify_dispatched" /\ pc[r] \in Acting
          /\ "tool_dispatched" \in Told /\ Holds(op[r], "tool_dispatched")
      BY <1>2 DEF Told, Holds, Place, NotifyDispatched, Runs, Acting
    <2> QED
      BY <1>0, <1>1, <1>2, <2>1, EmitTells, GotoTells DEF NotifyDispatched, Emits
  <1>3. ASSUME NotifyReturned(r) PROVE Honest(r)
    <2>1. /\ pc[r] = "notify_returned" /\ stage[op[r]] \in {"returned", "completed"}
          /\ "tool_returned" \in Told /\ Holds(op[r], "tool_returned")
      BY <1>3 DEF Told, Holds, Telling, NotifyReturned, Runs
    <2>2. ASSUME Emits(r, "tool_returned"), Goto(r, "evaluating"), UNCHANGED asking PROVE Honest(r)
      <3>1. SameUnknown /\ Announced(r) /\ UNCHANGED stage
        BY <1>0, <2>1, <2>2, EmitTells DEF Emits
      <3> QED
        BY <2>1, <2>2, <3>1
           DEF Goto, ControlTyped, Honest, Apace, SameUnknown, Telling, Acting
    <2>3. ASSUME Emits(r, "tool_returned"), Raise(r, "BudgetExhausted") PROVE Honest(r)
      BY <1>0, <2>1, <2>3, EmitTells, RaiseTells DEF Emits
    <2> QED
      BY <1>1, <1>3, <2>1, <2>2, <2>3 DEF NotifyReturned
  <1>4. ASSUME NotifyDone(r) PROVE Honest(r)
    <2> DEFINE event == IF Publishes(evaluations[op[r]]) THEN "committed" ELSE "observed"
    <2>1. pc[r] = "notify_done" /\ event \in Told /\ Holds(op[r], event)
      BY <1>4 DEF Told, Holds, Telling, NotifyDone, Runs
    <2>2. (Emits(r, event) /\ End(r, "none")) \/ EmitRaises(r, event)
      BY <1>4 DEF NotifyDone
    <2> HIDE DEF event
    <2> QED
      BY <1>0, <1>1, <2>1, <2>2, EmitTells, EndTells DEF Emits
  <1>5. ASSUME NotifyFailed(r) PROVE Honest(r)
    <2> DEFINE event == IF at[r] = "tool" THEN "effect_unknown" ELSE "failed"
    <2>1. pc[r] = "notify_failed" /\ event \in Told
      BY <1>5 DEF Told, NotifyFailed, Runs
    <2>2. \A q \in Runtimes : pc[q] \in Acting => op[q] # op[r]
      <3>1. ASSUME NEW q \in Runtimes, pc[q] \in Acting
            PROVE  q # r /\ pc[q] \in Stepping /\ pc[r] \in Stepping
        BY <2>1, <3>1 DEF Acting, Stepping, PC, StageAt
      <3> QED
        BY <3>1 DEF Apart
    <2>3. Holds(op[r], event)
      BY <2>1, <2>2 DEF Holds, Telling
    <2>4. \E exception : End(r, exception) /\ (RecordEvent(op[r], event) \/ UNCHANGED vars)
      BY <1>5 DEF NotifyFailed
    <2> HIDE DEF event
    <2> QED
      BY <1>0, <2>1, <2>3, <2>4, EmitTells, EndTells
  <1> QED
    BY <1>2, <1>3, <1>4, <1>5

\* The other steps of step() between two awaits.
LEMMA SliceTells ==
  ASSUME ControlTyped, TypeOK, Apart, NEW r \in Runtimes, Place(r), Telling(r), Slice(r)
  PROVE  Honest(r)
  <1>1. ASSUME Propose(r) PROVE Honest(r)
    <2>1. /\ pc[r] = "proposing" /\ pc[r] \in DOMAIN StageAt /\ op[r] \in Op
          /\ stage[op[r]] \in {"inference", "failed"} /\ inference_usage[op[r]] # NoUsage
      BY <1>1 DEF Propose, Runs, StageAt, Place, Requesting, Sound
    <2>2. CASE Proposed(op[r]) /\ Goto(r, "notify_inference") /\ UNCHANGED asking
      <3>1. /\ SameUnknown /\ Announced(r) /\ inference_usage' = inference_usage
        BY <2>1, <2>2 DEF Proposed, SameUnknown, Announced, TypeOK, tokens
      <3> QED
        BY <2>1, <2>2, <3>1 DEF Goto, ControlTyped, Honest, Apace, SameUnknown, Telling, Acting
    <2>3. CASE Raise(r, "Failure") /\ UNCHANGED vars
      <3>1. SameUnknown /\ Announced(r)
        BY <2>3 DEF SameUnknown, Announced, vars
      <3> QED
        BY <2>1, <2>3, <3>1, RaiseTells
    <2> QED
      BY <1>1, <2>2, <2>3 DEF Propose
  <1>2. ASSUME Validate(r) PROVE Honest(r)
    <2>1. pc[r] \in DOMAIN StageAt /\ SameUnknown /\ Announced(r)
      BY <1>2 DEF Validate, Runs, StageAt, SameUnknown, Announced, vars
    <2>2. CASE Ask(r, 1)
      <3>1. PICK point \in {"checking", "dispatching"} : Goto(r, point)
        BY <2>2 DEF Ask
      <3>2. \A q \in Runtimes \ {r} : asking'[q] = asking[q]
        BY <2>2 DEF Ask, ControlTyped
      <3> QED
        BY <2>1, <3>1, <3>2, GotoTells
    <2>3. ASSUME NEW exception, Raise(r, exception) PROVE Honest(r)
      BY <2>1, <2>3, RaiseTells
    <2> QED
      BY <1>2, <2>2, <2>3 DEF Validate
  <1>3. ASSUME NEW observes \in BOOLEAN, NEW external \in BOOLEAN,
               DispatchTool(r, observes, external)
        PROVE  Honest(r)
    <2>1. pc[r] = "dispatching" /\ pc[r] \in DOMAIN StageAt /\ op[r] \in Op
      BY <1>3 DEF DispatchTool, Runs, StageAt, Place
    <2>2. CASE Dispatch(op[r], observes, external) /\ Goto(r, "notify_dispatched")
               /\ UNCHANGED asking
      <3>1. /\ stage' = [stage EXCEPT ![op[r]] = "dispatched"]
            /\ lifecycle_events' = lifecycle_events
        BY <2>2 DEF Dispatch
      <3> QED
        BY <2>1, <2>2, <3>1
           DEF Goto, ControlTyped, TypeOK, Honest, Apace, Announced, Telling, Acting
    <2>3. ASSUME NEW exception, Raise(r, exception), UNCHANGED vars PROVE Honest(r)
      <3>1. SameUnknown /\ Announced(r)
        BY <2>3 DEF SameUnknown, Announced, vars
      <3> QED
        BY <2>1, <2>3, <3>1, RaiseTells
    <2> QED
      BY <1>3, <2>2, <2>3 DEF DispatchTool
  <1>4. ASSUME RecordFailure(r) PROVE Honest(r)
    <2>1. /\ pc[r] = "failing" /\ op[r] \in Op /\ stage[op[r]] \in Stage
          /\ Goto(r, "notify_failed") /\ UNCHANGED asking
          /\ lifecycle_events' = lifecycle_events
          /\ stage' = [stage EXCEPT ![op[r]] = IF @ \in Undispatched THEN "failed" ELSE @]
      BY <1>4 DEF RecordFailure, Runs, Place, Failed, TypeOK
    <2>2. /\ at[r] = "tool" => stage[op[r]] = "dispatched"
          /\ at[r] # "tool" => stage[op[r]] # "dispatched"
      BY <2>1 DEF Telling
    <2>3. SameUnknown /\ Announced(r)
      BY <2>1 DEF SameUnknown, Announced, TypeOK, Undispatched
    <2>4. /\ pc'[r] = "notify_failed" /\ UNCHANGED <<op, at, asking>>
          /\ \A q \in Runtimes \ {r} : pc'[q] = pc[q]
      BY <2>1 DEF Goto, ControlTyped
    <2>5. /\ at[r] = "tool" => stage'[op[r]] = "dispatched"
          /\ at[r] # "tool" => stage'[op[r]] \in {"failed", "returned", "completed"}
      BY <2>1, <2>2 DEF TypeOK, Stage, Undispatched
    <2> QED
      BY <2>1, <2>3, <2>4, <2>5 DEF Honest, Apace, SameUnknown, Telling, Acting
  <1> QED
    BY <1>1, <1>2, <1>3, <1>4, EarlyTells, LateTells DEF Slice

\* The awaits of step() and recover().
LEMMA ResumeTells ==
  ASSUME ControlTyped, TypeOK, NEW r \in Runtimes, Place(r), Telling(r),
         Resume(r) \/ Interrupt(r)
  PROVE  Honest(r)
  <1>1. ASSUME NEW exception, Raise(r, exception), UNCHANGED vars,
               pc[r] \in {"generating", "checking", "executing", "evaluating"}
        PROVE  Honest(r)
    <2>1. pc[r] \in DOMAIN StageAt /\ SameUnknown /\ Announced(r)
      BY <1>1 DEF StageAt, SameUnknown, Announced, vars
    <2> QED
      BY <1>1, <2>1, RaiseTells
  <1>2. ASSUME NEW usage \in Reports, NEW exception, Generate(r, usage, exception)
        PROVE  Honest(r)
    <2>1. pc[r] = "generating" /\ pc[r] \in DOMAIN StageAt
      BY <1>2 DEF Generate, Runs, StageAt
    <2>2. SameUnknown /\ Announced(r)
      BY <1>2 DEF Generate, RecordUsage, SameUnknown, Announced, vars
    <2>3. (\E e : Raise(r, e)) \/ (Goto(r, "proposing") /\ UNCHANGED asking)
      BY <1>2 DEF Generate
    <2> QED
      BY <2>1, <2>2, <2>3, RaiseTells, GotoTells
  <1>3. ASSUME NEW allowed \in BOOLEAN, Check(r, allowed) PROVE Honest(r)
    <2> DEFINE g == GuardOrder[asking[r]]
    <2>1. pc[r] = "checking"
      BY <1>3 DEF Check, Runs
    <2>2. CASE RecordGuard(op[r], g, allowed) /\ Goto(r, "notify_guard") /\ UNCHANGED asking
      <3>1. /\ <<op[r], g>> \in guard_requirements' /\ <<op[r], g, allowed>> \in guard_decisions'
            /\ SameUnknown /\ Announced(r)
        BY <2>2 DEF RecordGuard, CanRecordGuard, SameUnknown, Announced
      <3> QED
        BY <2>1, <2>2, <3>1 DEF Goto, ControlTyped, Honest, Apace, SameUnknown, Telling, Acting
    <2>3. CASE Raise(r, "Failure") /\ UNCHANGED vars
      BY <1>1, <2>1, <2>3
    <2> QED
      BY <1>3, <2>2, <2>3 DEF Check
  <1>4. ASSUME NEW result \in Output, Execute(r, result) PROVE Honest(r)
    <2>1. /\ pc[r] = "executing" /\ op[r] \in Op /\ Goto(r, "notify_returned")
          /\ UNCHANGED asking /\ lifecycle_events' = lifecycle_events
          /\ stage' = [stage EXCEPT ![op[r]] = "returned"]
          /\ output' = [output EXCEPT ![op[r]] = result]
      BY <1>4 DEF Execute, Returned, Runs, Place
    <2>2. stage'[op[r]] = "returned" /\ output'[op[r]] # NoOutput
      BY <2>1, OutputAssumption DEF TypeOK
    <2>3. /\ pc'[r] = "notify_returned" /\ UNCHANGED <<op, at, asking>>
          /\ \A q \in Runtimes \ {r} : pc'[q] = pc[q]
      BY <2>1 DEF Goto, ControlTyped
    <2>4. \A o \in Op \ {op[r]} : stage'[o] = stage[o]
      BY <2>1 DEF TypeOK
    <2> QED
      BY <2>1, <2>2, <2>3, <2>4 DEF Honest, Apace, Announced, Telling, Acting
  <1>5. ASSUME NEW o \in Op, NEW evaluation \in Evaluation, Complete(o, evaluation)
        PROVE  SameUnknown /\ Announced(r) /\ stage'[o] = "completed"
    BY <1>5 DEF Complete, CanComplete, SameUnknown, Announced, TypeOK
  <1>6. ASSUME NEW evaluation \in Evaluation, Evaluate(r, evaluation) PROVE Honest(r)
    <2>1. pc[r] = "evaluating" /\ op[r] \in Op
      BY <1>6 DEF Evaluate, Runs, Place
    <2>2. CASE Complete(op[r], evaluation) /\ Goto(r, "notify_done") /\ UNCHANGED asking
      <3>1. SameUnknown /\ Announced(r) /\ stage'[op[r]] = "completed"
        BY <1>5, <2>1, <2>2
      <3> QED
        BY <2>1, <2>2, <3>1 DEF Goto, ControlTyped, Honest, Apace, SameUnknown, Telling, Acting
    <2>3. CASE Raise(r, Refusal) /\ UNCHANGED vars
      BY <1>1, <2>1, <2>3
    <2> QED
      BY <1>6, <2>2, <2>3 DEF Evaluate
  <1>7. ASSUME NEW evaluation \in Evaluation, Reevaluate(r, evaluation) PROVE Honest(r)
    <2>1. op[r] \in Op
      BY <1>7 DEF Reevaluate, Runs, Place
    <2>2. SameUnknown /\ Announced(r)
      BY <1>5, <1>7, <2>1 DEF Reevaluate, SameUnknown, Announced, vars
    <2> QED
      BY <1>7, <2>2, EndTells DEF Reevaluate
  <1>8. ASSUME NEW exception, RecoverFails(r, exception) PROVE Honest(r)
    <2>1. SameUnknown /\ Announced(r)
      BY <1>8 DEF RecoverFails, SameUnknown, Announced, vars
    <2> QED
      BY <1>8, <2>1, EndTells DEF RecoverFails
  <1>9. ASSUME NEW exception, GenerateFails(r, exception) \/ AwaitFails(r, exception) \/ Cancel(r)
        PROVE  Honest(r)
    BY <1>1, <1>9 DEF GenerateFails, AwaitFails, Cancel, Runs
  <1> QED
    BY <1>2, <1>3, <1>4, <1>6, <1>7, <1>8, <1>9 DEF Resume, Interrupt

\* The calls of a runtime.
LEMMA CallTells ==
  ASSUME ControlTyped, TypeOK, NEW r \in Runtimes, Call(r)
  PROVE  Honest(r)
  <1>1. ASSUME NEW exception, BeginRefused(r, exception) PROVE Honest(r)
    <2>1. SameUnknown /\ Announced(r)
      BY <1>1 DEF BeginRefused, SameUnknown, Announced, vars
    <2> QED
      BY <1>1, <2>1, EndTells DEF BeginRefused
  <1>2. ASSUME NEW o \in Op, NEW plan \in Plans \cup {NoReservation}, Begin(r, o, plan)
        PROVE  Honest(r)
    <2>1. /\ stage[o] = "none" /\ stage' = [stage EXCEPT ![o] = "inference"]
          /\ lifecycle_events' = lifecycle_events
      BY <1>2 DEF Begin, Start, Fresh
    <2>2. SameUnknown /\ Announced(r)
      BY <2>1 DEF SameUnknown, Announced, TypeOK
    <2> QED
      BY <1>2, <2>2 DEF Begin, ControlTyped, Honest, Apace, SameUnknown, Telling, Acting
  <1>3. ASSUME NEW o \in Op, RecoverUndispatched(r, o) PROVE Honest(r)
    <2>1. SameUnknown /\ Announced(r)
      BY <1>3 DEF RecoverUndispatched, AbandonUndispatched, Undispatched, SameUnknown, Announced,
         TypeOK
    <2> QED
      BY <1>3, <2>1
         DEF RecoverUndispatched, Runs, task, ControlTyped, Honest, Apace, SameUnknown, Telling,
             Acting
  <1>4. ASSUME NEW o \in Op, RecoverReturned(r, o) PROVE Honest(r)
    <2>1. SameUnknown /\ Announced(r)
      BY <1>4 DEF RecoverReturned, SameUnknown, Announced, vars
    <2> QED
      BY <1>4, <2>1
         DEF RecoverReturned, ControlTyped, Honest, Apace, SameUnknown, Telling, Acting
  <1> QED
    BY <1>1, <1>2, <1>3, <1>4 DEF Call

-----------------------------------------------------------------------------
(* The events of all operations *)

\* A step of one runtime leaves true what the others are about to tell.
LEMMA OthersTell ==
  ASSUME RuntimeInv, [Next]_vars, NEW r \in Runtimes, Apace(r), NEW q \in Runtimes, q # r,
         Telling(q), Place(q)
  PROVE  Telling(q)'
  <1>1. /\ pc'[q] = pc[q] /\ op'[q] = op[q] /\ at'[q] = at[q] /\ asking'[q] = asking[q]
        /\ TypeOK
    BY DEF Apace, RuntimeInv, StoreInv, AuthorityInv
  <1>2. CASE pc[q] \in Stepping
    <2>1. op[q] \in Op
      BY <1>2 DEF Place, Stepping
    <2>2. (stage'[op[q]] = "dispatched") <=> (stage[op[q]] = "dispatched")
      <3>1. ASSUME pc[r] \in {"dispatching", "executing"} PROVE op[r] # op[q]
        BY <1>2, <3>1 DEF RuntimeInv, Apart, Stepping, PC, StageAt
      <3> QED
        BY <2>1, <3>1 DEF Apace
    <2>3. /\ inference_usage[op[q]] # NoUsage => inference_usage'[op[q]] # NoUsage
          /\ output[op[q]] # NoOutput => output'[op[q]] # NoOutput
          /\ guard_requirements \subseteq guard_requirements'
          /\ guard_decisions \subseteq guard_decisions'
      BY <1>1, <2>1, RowsStay
    <2>4. /\ stage[op[q]] = "returned" => stage'[op[q]] \in {"returned", "completed"}
          /\ stage[op[q]] \in {"completed", "failed"} => stage'[op[q]] = stage[op[q]]
      BY <1>1, <2>1, EffectStep
    <2> QED
      BY <1>1, <2>2, <2>3, <2>4 DEF Telling
  <1>3. CASE pc[q] \notin Stepping
    <2>1. pc[q] \notin {"notify_inference", "notify_guard", "notify_returned", "evaluating",
                        "notify_done", "failing", "notify_failed"}
      BY <1>3 DEF Stepping, PC, StageAt
    <2> QED
      BY <1>1, <2>1 DEF Telling
  <1> QED
    BY <1>2, <1>3

\* A step of one runtime leaves true what is recorded, and adds only what is true.
LEMMA EventsStay ==
  ASSUME EventsInv, [Next]_vars, NEW r \in Runtimes, Apace(r), Announced(r)
  PROVE  Recorded'
  <1>1. TypeOK /\ Recorded /\ Place(r)
    BY DEF EventsInv, RuntimeInv, StoreInv, AuthorityInv, Places
  <1>2. ASSUME NEW o \in Op, Holds(o, "effect_unknown")
        PROVE  /\ stage'[o] = "dispatched"
               /\ \A q \in Runtimes : pc'[q] \in Acting => op'[q] # o
    <2>1. /\ stage[o] = "dispatched"
          /\ \A q \in Runtimes : pc[q] \in Acting => op[q] # o
      BY <1>2 DEF Holds
    <2>2. ASSUME pc[r] = "dispatching" PROVE op[r] # o
      BY <1>1, <2>1, <2>2 DEF Place, Authorising
    <2>3. stage'[o] = "dispatched"
      BY <2>1, <2>2 DEF Apace, Acting
    <2>4. ASSUME NEW q \in Runtimes, pc'[q] \in Acting PROVE op'[q] # o
      <3>1. CASE q = r
        BY <2>1, <2>2, <2>4, <3>1 DEF Apace
      <3>2. CASE q # r
        BY <2>1, <2>4, <3>2 DEF Apace
      <3> QED
        BY <3>1, <3>2
    <2> QED
      BY <2>3, <2>4
  <1>3. ASSUME NEW o \in Op, NEW event \in Told, Holds(o, event) PROVE Holds(o, event)'
    BY <1>1, <1>2, <1>3, HoldsStays
  <1>4. ASSUME NEW o \in Op, NEW event \in EventStage, <<o, event>> \in lifecycle_events'
        PROVE  event \in Told /\ Holds(o, event)
    BY <1>1, <1>4 DEF Announced, Recorded
  <1>5. ASSUME NEW o \in Op, NEW event \in EventStage, <<o, event>> \in lifecycle_events'
        PROVE  event \in Told /\ Holds(o, event)'
    BY <1>3, <1>4, <1>5
  <1> QED
    BY <1>5 DEF Recorded

\* The application, the clock and the death of the process change no operation.
LEMMA OutsideTells ==
  ASSUME EventsInv,
         (\E value \in Outcome : AppFinish(value)) \/ Time \/ Crash \/ UNCHANGED runtimeVars
  PROVE  Recorded' /\ \A r \in Runtimes : Telling(r)'
  <1>1. UNCHANGED <<stage, rows, guards, tokens, evaluations, lifecycle_events>>
    <2>1. ASSUME NEW value \in Outcome, AppFinish(value)
          PROVE  UNCHANGED <<stage, rows, guards, tokens, evaluations, lifecycle_events>>
      BY <2>1 DEF AppFinish, Finish, guards, rows
    <2>2. ASSUME Time \/ Crash
          PROVE  UNCHANGED <<stage, rows, guards, tokens, evaluations, lifecycle_events>>
      BY <2>2 DEF Time, Tick, Crash, Reopen
    <2> QED
      BY <2>1, <2>2 DEF runtimeVars, vars
  <1>2. \/ UNCHANGED <<pc, op, at, asking>>
        \/ pc' = [r \in Runtimes |-> "idle"]
    BY DEF AppFinish, Time, Crash, runtimeVars, task
  <1>3. UNCHANGED <<stage, inference_usage, output, guard_requirements, guard_decisions,
                    evaluations, lifecycle_events>>
    BY <1>1 DEF rows, guards, tokens
  <1>4. ASSUME NEW o \in Op, NEW event \in Told, Holds(o, event) PROVE Holds(o, event)'
    <2>1. \A r \in Runtimes : pc'[r] \in Acting => pc[r] \in Acting /\ op'[r] = op[r]
      BY <1>2 DEF Acting
    <2>2. CASE event = "effect_unknown"
      BY <1>3, <1>4, <2>1, <2>2 DEF Holds
    <2>3. CASE event \in {"started", "inference_returned", "guard_allowed", "guard_denied"}
      BY <1>3, <1>4, <2>3 DEF Holds
    <2>4. CASE event \in {"tool_dispatched", "tool_returned", "failed", "committed", "observed"}
      BY <1>3, <1>4, <2>4 DEF Holds, Publishes
    <2> QED
      BY <2>2, <2>3, <2>4 DEF Told
  <1>5. Recorded'
    BY <1>3, <1>4 DEF EventsInv, Recorded
  <1>6. ASSUME NEW r \in Runtimes PROVE Telling(r)'
    BY <1>2, <1>3 DEF EventsInv, Telling
  <1> QED
    BY <1>5, <1>6

\* What is recorded is true in every behaviour.
LEMMA EventsInvariant == RuntimeSpec => []EventsInv
  <1>1. RuntimeInit => EventsInv
    <2> SUFFICES ASSUME RuntimeInit PROVE Recorded /\ \A r \in Runtimes : Telling(r)
      BY InitRuntime DEF EventsInv
    <2>1. lifecycle_events = {} /\ pc = [r \in Runtimes |-> "idle"]
      BY DEF RuntimeInit, Init
    <2> QED
      BY <2>1 DEF Recorded, Telling
  <1>2. EventsInv /\ [RuntimeNext]_runtimeVars => EventsInv'
    <2> SUFFICES ASSUME EventsInv, [RuntimeNext]_runtimeVars PROVE EventsInv'
      OBVIOUS
    <2>1. /\ RuntimeInv /\ [Next]_vars /\ RuntimeInv'
          /\ ControlTyped /\ TypeOK /\ Apart
          /\ \A r \in Runtimes : Place(r) /\ Telling(r)
      BY StepAllowed, StepStore, StepControl
         DEF EventsInv, RuntimeInv, Control, StoreInv, AuthorityInv, Places
    <2>2. ASSUME NEW r \in Runtimes, Call(r) \/ Slice(r) \/ Resume(r) \/ Interrupt(r)
          PROVE  Recorded' /\ \A q \in Runtimes : Telling(q)'
      <3>1. Honest(r)
        BY <2>1, <2>2, CallTells, SliceTells, ResumeTells
      <3>2. \A q \in Runtimes : Telling(q)'
        BY <2>1, <3>1, OthersTell DEF Honest
      <3> QED
        BY <2>1, <3>1, <3>2, EventsStay DEF Honest
    <2>3. Recorded' /\ \A q \in Runtimes : Telling(q)'
      BY <2>2, OutsideTells DEF RuntimeNext
    <2> QED
      BY <2>1, <2>3 DEF EventsInv
  <1> QED
    BY <1>1, <1>2, PTL DEF RuntimeSpec

\* An event of the journal is true when it is recorded and stays true, whichever runtimes,
\* recoveries and crashes come later: what follows a started attempt can be read off its
\* events.
THEOREM Truthful == RuntimeSpec => []EventsTellTruth
  <1>1. EventsInv => EventsTellTruth
    <2> SUFFICES ASSUME EventsInv PROVE EventsTellTruth
      OBVIOUS
    <2>1. /\ Recorded /\ ReservationsFollowStage /\ OneDecision /\ GuardedDispatch /\ CommitChain
      BY DEF EventsInv, RuntimeInv, StoreInv, AuthorityInv, HistoryInv
    <2>2. ASSUME NEW o \in Op, Publishes(evaluations[o])
          PROVE  \E c \in 1..Len(commits) : commits[c].operation = o
      BY <2>1, <2>2 DEF CommitChain
    <2>3. ASSUME NEW o \in Op, ~Publishes(evaluations[o])
          PROVE  \A c \in 1..Len(commits) : commits[c].operation # o
      BY <2>1, <2>3 DEF CommitChain
    <2>4. ASSUME NEW o \in Op, Holds(o, "guard_denied") PROVE <<o, "tool">> \notin reservations
      BY <2>1, <2>4 DEF Holds, GuardedDispatch
    <2>5. \A o \in Op : <<o, "tool">> \in reservations
                           <=> stage[o] \in {"dispatched", "returned", "completed"}
      BY <2>1 DEF ReservationsFollowStage
    <2>6. ASSUME NEW o \in Op, NEW event \in EventStage, <<o, event>> \in lifecycle_events
          PROVE  event \in Told /\ Holds(o, event)
      BY <2>1, <2>6 DEF Recorded
    <2> DEFINE True(o, event) ==
           CASE event = "started" -> stage[o] # "none"
             [] event = "inference_returned" -> inference_usage[o] # NoUsage
             [] event = "guard_allowed" -> \E g \in Guard : <<o, g, TRUE>> \in guard_decisions
             [] event = "guard_denied" -> <<o, "tool">> \notin reservations
             [] event = "tool_dispatched" -> <<o, "tool">> \in reservations
             [] event = "tool_returned" -> output[o] # NoOutput
             [] event = "committed" -> \E c \in 1..Len(commits) : commits[c].operation = o
             [] event = "observed" -> stage[o] = "completed" /\
                                      \A c \in 1..Len(commits) : commits[c].operation # o
             [] event = "effect_unknown" -> stage[o] = "dispatched"
             [] event = "failed" -> stage[o] \in {"failed", "returned", "completed"}
    <2>7. ASSUME NEW o \in Op, NEW event \in Told, Holds(o, event) PROVE True(o, event)
      <3>1. CASE event \in {"started", "inference_returned", "guard_allowed"}
        BY <2>7, <3>1 DEF Holds
      <3>2. CASE event = "guard_denied"
        BY <2>4, <2>7, <3>2
      <3>3. CASE event \in {"tool_dispatched", "tool_returned"}
        BY <2>5, <2>7, <3>3 DEF Holds
      <3>4. CASE event \in {"committed", "observed"}
        BY <2>2, <2>3, <2>7, <3>4 DEF Holds
      <3>5. CASE event \in {"effect_unknown", "failed"}
        BY <2>7, <3>5 DEF Holds
      <3> HIDE DEF True
      <3> QED
        BY <3>1, <3>2, <3>3, <3>4, <3>5 DEF Told
    <2>8. \A o \in Op, event \in EventStage : <<o, event>> \in lifecycle_events => True(o, event)
      <3> HIDE DEF True
      <3> QED
        BY <2>6, <2>7
    <2> QED
      BY <2>8 DEF EventsTellTruth
  <1> QED
    BY <1>1, EventsInvariant, PTL
=============================================================================
