--------------------------- MODULE RunStepProofs ---------------------------
(***************************************************************************)
(* What no step of a journal may do, for every value of the constants, and *)
(* that every step is one the abstract run promises.                       *)
(***************************************************************************)
EXTENDS RunStoreProofs

USE DEF Op

-----------------------------------------------------------------------------
(* Action properties *)

LEMMA EffectStep == TypeOK /\ [Next]_vars =>
    \A o \in Op :
       /\ stage[o] = "dispatched" => stage'[o] \in {"dispatched", "returned"}
       /\ stage[o] = "returned" => stage'[o] \in {"returned", "completed"}
       /\ stage[o] \in {"completed", "failed"} => stage'[o] = stage[o]
  <1> SUFFICES ASSUME TypeOK, [Next]_vars, NEW p \in Op
               PROVE  /\ stage[p] = "dispatched" => stage'[p] \in {"dispatched", "returned"}
                      /\ stage[p] = "returned" => stage'[p] \in {"returned", "completed"}
                      /\ stage[p] \in {"completed", "failed"} => stage'[p] = stage[p]
    OBVIOUS
  <1> DEFINE Kept == /\ stage[p] = "dispatched" => stage'[p] \in {"dispatched", "returned"}
                     /\ stage[p] = "returned" => stage'[p] \in {"returned", "completed"}
                     /\ stage[p] \in {"completed", "failed"} => stage'[p] = stage[p]
  <1> USE DEF TypeOK
  <1>1. ASSUME NEW o \in Op, NEW b \in Revision, NEW plan \in Plans \cup {NoReservation},
               NEW required \in SUBSET Guard, Start(o, b, plan, required)
        PROVE  Kept
    BY <1>1 DEF Start, Fresh
  <1>2. ASSUME NEW o \in Op, Proposed(o) PROVE Kept
    BY <1>2 DEF Proposed, CanPropose
  <1>3. ASSUME NEW o \in Op, NEW observes \in BOOLEAN, NEW external \in BOOLEAN,
               Dispatch(o, observes, external)
        PROVE  Kept
    BY <1>3 DEF Dispatch, CanDispatch
  <1>4. ASSUME NEW o \in Op, NEW result \in Output, Returned(o, result) PROVE Kept
    BY <1>4 DEF Returned
  <1>5. ASSUME NEW o \in Op, NEW evaluation \in Evaluation, Complete(o, evaluation) PROVE Kept
    BY <1>5 DEF Complete, CanComplete
  <1>6. ASSUME NEW o \in Op, Failed(o) PROVE Kept
    BY <1>6 DEF Failed, Undispatched
  <1>7. ASSUME NEW o \in Op, AbandonUndispatched(o) PROVE Kept
    BY <1>7 DEF AbandonUndispatched, Undispatched
  <1>8. ASSUME UNCHANGED stage PROVE Kept
    BY <1>8
  <1>9. ASSUME NEW o \in Op, NEW usage \in Reports, RecordUsage(o, usage)
        PROVE  UNCHANGED stage
    BY <1>9 DEF RecordUsage
  <1>10. ASSUME NEW o \in Op, NEW g \in Guard, NEW allowed \in BOOLEAN,
                RecordGuard(o, g, allowed)
         PROVE  UNCHANGED stage
    BY <1>10 DEF RecordGuard
  <1>11. ASSUME NEW o \in Op, NEW event \in EventStage, RecordEvent(o, event)
         PROVE  UNCHANGED stage
    BY <1>11 DEF RecordEvent
  <1>12. ASSUME (\E value \in Outcome : Finish(value)) \/ Tick \/ Reopen \/ UNCHANGED vars
         PROVE  UNCHANGED stage
    BY <1>12 DEF Finish, Tick, Reopen, vars
  <1> QED
    BY <1>1, <1>2, <1>3, <1>4, <1>5, <1>6, <1>7, <1>8, <1>9, <1>10, <1>11, <1>12 DEF Next

\* An authorised effect leaves "dispatched" only with its output and "returned" only
\* evaluated: no failure, recovery or restart makes the journal forget it.
THEOREM NeverForgotten == Spec => EffectNeverForgotten
  BY Typing, EffectStep, PTL DEF Spec, EffectNeverForgotten

LEMMA UnknownStep ==
  ASSUME SerialInv, [Next]_vars, NEW o \in Op, stage[o] = "dispatched"
  PROVE  UNCHANGED <<reservations, output_reservations, commits>>
  <1> USE DEF SerialInv
  <1>0. o \in Pending
    BY DEF Pending, Unfinished
  \* every transaction that authorises or publishes needs an operation at another stage
  <1>1. ASSUME NEW p \in Op, stage[p] \in {"proposed", "returned"} PROVE FALSE
    <2>1. p \in Pending
      BY <1>1 DEF Pending, Unfinished
    <2> QED
      BY <1>0, <1>1, <2>1, PendingUnique
  <1>2. ASSUME NEW p \in Op, NEW b \in Revision, NEW plan \in Plans \cup {NoReservation},
               NEW required \in SUBSET Guard, Start(p, b, plan, required)
        PROVE  FALSE
    BY <1>0, <1>2 DEF Start, CanStart, CheckReady
  <1>3. ASSUME NEW p \in Op, NEW observes \in BOOLEAN, NEW external \in BOOLEAN,
               Dispatch(p, observes, external)
        PROVE  FALSE
    BY <1>1, <1>3 DEF Dispatch, CanDispatch
  <1>4. ASSUME NEW p \in Op, NEW evaluation \in Evaluation, Complete(p, evaluation)
        PROVE  FALSE
    BY <1>1, <1>4 DEF Complete, CanComplete
  <1> DEFINE Same == UNCHANGED <<reservations, output_reservations, commits>>
  <1>5. ASSUME NEW p \in Op, NEW usage \in Reports, RecordUsage(p, usage) PROVE Same
    BY <1>5 DEF RecordUsage
  <1>6. ASSUME NEW p \in Op, Proposed(p) PROVE Same
    BY <1>6 DEF Proposed, tokens
  <1>7. ASSUME NEW p \in Op, NEW g \in Guard, NEW allowed \in BOOLEAN,
               RecordGuard(p, g, allowed)
        PROVE  Same
    BY <1>7 DEF RecordGuard, tokens
  <1>8. ASSUME NEW p \in Op, NEW event \in EventStage, RecordEvent(p, event) PROVE Same
    BY <1>8 DEF RecordEvent, tokens
  <1>9. ASSUME NEW p \in Op, NEW result \in Output, Returned(p, result) PROVE Same
    BY <1>9 DEF Returned, tokens
  <1>10. ASSUME NEW p \in Op, Failed(p) PROVE Same
    BY <1>10 DEF Failed, tokens
  <1>11. ASSUME NEW p \in Op, AbandonUndispatched(p) PROVE Same
    BY <1>11 DEF AbandonUndispatched, tokens
  <1>12. ASSUME (\E value \in Outcome : Finish(value)) \/ Tick \/ Reopen \/ UNCHANGED vars
         PROVE  Same
    BY <1>12 DEF Finish, Tick, Reopen, vars, tokens
  <1> QED
    BY <1>2, <1>3, <1>4, <1>5, <1>6, <1>7, <1>8, <1>9, <1>10, <1>11, <1>12 DEF Next

\* While the result of an effect is unknown nothing is authorised or published.
THEOREM UnknownBlocks == Spec => UnknownEffectBlocks
  <1>1. SerialInv /\ [Next]_vars =>
          ((\E o \in Op : stage[o] = "dispatched") =>
              UNCHANGED <<reservations, output_reservations, commits>>)
    BY UnknownStep
  <1>2. Spec => []SerialInv
    BY InitSerial, StepSerial, PTL DEF Spec
  <1> QED
    BY <1>1, <1>2, PTL DEF Spec, UnknownEffectBlocks
LEMMA TerminalStep ==
  ASSUME TypeOK, [Next]_vars, outcome # NoOutcome
  PROVE  /\ UNCHANGED <<outcome, reservations, guards, tokens, evaluations, commits,
                        lifecycle_events>>
         /\ \A o \in Op : stage'[o] # stage[o] =>
               \/ stage[o] = "dispatched" /\ stage'[o] = "returned"
               \/ stage[o] \in Undispatched /\ stage'[o] = "failed"
  <1> DEFINE Frozen == /\ UNCHANGED <<outcome, reservations, guards, tokens, evaluations,
                                      commits, lifecycle_events>>
                       /\ \A o \in Op : stage'[o] # stage[o] =>
                             \/ stage[o] = "dispatched" /\ stage'[o] = "returned"
                             \/ stage[o] \in Undispatched /\ stage'[o] = "failed"
  <1>0. ~RequireOpen
    BY DEF RequireOpen
  <1>1. \A o \in Op :
           /\ \A b \in Revision, plan \in Plans \cup {NoReservation}, required \in SUBSET Guard :
                 ~Start(o, b, plan, required)
           /\ \A usage \in Reports : ~RecordUsage(o, usage)
           /\ ~Proposed(o)
           /\ \A g \in Guard, allowed \in BOOLEAN : ~RecordGuard(o, g, allowed)
           /\ \A event \in EventStage : ~RecordEvent(o, event)
           /\ \A observes, external \in BOOLEAN : ~Dispatch(o, observes, external)
           /\ \A evaluation \in Evaluation : ~Complete(o, evaluation)
           /\ ~AbandonUndispatched(o)
    BY <1>0 DEF Start, CanStart, CheckReady, RecordUsage, CanRecordUsage, Proposed, CanPropose,
                RecordGuard, CanRecordGuard, RecordEvent, CanRecordEvent, Dispatch, CanDispatch,
                Complete, CanComplete, RequireTime, AbandonUndispatched
  <1>2. \A value \in Outcome : ~Finish(value)
    BY <1>0 DEF Finish
  <1>3. ASSUME NEW o \in Op, NEW result \in Output, Returned(o, result) PROVE Frozen
    BY <1>3 DEF Returned, TypeOK
  <1>4. ASSUME NEW o \in Op, Failed(o) PROVE Frozen
    BY <1>4 DEF Failed, TypeOK
  <1>5. ASSUME Tick \/ Reopen \/ UNCHANGED vars PROVE Frozen
    BY <1>5 DEF Tick, Reopen, vars
  <1> QED
    BY <1>1, <1>2, <1>3, <1>4, <1>5 DEF Next

\* An ended run accepts only the late evidence of an authorised effect, and the failure
\* of an attempt that had none.
THEOREM Terminal == Spec => TerminalFrozen
  <1>1. TypeOK /\ [Next]_vars =>
          (outcome # NoOutcome =>
             /\ UNCHANGED <<outcome, reservations, guards, tokens, evaluations, commits,
                            lifecycle_events>>
             /\ \A o \in Op : stage'[o] # stage[o] =>
                   \/ stage[o] = "dispatched" /\ stage'[o] = "returned"
                   \/ stage[o] \in Undispatched /\ stage'[o] = "failed")
    BY TerminalStep
  <1> QED
    BY <1>1, Typing, PTL DEF Spec, TerminalFrozen

-----------------------------------------------------------------------------
(* Observations                                                            *)

\* an output is only kept by the stages after its return
OutputFollowsStage ==
  \A o \in Op : output[o] # NoOutput => stage[o] \in {"returned", "completed"}

ObservationInv == SerialInv /\ OutputFollowsStage

LEMMA InitObservation == Init => ObservationInv
  BY InitSerial DEF Init, ObservationInv, OutputFollowsStage

\* Nothing but a return changes the outputs or which of them are observations.
LEMMA ObservedStep ==
  ASSUME ObservationInv, [Next]_vars, \A o \in Op, result \in Output : ~Returned(o, result)
  PROVE  UNCHANGED output /\ UNCHANGED Observed
  <1> DEFINE Same == UNCHANGED output /\ UNCHANGED Observed
  <1>0. ASSUME UNCHANGED <<output, observation>> PROVE Same
    BY <1>0 DEF Observed
  <1>1. ASSUME NEW o \in Op, NEW b \in Revision, NEW plan \in Plans \cup {NoReservation},
               NEW required \in SUBSET Guard, Start(o, b, plan, required)
        PROVE  Same
    BY <1>0, <1>1 DEF Start
  <1>2. ASSUME NEW o \in Op, NEW usage \in Reports, RecordUsage(o, usage) PROVE Same
    BY <1>0, <1>2 DEF RecordUsage, rows
  <1>3. ASSUME NEW o \in Op, Proposed(o) \/ Failed(o) \/ AbandonUndispatched(o) PROVE Same
    BY <1>0, <1>3 DEF Proposed, Failed, AbandonUndispatched, rows
  <1>4. ASSUME NEW o \in Op, NEW g \in Guard, NEW allowed \in BOOLEAN,
               RecordGuard(o, g, allowed)
        PROVE  Same
    BY <1>0, <1>4 DEF RecordGuard, rows
  <1>5. ASSUME NEW o \in Op, NEW event \in EventStage, RecordEvent(o, event) PROVE Same
    BY <1>0, <1>5 DEF RecordEvent, rows
  <1>6. ASSUME NEW o \in Op, NEW observes \in BOOLEAN, NEW external \in BOOLEAN,
               Dispatch(o, observes, external)
        PROVE  Same
    <2>1. /\ stage[o] = "proposed" /\ output' = output
          /\ observation' = [observation EXCEPT ![o] = observes]
      BY <1>6 DEF Dispatch, CanDispatch
    <2>2. output[o] = NoOutput
      BY <2>1 DEF ObservationInv, OutputFollowsStage
    <2> QED
      BY <2>1, <2>2 DEF Observed, ObservationInv, SerialInv, TypeOK
  <1>7. ASSUME NEW o \in Op, NEW evaluation \in Evaluation, Complete(o, evaluation) PROVE Same
    BY <1>0, <1>7 DEF Complete, rows
  <1>8. ASSUME (\E value \in Outcome : Finish(value)) \/ Tick \/ Reopen \/ UNCHANGED vars
        PROVE  Same
    BY <1>0, <1>8 DEF Finish, Tick, Reopen, rows, vars
  <1> QED
    BY <1>1, <1>2, <1>3, <1>4, <1>5, <1>6, <1>7, <1>8 DEF Next

LEMMA StepObservation == ObservationInv /\ [Next]_vars => ObservationInv'
  <1> SUFFICES ASSUME ObservationInv, [Next]_vars PROVE OutputFollowsStage'
    BY StepSerial DEF ObservationInv
  <1>1. ASSUME NEW o \in Op, NEW result \in Output, Returned(o, result)
        PROVE  OutputFollowsStage'
    BY <1>1 DEF Returned, OutputFollowsStage, ObservationInv, SerialInv, TypeOK
  <1>2. ASSUME \A o \in Op, result \in Output : ~Returned(o, result)
        PROVE  OutputFollowsStage'
    <2>1. \A o \in Op : stage[o] \in {"returned", "completed"} =>
                        stage'[o] \in {"returned", "completed"}
      BY EffectStep DEF ObservationInv, SerialInv
    <2> QED
      BY <1>2, <2>1, ObservedStep DEF ObservationInv, OutputFollowsStage
  <1> QED
    BY <1>1, <1>2

\* Only returned() puts an operation at the stage "returned".
LEMMA NotReturned ==
  ASSUME TypeOK, [Next]_vars, \A o \in Op, result \in Output : ~Returned(o, result)
  PROVE  \A o \in Op : stage'[o] = "returned" => stage[o] = "returned"
  <1> DEFINE Kept == \A o \in Op : stage'[o] = "returned" => stage[o] = "returned"
  <1> USE DEF TypeOK
  <1>1. ASSUME NEW o \in Op, NEW b \in Revision, NEW plan \in Plans \cup {NoReservation},
               NEW required \in SUBSET Guard, Start(o, b, plan, required)
        PROVE  Kept
    BY <1>1 DEF Start
  <1>2. ASSUME NEW o \in Op, NEW usage \in Reports, RecordUsage(o, usage) PROVE Kept
    BY <1>2 DEF RecordUsage
  <1>3. ASSUME NEW o \in Op, Proposed(o) \/ Failed(o) \/ AbandonUndispatched(o) PROVE Kept
    BY <1>3 DEF Proposed, Failed, AbandonUndispatched
  <1>4. ASSUME NEW o \in Op, NEW g \in Guard, NEW allowed \in BOOLEAN,
               RecordGuard(o, g, allowed)
        PROVE  Kept
    BY <1>4 DEF RecordGuard
  <1>5. ASSUME NEW o \in Op, NEW event \in EventStage, RecordEvent(o, event) PROVE Kept
    BY <1>5 DEF RecordEvent
  <1>6. ASSUME NEW o \in Op, NEW observes \in BOOLEAN, NEW external \in BOOLEAN,
               Dispatch(o, observes, external)
        PROVE  Kept
    BY <1>6 DEF Dispatch
  <1>7. ASSUME NEW o \in Op, NEW evaluation \in Evaluation, Complete(o, evaluation) PROVE Kept
    BY <1>7 DEF Complete
  <1>8. ASSUME (\E value \in Outcome : Finish(value)) \/ Tick \/ Reopen \/ UNCHANGED vars
        PROVE  Kept
    BY <1>8 DEF Finish, Tick, Reopen, vars
  <1> QED
    BY <1>1, <1>2, <1>3, <1>4, <1>5, <1>6, <1>7, <1>8 DEF Next

LEMMA LatestStep ==
  ASSUME ObservationInv, [Next]_vars
  PROVE  IF Returning = {} THEN LatestObservation' = LatestObservation
         ELSE \E o \in Returning : LatestObservation' = output'[o]
  <1> USE DEF ObservationInv, SerialInv
  <1>0. ASSUME Observed' = Observed, \A p \in Observed : output'[p] = output[p]
        PROVE  LatestObservation' = LatestObservation
    <2>1. \A p \in Op : IsLatest(p)' <=> IsLatest(p)
      BY <1>0 DEF IsLatest
    <2>2. CASE \E p \in Op : IsLatest(p)
      <3> DEFINE last == CHOOSE p \in Op : IsLatest(p)
      <3>1. last \in Op /\ IsLatest(last)
        BY <2>2
      <3>2. (CHOOSE p \in Op : IsLatest(p)') = last
        BY <2>1
      <3>3. LatestObservation = output[last]
        BY <2>2 DEF LatestObservation
      <3>4. LatestObservation' = output'[last]
        BY <2>1, <3>1, <3>2 DEF LatestObservation
      <3>5. output'[last] = output[last]
        BY <1>0, <3>1 DEF IsLatest
      <3> QED
        BY <3>3, <3>4, <3>5
    <2>3. CASE ~\E p \in Op : IsLatest(p)
      BY <2>1, <2>3 DEF LatestObservation
    <2> QED
      BY <2>2, <2>3
  <1>1. ASSUME \A o \in Op, result \in Output : ~Returned(o, result)
        PROVE  Returning = {} /\ LatestObservation' = LatestObservation
    <2>1. output' = output /\ Observed' = Observed
      BY <1>1, ObservedStep
    <2>2. LatestObservation' = LatestObservation
      BY <1>0, <2>1
    <2>3. \A o \in Op : stage'[o] = "returned" => stage[o] = "returned"
      BY <1>1, NotReturned DEF TypeOK
    <2>4. Returning = {}
      BY <2>3 DEF Returning
    <2> QED
      BY <2>2, <2>4
  <1>2. ASSUME NEW o \in Op, NEW result \in Output, Returned(o, result)
        PROVE  /\ observation[o] => Returning = {o} /\ LatestObservation' = output'[o]
               /\ ~observation[o] => Returning = {} /\ LatestObservation' = LatestObservation
    <2>1. /\ stage[o] = "dispatched" /\ stage' = [stage EXCEPT ![o] = "returned"]
          /\ output' = [output EXCEPT ![o] = result] /\ observation' = observation
      BY <1>2 DEF Returned
    <2>2. output[o] = NoOutput /\ result # NoOutput
      BY <2>1, OutputAssumption DEF OutputFollowsStage
    <2>3. CASE ~observation[o]
      <3>1. Observed' = Observed /\ o \notin Observed
        BY <2>1, <2>2, <2>3 DEF Observed, TypeOK
      <3>2. \A p \in Observed : output'[p] = output[p]
        BY <2>1, <3>1 DEF Observed, TypeOK
      <3>3. LatestObservation' = LatestObservation
        BY <1>0, <3>1, <3>2
      <3>4. Returning = {}
        BY <2>1, <2>3 DEF TypeOK, Returning
      <3> QED
        BY <2>3, <3>3, <3>4
    <2>4. CASE observation[o]
      <3>1. Observed' = Observed \cup {o}
        BY <2>1, <2>2, <2>4 DEF Observed, TypeOK
      <3>2. \A p \in Observed : p \in Op /\ p <= o
        <4>1. o \in Pending
          BY <2>1 DEF Pending, Unfinished
        <4> QED
          BY <4>1, PendingNewest DEF Observed, OutputFollowsStage
      <3>3. o \in Int /\ o <= o
        BY MaxOpsAssumption
      <3>4. o \in Observed' /\ \A p \in Observed' : p \in Int /\ p <= o
        BY <3>1, <3>2, <3>3, MaxOpsAssumption
      <3>5. ASSUME NEW p \in Op, IsLatest(p)' PROVE p = o
        <4>1. o <= p /\ p <= o /\ p \in Int
          BY <3>4, <3>5 DEF IsLatest
        <4> QED
          BY <3>3, <4>1
      <3>6. IsLatest(o)'
        BY <3>4 DEF IsLatest
      <3>7. (CHOOSE p \in Op : IsLatest(p)') = o
        BY <3>5, <3>6
      <3>8. LatestObservation' = output'[o]
        BY <3>6, <3>7 DEF LatestObservation
      <3>9. Returning = {o}
        BY <2>1, <2>4 DEF TypeOK, Returning
      <3> QED
        BY <2>4, <3>8, <3>9
    <2> QED
      BY <2>3, <2>4
  <1>3. IF Returning = {} THEN LatestObservation' = LatestObservation
        ELSE \E o \in Returning : LatestObservation' = output'[o]
    <2>1. CASE \A o \in Op, result \in Output : ~Returned(o, result)
      BY <1>1, <2>1
    <2>2. CASE \E o \in Op, result \in Output : Returned(o, result)
      <3>1. PICK o \in Op, result \in Output : Returned(o, result)
        BY <2>2
      <3> QED
        BY <1>2, <3>1
    <2> QED
      BY <2>1, <2>2
  <1> QED
    BY <1>3

\* The observation shown to the model is replaced only by the observation that returns.
THEOREM Observes == Spec => ObservationIsLastReturned
  <1>1. ObservationInv /\ [Next]_vars =>
          IF Returning = {} THEN LatestObservation' = LatestObservation
          ELSE \E o \in Returning : LatestObservation' = output'[o]
    BY LatestStep
  <1>2. Spec => []ObservationInv
    BY InitObservation, StepObservation, PTL DEF Spec
  <1> QED
    BY <1>1, <1>2, PTL DEF Spec, ObservationIsLastReturned

-----------------------------------------------------------------------------
(* Refinement: the journal implements AbstractRun                          *)

PromiseInv == SerialInv /\ AuthorityInv

\* The phase is what the one unfinished operation is waiting for.
LEMMA PhaseOf ==
  ASSUME SerialInv, NEW o \in Op
  PROVE  /\ stage[o] \in Undispatched => Phase = "attempt"
         /\ stage[o] = "dispatched" => Phase = "unknown"
         /\ stage[o] = "returned" => Phase = "evidence"
  <1>1. ASSUME stage[o] \in Unfinished, NEW p \in Op, stage[p] \in Unfinished PROVE p = o
    BY <1>1, PendingUnique DEF SerialInv, Pending
  <1> QED
    BY <1>1 DEF Phase, Unfinished, Undispatched

LEMMA PhaseIdle ==
  ASSUME Pending = {}
  PROVE  Phase = "idle"
  BY DEF Phase, Pending, Unfinished, Undispatched

\* Closing the unfinished operation makes the run idle again.
LEMMA ClosedIdle ==
  ASSUME SerialInv, NEW o \in Op, stage[o] \in Unfinished,
         NEW s \in {"completed", "failed"}, stage' = [stage EXCEPT ![o] = s]
  PROVE  Phase' = "idle"
  <1>1. \A p \in Pending : p = o
    BY PendingUnique DEF SerialInv, Pending
  <1>2. \A p \in Op : stage'[p] \notin Unfinished
    BY <1>1 DEF SerialInv, TypeOK, Pending, Unfinished
  <1> QED
    BY <1>2 DEF Phase, Unfinished, Undispatched

LEMMA InitPromise == Init => Promise!Init
  <1> SUFFICES ASSUME Init PROVE Promise!Init
    OBVIOUS
  <1>1. Reserved("inference") = {} /\ Reserved("tool") = {}
    BY DEF Init, Reserved
  <1>2. Phase = "idle"
    BY PhaseIdle DEF Init, Pending, Unfinished
  <1> QED
    BY <1>1, <1>2, FS_EmptySet DEF Init, Promise!Init, CurrentRevision

LEMMA StepPromise == PromiseInv /\ PromiseInv' /\ [Next]_vars => [Promise!Next]_(Promise!vars)
  <1> SUFFICES ASSUME PromiseInv, PromiseInv', [Next]_vars
               PROVE  Promise!Next \/ UNCHANGED Promise!vars
    OBVIOUS
  <1> USE DEF PromiseInv
  <1>1. ASSUME NEW o \in Op, NEW b \in Revision, NEW plan \in Plans \cup {NoReservation},
               NEW required \in SUBSET Guard, Start(o, b, plan, required)
        PROVE  Promise!Begin
    <2>1. /\ outcome = NoOutcome /\ Pending = {} /\ stage[o] = "none"
          /\ stage' = [stage EXCEPT ![o] = "inference"]
          /\ reservations' = reservations \cup {<<o, "inference">>}
          /\ Limit("inference") - Cardinality(Reserved("inference")) > 0
          /\ UNCHANGED <<outcome, commits>>
      BY <1>1 DEF Start, CanStart, CheckReady, RequireOpen, Fresh, Remaining
    <2>2. Phase = "idle"
      BY <2>1, PhaseIdle
    <2>3. Phase' = "attempt"
      BY <2>1 DEF Phase, Undispatched, SerialInv, TypeOK
    <2>4. /\ o \notin Reserved("inference")
          /\ Reserved("inference")' = Reserved("inference") \cup {o}
          /\ Reserved("tool")' = Reserved("tool")
      BY <2>1 DEF Reserved, AuthorityInv, ReservationsFollowStage
    <2>5. Cardinality(Reserved("inference")') = Cardinality(Reserved("inference")) + 1
      BY <2>4, ReserveCounts
    <2>6. Cardinality(Reserved("inference")) < InferenceCalls
      BY <2>1, ReservedFinite, LimitsAssumption DEF Limit
    <2> QED
      BY <2>1, <2>2, <2>3, <2>4, <2>5, <2>6 DEF Promise!Begin, CurrentRevision
  <1>2. ASSUME NEW o \in Op, NEW observes \in BOOLEAN, NEW external \in BOOLEAN,
               Dispatch(o, observes, external)
        PROVE  Promise!Act
    <2>1. /\ outcome = NoOutcome /\ stage[o] = "proposed"
          /\ stage' = [stage EXCEPT ![o] = "dispatched"]
          /\ reservations' = reservations \cup {<<o, "tool">>}
                                           \cup (IF external THEN {<<o, "external">>} ELSE {})
          /\ Limit("tool") - Cardinality(Reserved("tool")) > 0
          /\ UNCHANGED <<outcome, commits>>
      BY <1>2 DEF Dispatch, CanDispatch, RequireTime, RequireOpen, Remaining
    <2>2. Phase = "attempt"
      BY <2>1, PhaseOf DEF Undispatched
    <2>3. Phase' = "unknown"
      <3>1. \A p \in Op : stage[p] \in Unfinished => p = o
        BY <2>1, PendingUnique DEF SerialInv, Pending, Unfinished
      <3> QED
        BY <2>1, <3>1 DEF Phase, Unfinished, Undispatched, SerialInv, TypeOK
    <2>4. /\ o \notin Reserved("tool")
          /\ Reserved("tool")' = Reserved("tool") \cup {o}
          /\ Reserved("inference")' = Reserved("inference")
      BY <2>1 DEF Reserved, AuthorityInv, ReservationsFollowStage
    <2>5. Cardinality(Reserved("tool")') = Cardinality(Reserved("tool")) + 1
      BY <2>4, ReserveCounts
    <2>6. Cardinality(Reserved("tool")) < ToolCalls
      BY <2>1, ReservedFinite, LimitsAssumption DEF Limit
    <2> QED
      BY <2>1, <2>2, <2>3, <2>4, <2>5, <2>6 DEF Promise!Act, CurrentRevision
  <1>3. ASSUME NEW o \in Op, NEW result \in Output, Returned(o, result) PROVE Promise!Learn
    <2>1. /\ stage[o] = "dispatched" /\ stage' = [stage EXCEPT ![o] = "returned"]
          /\ UNCHANGED <<outcome, reservations, commits>>
      BY <1>3 DEF Returned
    <2>2. Phase = "unknown"
      BY <2>1, PhaseOf
    <2>3. Phase' = "evidence"
      <3>1. \A p \in Op : stage[p] \in Unfinished => p = o
        BY <2>1, PendingUnique DEF SerialInv, Pending, Unfinished
      <3> QED
        BY <2>1, <3>1 DEF Phase, Unfinished, Undispatched, SerialInv, TypeOK
    <2> QED
      BY <2>1, <2>2, <2>3 DEF Promise!Learn, CurrentRevision, Reserved
  <1>4. ASSUME NEW o \in Op, NEW evaluation \in Evaluation, Complete(o, evaluation)
        PROVE  Promise!Judge
    <2>1. /\ outcome = NoOutcome /\ stage[o] = "returned"
          /\ stage' = [stage EXCEPT ![o] = "completed"]
          /\ UNCHANGED <<outcome, reservations>>
      BY <1>4 DEF Complete, CanComplete, RequireTime, RequireOpen
    <2>2. Phase = "evidence"
      BY <2>1, PhaseOf
    <2>3. Phase' = "idle"
      BY <2>1, ClosedIdle DEF Unfinished
    <2>4. Len(commits') \in {Len(commits), Len(commits) + 1}
      <3> DEFINE row == [operation |-> o, base |-> base[o]]
      <3>1. commits' = commits \/ commits' = Append(commits, row)
        BY <1>4 DEF Complete
      <3>2. commits \in Seq([operation : Op, base : Revision])
        BY DEF SerialInv, TypeOK
      <3> HIDE DEF row
      <3> QED
        BY <3>1, <3>2
    <2> QED
      BY <2>1, <2>2, <2>3, <2>4 DEF Promise!Judge, CurrentRevision, Reserved
  \* failed() and abandon_undispatched() close the attempt, or change nothing that counts
  <1>5. ASSUME NEW o \in Op, stage[o] \in Undispatched,
               stage' = [stage EXCEPT ![o] = "failed"],
               UNCHANGED <<outcome, reservations, commits>>
        PROVE  Promise!Abort
    <2>1. Phase = "attempt" /\ Phase' = "idle"
      BY <1>5, PhaseOf, ClosedIdle DEF Unfinished, Undispatched
    <2> QED
      BY <1>5, <2>1 DEF Promise!Abort, CurrentRevision, Reserved
  <1>6. ASSUME UNCHANGED <<stage, outcome, reservations, commits>>
        PROVE  UNCHANGED Promise!vars
    BY <1>6 DEF Promise!vars, Phase, CurrentRevision, Reserved
  <1>7. ASSUME NEW o \in Op, Failed(o) PROVE Promise!Abort \/ UNCHANGED Promise!vars
    <2>1. CASE stage[o] \in Undispatched
      BY <1>5, <1>7, <2>1 DEF Failed, SerialInv, TypeOK
    <2>2. CASE stage[o] \notin Undispatched
      BY <1>6, <1>7, <2>2 DEF Failed, SerialInv, TypeOK
    <2> QED
      BY <2>1, <2>2
  <1>8. ASSUME NEW o \in Op, AbandonUndispatched(o) PROVE Promise!Abort
    BY <1>5, <1>8 DEF AbandonUndispatched
  <1>9. ASSUME NEW o \in Op, Proposed(o) PROVE UNCHANGED Promise!vars
    <2>1. /\ stage[o] = "inference" /\ stage' = [stage EXCEPT ![o] = "proposed"]
          /\ UNCHANGED <<outcome, reservations, commits>>
      BY <1>9 DEF Proposed, CanPropose
    <2>2. Phase = "attempt"
      BY <2>1, PhaseOf DEF Undispatched
    <2>3. Phase' = "attempt"
      BY <2>1 DEF Phase, Undispatched, SerialInv, TypeOK
    <2> QED
      BY <2>1, <2>2, <2>3 DEF Promise!vars, CurrentRevision, Reserved
  <1>10. ASSUME NEW value \in Outcome, Finish(value) PROVE Promise!End
    <2>1. /\ outcome = NoOutcome /\ outcome' # NoOutcome
          /\ UNCHANGED <<stage, reservations, commits>>
      BY <1>10, OutcomeAssumption DEF Finish, RequireOpen
    <2> QED
      BY <2>1 DEF Promise!End, Phase, CurrentRevision, Reserved
  <1>11. ASSUME NEW o \in Op, NEW usage \in Reports, RecordUsage(o, usage)
         PROVE  UNCHANGED Promise!vars
    BY <1>6, <1>11 DEF RecordUsage
  <1>12. ASSUME NEW o \in Op, NEW g \in Guard, NEW allowed \in BOOLEAN,
                RecordGuard(o, g, allowed)
         PROVE  UNCHANGED Promise!vars
    BY <1>6, <1>12 DEF RecordGuard
  <1>13. ASSUME NEW o \in Op, NEW event \in EventStage, RecordEvent(o, event)
         PROVE  UNCHANGED Promise!vars
    BY <1>6, <1>13 DEF RecordEvent
  <1>14. ASSUME Tick \/ Reopen \/ UNCHANGED vars PROVE UNCHANGED Promise!vars
    BY <1>6, <1>14 DEF Tick, Reopen, vars
  <1> QED
    BY <1>1, <1>2, <1>3, <1>4, <1>7, <1>8, <1>9, <1>10, <1>11, <1>12, <1>13, <1>14
       DEF Next, Promise!Next

\* Every behaviour of the journal, under any client, is one AbstractRun allows.
THEOREM Implements == Spec => ImplementsPromise
  <1>1. Spec => []PromiseInv
    BY InitSerial, StepSerial, InitAuthority, StepAuthority, PTL DEF Spec, PromiseInv
  <1> QED
    BY <1>1, InitPromise, StepPromise, PTL DEF Spec, ImplementsPromise, Promise!Spec
=============================================================================
