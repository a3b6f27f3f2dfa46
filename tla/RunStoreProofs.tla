--------------------------- MODULE RunStoreProofs ---------------------------
(***************************************************************************)
(* What RunStore guarantees for every number of operations, every limit,   *)
(* every set of guards, outputs, plans and reports, and every client.      *)
(***************************************************************************)
EXTENDS RunStore, FiniteSetTheorems, TLAPS

USE DEF Op, NoTokens

-----------------------------------------------------------------------------
(* Type correctness *)

LEMMA InitTyped == Init => TypeOK
  <1> SUFFICES ASSUME Init PROVE TypeOK
    OBVIOUS
  <1>1. /\ base \in [Op -> Revision]
        /\ commits \in Seq([operation : Op, base : Revision])
    BY MaxOpsAssumption DEF Init, Revision
  <1>2. /\ stage \in [Op -> Stage \cup {"none"}]
        /\ observation \in [Op -> BOOLEAN]
        /\ output \in [Op -> Output \cup {NoOutput}]
        /\ output_reservations \in [Op -> Plans \cup {NoReservation}]
        /\ inference_usage \in [Op -> Reports \cup {NoUsage}]
        /\ evaluations \in [Op -> Evaluation \cup {NoEvaluation}]
    BY DEF Init
  <1> QED
    BY <1>1, <1>2 DEF Init, TypeOK

LEMMA StepTyped == TypeOK /\ [Next]_vars => TypeOK'
  <1> SUFFICES ASSUME TypeOK, [Next]_vars PROVE TypeOK'
    OBVIOUS
  <1> USE DEF TypeOK, clocks, guards, tokens, rows
  <1>1. ASSUME NEW o \in Op, NEW b \in Revision, NEW plan \in Plans \cup {NoReservation},
               NEW required \in SUBSET Guard, Start(o, b, plan, required)
        PROVE  TypeOK'
    BY <1>1 DEF Start, Stage, Kind
  <1>2. ASSUME NEW o \in Op, NEW usage \in Reports, RecordUsage(o, usage) PROVE TypeOK'
    BY <1>2 DEF RecordUsage
  <1>3. ASSUME NEW o \in Op, Proposed(o) PROVE TypeOK'
    BY <1>3 DEF Proposed, Stage
  <1>4. ASSUME NEW o \in Op, NEW g \in Guard, NEW allowed \in BOOLEAN,
               RecordGuard(o, g, allowed)
        PROVE  TypeOK'
    BY <1>4 DEF RecordGuard
  <1>5. ASSUME NEW o \in Op, NEW event \in EventStage, RecordEvent(o, event) PROVE TypeOK'
    BY <1>5 DEF RecordEvent
  <1>6. ASSUME NEW o \in Op, NEW observes \in BOOLEAN, NEW external \in BOOLEAN,
               Dispatch(o, observes, external)
        PROVE  TypeOK'
    BY <1>6 DEF Dispatch, Stage, Kind
  <1>7. ASSUME NEW o \in Op, NEW result \in Output, Returned(o, result) PROVE TypeOK'
    BY <1>7 DEF Returned, Stage
  <1>8. ASSUME NEW o \in Op, NEW evaluation \in Evaluation, Complete(o, evaluation)
        PROVE  TypeOK'
    <2> DEFINE S   == [operation : Op, base : Revision]
               row == [operation |-> o, base |-> base[o]]
    <2>1. row \in S
      OBVIOUS
    <2>2. \A s \in Seq(S), r \in S : Append(s, r) \in Seq(S)
      OBVIOUS
    <2>3. commits' \in Seq(S)
      <3> HIDE DEF S, row
      <3>1. commits \in Seq(S)
        BY DEF S
      <3>2. commits' = Append(commits, row) \/ commits' = commits
        BY <1>8 DEF Complete, row
      <3> QED
        BY <2>1, <2>2, <3>1, <3>2
    <2> QED
      BY <1>8, <2>3 DEF Complete, Stage
  <1>9. ASSUME NEW o \in Op, Failed(o) PROVE TypeOK'
    BY <1>9 DEF Failed, Stage
  <1>10. ASSUME NEW o \in Op, AbandonUndispatched(o) PROVE TypeOK'
    BY <1>10 DEF AbandonUndispatched, Stage
  <1>11. ASSUME NEW value \in Outcome, Finish(value) PROVE TypeOK'
    BY <1>11 DEF Finish
  <1>12. CASE Tick
    BY <1>12 DEF Tick
  <1>13. CASE Reopen
    BY <1>13, LimitsAssumption DEF Reopen
  <1>14. CASE UNCHANGED vars
    BY <1>14 DEF vars
  <1> QED
    BY <1>1, <1>2, <1>3, <1>4, <1>5, <1>6, <1>7, <1>8, <1>9, <1>10, <1>11,
       <1>12, <1>13, <1>14 DEF Next

\* Every column keeps its domain, whatever the client calls.
THEOREM Typing == Spec => []TypeOK
  BY InitTyped, StepTyped, PTL DEF Spec
-----------------------------------------------------------------------------
(* Serialisation: one operation at a time, on the state it will publish    *)

SerialInv == TypeOK /\ OneAtATime /\ PendingBaseCurrent

\* Two unfinished operations are the same operation.
LEMMA PendingUnique ==
  ASSUME TypeOK, OneAtATime, NEW o \in Pending, NEW p \in Pending
  PROVE  o = p
  <1>1. /\ o \in Op /\ p \in Op
        /\ stage[o] \notin {"none", "completed", "failed"}
        /\ stage[p] \notin {"none", "completed", "failed"}
    BY DEF Pending, Unfinished
  <1>2. ~(o < p) /\ ~(p < o)
    BY <1>1, MaxOpsAssumption DEF OneAtATime
  <1> QED
    BY <1>1, <1>2, MaxOpsAssumption

\* An unfinished operation is the newest row.
LEMMA PendingNewest ==
  ASSUME TypeOK, OneAtATime, NEW o \in Pending, NEW p \in Op, stage[p] # "none"
  PROVE  p <= o
  BY MaxOpsAssumption DEF OneAtATime, Pending, Unfinished

LEMMA InitSerial == Init => SerialInv
  BY InitTyped, MaxOpsAssumption
     DEF Init, SerialInv, OneAtATime, PendingBaseCurrent, Pending, Unfinished

LEMMA StepSerial == SerialInv /\ [Next]_vars => SerialInv'
  <1> SUFFICES ASSUME SerialInv, [Next]_vars PROVE SerialInv'
    OBVIOUS
  <1> USE DEF SerialInv
  <1>0. TypeOK'
    BY StepTyped
  <1>1. ASSUME NEW o \in Op, NEW b \in Revision, NEW plan \in Plans \cup {NoReservation},
               NEW required \in SUBSET Guard, Start(o, b, plan, required)
        PROVE  OneAtATime' /\ PendingBaseCurrent'
    <2>1. /\ \A p \in Op : stage[p] \in {"none", "completed", "failed"}
          /\ stage' = [stage EXCEPT ![o] = "inference"]
          /\ base' = [base EXCEPT ![o] = CurrentRevision]
          /\ commits' = commits
          /\ stage[o] = "none" /\ \A p \in 1..(o - 1) : stage[p] # "none"
      BY <1>1 DEF Start, CanStart, CheckReady, Fresh, Pending, Unfinished, TypeOK, Stage
    <2>2. \A p \in Op : stage[p] # "none" => p < o
      BY <2>1, MaxOpsAssumption DEF OneAtATime
    <2>3. OneAtATime'
      <3> SUFFICES ASSUME NEW p \in Op, stage'[p] # "none", NEW q \in 1..(p - 1)
                   PROVE  stage'[q] \in {"completed", "failed"}
        BY DEF OneAtATime
      <3>1. q \in Op /\ q < p
        BY MaxOpsAssumption
      <3>2. p <= o
        BY <2>1, <2>2, MaxOpsAssumption DEF TypeOK
      <3>3. q # o /\ q \in 1..(o - 1)
        BY <3>1, <3>2, MaxOpsAssumption
      <3>4. stage[q] # "none" /\ stage'[q] = stage[q]
        BY <2>1, <3>1, <3>3 DEF TypeOK
      <3> QED
        BY <2>1, <3>1, <3>4
    <2>4. PendingBaseCurrent'
      BY <2>1 DEF PendingBaseCurrent, Pending, Unfinished, CurrentRevision, TypeOK
    <2> QED
      BY <2>3, <2>4
  <1>2. ASSUME NEW o \in Op, NEW evaluation \in Evaluation, Complete(o, evaluation)
        PROVE  OneAtATime' /\ PendingBaseCurrent'
    <2>1. /\ stage[o] = "returned" /\ stage' = [stage EXCEPT ![o] = "completed"]
          /\ base' = base
      BY <1>2 DEF Complete, CanComplete, rows
    <2>2. OneAtATime'
      BY <2>1, MaxOpsAssumption DEF OneAtATime, TypeOK
    <2>3. \A p \in Pending : p = o
      <3>1. o \in Pending
        BY <2>1 DEF Pending, Unfinished
      <3> QED
        BY <3>1, PendingUnique
    <2>4. Pending' = {}
      BY <2>1, <2>3 DEF Pending, Unfinished, TypeOK
    <2> QED
      BY <2>2, <2>4 DEF PendingBaseCurrent
  \* the stages an operation moves through between its row and its evaluation
  <1>3. ASSUME NEW o \in Op, NEW s \in Stage, stage[o] # "none",
               stage' = [stage EXCEPT ![o] = s],
               s \in Unfinished => stage[o] \in Unfinished,
               stage[o] \in {"completed", "failed"} => s = stage[o],
               UNCHANGED <<base, commits>>
        PROVE  OneAtATime' /\ PendingBaseCurrent'
    <2>1. OneAtATime'
      BY <1>3, MaxOpsAssumption DEF OneAtATime, TypeOK, Stage
    <2>2. Pending' \subseteq Pending
      <3>1. \A p \in Op : p # o => stage'[p] = stage[p]
        BY <1>3 DEF TypeOK
      <3> QED
        BY <1>3, <3>1 DEF Pending
    <2> QED
      BY <1>3, <2>1, <2>2 DEF PendingBaseCurrent, CurrentRevision, Pending
  <1>4. ASSUME NEW o \in Op, Proposed(o) PROVE OneAtATime' /\ PendingBaseCurrent'
    BY <1>3, <1>4 DEF Proposed, CanPropose, rows, TypeOK, Stage, Unfinished
  <1>5. ASSUME NEW o \in Op, NEW observes \in BOOLEAN, NEW external \in BOOLEAN,
               Dispatch(o, observes, external)
        PROVE  OneAtATime' /\ PendingBaseCurrent'
    BY <1>3, <1>5 DEF Dispatch, CanDispatch, TypeOK, Stage, Unfinished
  <1>6. ASSUME NEW o \in Op, NEW result \in Output, Returned(o, result)
        PROVE  OneAtATime' /\ PendingBaseCurrent'
    BY <1>3, <1>6 DEF Returned, TypeOK, Stage, Unfinished
  <1>7. ASSUME NEW o \in Op, Failed(o) PROVE OneAtATime' /\ PendingBaseCurrent'
    BY <1>3, <1>7 DEF Failed, rows, TypeOK, Stage, Unfinished, Undispatched
  <1>8. ASSUME NEW o \in Op, AbandonUndispatched(o) PROVE OneAtATime' /\ PendingBaseCurrent'
    BY <1>3, <1>8 DEF AbandonUndispatched, rows, TypeOK, Stage, Unfinished, Undispatched
  <1>9. ASSUME UNCHANGED <<stage, base, commits>> PROVE OneAtATime' /\ PendingBaseCurrent'
    BY <1>9 DEF OneAtATime, PendingBaseCurrent, Pending, CurrentRevision
  <1>10. ASSUME NEW o \in Op, NEW usage \in Reports, RecordUsage(o, usage)
         PROVE  UNCHANGED <<stage, base, commits>>
    BY <1>10 DEF RecordUsage, rows
  <1>11. ASSUME NEW o \in Op, NEW g \in Guard, NEW allowed \in BOOLEAN,
                RecordGuard(o, g, allowed)
         PROVE  UNCHANGED <<stage, base, commits>>
    BY <1>11 DEF RecordGuard, rows
  <1>12. ASSUME NEW o \in Op, NEW event \in EventStage, RecordEvent(o, event)
         PROVE  UNCHANGED <<stage, base, commits>>
    BY <1>12 DEF RecordEvent, rows
  <1>13. ASSUME (\E value \in Outcome : Finish(value)) \/ Tick \/ Reopen \/ UNCHANGED vars
         PROVE  UNCHANGED <<stage, base, commits>>
    BY <1>13 DEF Finish, Tick, Reopen, rows, vars
  <1> QED
    BY <1>0, <1>1, <1>2, <1>4, <1>5, <1>6, <1>7, <1>8, <1>9, <1>10, <1>11, <1>12, <1>13
       DEF Next

\* The invariant holds in every behaviour.
LEMMA SerialInvariant == Spec => []SerialInv
  BY InitSerial, StepSerial, PTL DEF Spec

\* The run never has two unfinished operations, whatever its clients do.
THEOREM Serialised == Spec => []OneAtATime
  BY SerialInvariant, PTL DEF SerialInv

\* The base of an unfinished operation is the accepted state until it completes, so the
\* stale-base refusal of complete() is never reached.
THEOREM BaseKept == Spec => []PendingBaseCurrent
  BY SerialInvariant, PTL DEF SerialInv
-----------------------------------------------------------------------------
(* Publication: the chain of accepted states                               *)

HistoryInv == SerialInv /\ CommitChain

LEMMA InitHistory == Init => HistoryInv
  BY InitSerial, OutputAssumption
     DEF Init, HistoryInv, CommitChain, Publishes, NoEvaluation

LEMMA CommitTyped ==
  ASSUME TypeOK
  PROVE  /\ Len(commits) \in Nat
         /\ \A r \in 1..Len(commits) :
               commits[r].operation \in Op /\ commits[r].base \in Revision
  <1> DEFINE S == [operation : Op, base : Revision]
  <1>1. \A row \in S : row.operation \in Op /\ row.base \in Revision
    OBVIOUS
  <1>2. Len(commits) \in Nat /\ \A r \in 1..Len(commits) : commits[r] \in S
    <2>1. commits \in Seq(S)
      BY DEF TypeOK
    <2> HIDE DEF S
    <2> QED
      BY <2>1
  <1> QED
    BY <1>1, <1>2

\* One completion publishes on top of the last commit, by the newest operation.
LEMMA CompleteKeepsChain ==
  ASSUME HistoryInv, NEW o \in Op, NEW evaluation \in Evaluation, Complete(o, evaluation)
  PROVE  CommitChain'
  <1> USE DEF HistoryInv, SerialInv
  <1> DEFINE row == [operation |-> o, base |-> base[o]]
  <1>1. /\ stage[o] = "returned" /\ stage' = [stage EXCEPT ![o] = "completed"]
        /\ base' = base /\ output' = output
        /\ evaluations' = [evaluations EXCEPT ![o] = evaluation]
        /\ base[o] = Len(commits)
        /\ evaluation.base = base[o] /\ evaluation.output = output[o]
    BY DEF Complete, CanComplete, rows, BindsCandidate, CurrentRevision
  <1>2. /\ commits \in Seq([operation : Op, base : Revision])
        /\ stage \in [Op -> Stage \cup {"none"}]
        /\ evaluations \in [Op -> Evaluation \cup {NoEvaluation}]
        /\ \A r \in 1..Len(commits) : commits[r].operation \in Op
    BY CommitTyped DEF TypeOK
  <1>3. \A r \in 1..Len(commits) : commits[r].operation < o
    <2> SUFFICES ASSUME NEW r \in 1..Len(commits) PROVE commits[r].operation < o
      OBVIOUS
    <2>1. stage[commits[r].operation] = "completed"
      BY DEF CommitChain
    <2>2. o \in Pending
      BY <1>1 DEF Pending, Unfinished
    <2>3. commits[r].operation <= o
      BY <1>2, <2>1, <2>2, PendingNewest
    <2> QED
      BY <1>1, <1>2, <2>1, <2>3, MaxOpsAssumption
  <1>4. \A r \in 1..Len(commits) :
           LET p == commits[r].operation IN
           stage'[p] = stage[p] /\ evaluations'[p] = evaluations[p]
    BY <1>1, <1>2, <1>3, MaxOpsAssumption
  <1>5. CASE ~Publishes(evaluation)
    <2>1. commits' = commits
      BY <1>5 DEF Complete
    <2>2. \A r \in 1..Len(commits') :
             LET p == commits'[r].operation IN
             /\ commits'[r].base = r - 1
             /\ stage'[p] = "completed"
             /\ Publishes(evaluations'[p])
             /\ evaluations'[p].base = base'[p] /\ evaluations'[p].output = output'[p]
             /\ base'[p] = r - 1
             /\ r > 1 => commits'[r - 1].operation < p
      BY <1>1, <1>4, <2>1 DEF CommitChain, BindsCandidate
    <2>3. \A p \in Op : Publishes(evaluations'[p]) =>
             p # o /\ evaluations'[p] = evaluations[p]
      BY <1>1, <1>2, <1>5
    <2> QED
      BY <2>1, <2>2, <2>3 DEF CommitChain, BindsCandidate
  <1>6. CASE Publishes(evaluation)
    <2>1. /\ commits' = Append(commits, row)
          /\ Len(commits') = Len(commits) + 1
          /\ \A r \in 1..Len(commits) : commits'[r] = commits[r]
          /\ commits'[Len(commits) + 1] = row
      <3>1. commits' = Append(commits, row)
        BY <1>6 DEF Complete
      <3> HIDE DEF row
      <3> QED
        BY <1>2, <3>1
    <2>2. Len(commits) \in Nat
      BY <1>2
    <2>3. ASSUME NEW r \in 1..Len(commits')
          PROVE  LET p == commits'[r].operation IN
                 /\ commits'[r].base = r - 1
                 /\ stage'[p] = "completed"
                 /\ Publishes(evaluations'[p])
                 /\ evaluations'[p].base = base'[p] /\ evaluations'[p].output = output'[p]
                 /\ base'[p] = r - 1
                 /\ r > 1 => commits'[r - 1].operation < p
      <3>1. CASE r \in 1..Len(commits)
        <4>1. r > 1 => r - 1 \in 1..Len(commits)
          BY <2>2, <3>1
        <4> QED
          BY <1>1, <1>4, <2>1, <3>1, <4>1 DEF CommitChain, BindsCandidate
      <3>2. CASE r = Len(commits) + 1
        <4>1. commits'[r] = row /\ row.operation = o /\ row.base = Len(commits)
          BY <1>1, <2>1, <3>2
        <4>2. stage'[o] = "completed" /\ evaluations'[o] = evaluation
          BY <1>1, <1>2
        <4>3. r > 1 => r - 1 \in 1..Len(commits)
          BY <2>2, <3>2
        <4>4. r > 1 => commits'[r - 1].operation < o
          BY <1>3, <2>1, <4>3
        <4>5. Publishes(evaluations'[o])
          BY <1>6, <4>2
        <4> QED
          BY <1>1, <2>2, <3>2, <4>1, <4>2, <4>4, <4>5
      <3> QED
        BY <2>1, <2>2, <3>1, <3>2
    <2>4. ASSUME NEW p \in Op, Publishes(evaluations'[p])
          PROVE  \E r \in 1..Len(commits') : commits'[r].operation = p
      <3>1. CASE p = o
        BY <2>1, <2>2, <3>1
      <3>2. CASE p # o
        <4>1. PICK r \in 1..Len(commits) : commits[r].operation = p
          BY <1>1, <1>2, <2>4, <3>2 DEF CommitChain
        <4> QED
          BY <2>1, <2>2, <4>1
      <3> QED
        BY <3>1, <3>2
    <2> QED
      BY <2>3, <2>4 DEF CommitChain, BindsCandidate
  <1> QED
    BY <1>5, <1>6

LEMMA StepHistory == HistoryInv /\ [Next]_vars => HistoryInv'
  <1> SUFFICES ASSUME HistoryInv, [Next]_vars PROVE HistoryInv'
    OBVIOUS
  <1> USE DEF HistoryInv
  <1>0. SerialInv'
    BY StepSerial
  \* a step that touches no completed operation and publishes nothing keeps the chain
  <1>1. ASSUME UNCHANGED <<evaluations, commits>>,
               \A o \in Op : stage[o] = "completed" =>
                  stage'[o] = "completed" /\ base'[o] = base[o] /\ output'[o] = output[o]
        PROVE  CommitChain'
    <2>1. \A r \in 1..Len(commits) : commits[r].operation \in Op
      BY CommitTyped DEF SerialInv
    <2> QED
      BY <1>1, <2>1 DEF CommitChain, BindsCandidate
  <1> USE DEF SerialInv, TypeOK
  <1>2. ASSUME NEW o \in Op, NEW b \in Revision, NEW plan \in Plans \cup {NoReservation},
               NEW required \in SUBSET Guard, Start(o, b, plan, required)
        PROVE  CommitChain'
    BY <1>1, <1>2 DEF Start, Fresh
  <1>3. ASSUME NEW o \in Op, NEW usage \in Reports, RecordUsage(o, usage)
        PROVE  CommitChain'
    BY <1>1, <1>3 DEF RecordUsage, rows
  <1>4. ASSUME NEW o \in Op, Proposed(o) PROVE CommitChain'
    BY <1>1, <1>4 DEF Proposed, CanPropose, rows
  <1>5. ASSUME NEW o \in Op, NEW g \in Guard, NEW allowed \in BOOLEAN,
               RecordGuard(o, g, allowed)
        PROVE  CommitChain'
    BY <1>1, <1>5 DEF RecordGuard, rows
  <1>6. ASSUME NEW o \in Op, NEW event \in EventStage, RecordEvent(o, event)
        PROVE  CommitChain'
    BY <1>1, <1>6 DEF RecordEvent, rows
  <1>7. ASSUME NEW o \in Op, NEW observes \in BOOLEAN, NEW external \in BOOLEAN,
               Dispatch(o, observes, external)
        PROVE  CommitChain'
    BY <1>1, <1>7 DEF Dispatch, CanDispatch
  <1>8. ASSUME NEW o \in Op, NEW result \in Output, Returned(o, result)
        PROVE  CommitChain'
    BY <1>1, <1>8 DEF Returned
  <1>9. ASSUME NEW o \in Op, NEW evaluation \in Evaluation, Complete(o, evaluation)
        PROVE  CommitChain'
    BY <1>9, CompleteKeepsChain
  <1>10. ASSUME NEW o \in Op, Failed(o) PROVE CommitChain'
    BY <1>1, <1>10 DEF Failed, rows, Undispatched
  <1>11. ASSUME NEW o \in Op, AbandonUndispatched(o) PROVE CommitChain'
    BY <1>1, <1>11 DEF AbandonUndispatched, rows, Undispatched
  <1>12. ASSUME (\E value \in Outcome : Finish(value)) \/ Tick \/ Reopen \/ UNCHANGED vars
         PROVE  CommitChain'
    BY <1>1, <1>12 DEF Finish, Tick, Reopen, rows, vars
  <1> QED
    BY <1>0, <1>2, <1>3, <1>4, <1>5, <1>6, <1>7, <1>8, <1>9, <1>10, <1>11, <1>12 DEF Next

\* Accepted states form one chain, each published by a completed operation on exactly
\* the evidence its evaluation names.
THEOREM Published == Spec => []CommitChain
  <1>1. Spec => []HistoryInv
    BY InitHistory, StepHistory, PTL DEF Spec
  <1> QED
    BY <1>1, PTL DEF HistoryInv
-----------------------------------------------------------------------------
(* Authority: budgets and guards                                           *)

OneDecision ==
  \A o \in Op, g \in Guard :
     ~(<<o, g, TRUE>> \in guard_decisions /\ <<o, g, FALSE>> \in guard_decisions)

AuthorityInv ==
  TypeOK /\ ReservationsFollowStage /\ BudgetRespected /\ OneDecision /\ GuardedDispatch

LEMMA ReservedFinite ==
  ASSUME NEW kind
  PROVE  /\ IsFiniteSet(Reserved(kind)) /\ Cardinality(Reserved(kind)) \in Nat
         /\ IsFiniteSet(Reserved(kind)') /\ Cardinality(Reserved(kind)') \in Nat
  <1>1. IsFiniteSet(1..MaxOps)
    BY MaxOpsAssumption, FS_Interval
  <1>2. Reserved(kind) \subseteq 1..MaxOps /\ Reserved(kind)' \subseteq 1..MaxOps
    BY DEF Reserved
  <1>3. IsFiniteSet(Reserved(kind)) /\ IsFiniteSet(Reserved(kind)')
    BY <1>1, <1>2, FS_Subset
  <1> QED
    BY <1>3, FS_CardinalityType

\* Reserving one more of a kind counts one more.
LEMMA ReserveCounts ==
  ASSUME NEW kind, NEW o \in Op, o \notin Reserved(kind), Reserved(kind)' = Reserved(kind) \cup {o}
  PROVE  Cardinality(Reserved(kind)') = Cardinality(Reserved(kind)) + 1
  BY ReservedFinite, FS_AddElement

LEMMA LimitType == \A kind \in Kind : Limit(kind) \in Nat
  BY LimitsAssumption DEF Limit, Kind

LEMMA InitAuthority == Init => AuthorityInv
  <1> SUFFICES ASSUME Init PROVE AuthorityInv
    OBVIOUS
  <1>1. \A kind \in Kind : Cardinality(Reserved(kind)) = 0
    <2>1. \A kind \in Kind : Reserved(kind) = {}
      BY DEF Init, Reserved
    <2> QED
      BY <2>1, FS_EmptySet
  <1>2. BudgetRespected
    BY <1>1, LimitType DEF BudgetRespected
  <1> QED
    BY <1>2, InitTyped
       DEF Init, AuthorityInv, ReservationsFollowStage, OneDecision, GuardedDispatch

LEMMA StepAuthority == AuthorityInv /\ [Next]_vars => AuthorityInv'
  <1> SUFFICES ASSUME AuthorityInv, [Next]_vars PROVE AuthorityInv'
    OBVIOUS
  <1> USE DEF AuthorityInv
  <1>0. TypeOK'
    BY StepTyped
  <1>1. ASSUME NEW o \in Op, NEW b \in Revision, NEW plan \in Plans \cup {NoReservation},
               NEW required \in SUBSET Guard, Start(o, b, plan, required)
        PROVE  AuthorityInv'
    <2>1. /\ stage[o] = "none" /\ stage' = [stage EXCEPT ![o] = "inference"]
          /\ reservations' = reservations \cup {<<o, "inference">>}
          /\ guard_requirements' = guard_requirements \cup ({o} \X required)
          /\ guard_decisions' = guard_decisions
          /\ Limit("inference") - Cardinality(Reserved("inference")) > 0
      BY <1>1 DEF Start, Fresh, CanStart, Remaining
    <2>2. /\ o \notin Reserved("inference")
          /\ Reserved("inference")' = Reserved("inference") \cup {o}
          /\ Reserved("tool")' = Reserved("tool")
          /\ Reserved("external")' = Reserved("external")
      BY <2>1 DEF Reserved, ReservationsFollowStage
    <2>3. BudgetRespected'
      <3>1. Cardinality(Reserved("inference")') <= Limit("inference")
        BY <2>1, <2>2, ReserveCounts, ReservedFinite, LimitType DEF Kind
      <3> QED
        BY <2>2, <3>1 DEF BudgetRespected, Kind
    <2>4. ReservationsFollowStage'
      BY <2>1 DEF ReservationsFollowStage, TypeOK
    <2>5. OneDecision' /\ GuardedDispatch'
      BY <2>1 DEF OneDecision, GuardedDispatch, ReservationsFollowStage
    <2> QED
      BY <1>0, <2>3, <2>4, <2>5
  <1>2. ASSUME NEW o \in Op, NEW observes \in BOOLEAN, NEW external \in BOOLEAN,
               Dispatch(o, observes, external)
        PROVE  AuthorityInv'
    <2>1. /\ stage[o] = "proposed" /\ stage' = [stage EXCEPT ![o] = "dispatched"]
          /\ reservations' = reservations \cup {<<o, "tool">>}
                                           \cup (IF external THEN {<<o, "external">>} ELSE {})
          /\ UNCHANGED guards
          /\ GuardsAllow(o)
          /\ Limit("tool") - Cardinality(Reserved("tool")) > 0
          /\ external => Limit("external") - Cardinality(Reserved("external")) > 0
      BY <1>2 DEF Dispatch, CanDispatch, Remaining
    <2>2. /\ o \notin Reserved("tool") /\ o \notin Reserved("external")
          /\ Reserved("tool")' = Reserved("tool") \cup {o}
          /\ Reserved("inference")' = Reserved("inference")
          /\ Reserved("external")' = IF external THEN Reserved("external") \cup {o}
                                                 ELSE Reserved("external")
      BY <2>1 DEF Reserved, ReservationsFollowStage
    <2>3. BudgetRespected'
      <3>1. Cardinality(Reserved("tool")') <= Limit("tool")
        BY <2>1, <2>2, ReserveCounts, ReservedFinite, LimitType DEF Kind
      <3>2. Cardinality(Reserved("external")') <= Limit("external")
        <4>1. CASE external
          BY <2>1, <2>2, <4>1, ReserveCounts, ReservedFinite, LimitType DEF Kind
        <4>2. CASE ~external
          BY <2>2, <4>2 DEF BudgetRespected, Kind
        <4> QED
          BY <4>1, <4>2
      <3> QED
        BY <2>2, <3>1, <3>2 DEF BudgetRespected, Kind
    <2>4. ReservationsFollowStage'
      BY <2>1 DEF ReservationsFollowStage, TypeOK
    <2>5. OneDecision' /\ GuardedDispatch'
      BY <2>1 DEF OneDecision, GuardedDispatch, GuardsAllow, guards
    <2> QED
      BY <1>0, <2>3, <2>4, <2>5
  <1>3. ASSUME NEW o \in Op, NEW g \in Guard, NEW allowed \in BOOLEAN,
               RecordGuard(o, g, allowed)
        PROVE  AuthorityInv'
    <2>1. /\ stage[o] = "proposed" /\ UNCHANGED <<stage, reservations, guard_requirements>>
          /\ guard_decisions' = guard_decisions \cup {<<o, g, allowed>>}
          /\ <<o, g, TRUE>> \notin guard_decisions /\ <<o, g, FALSE>> \notin guard_decisions
      BY <1>3 DEF RecordGuard, CanRecordGuard
    <2>2. BudgetRespected' /\ ReservationsFollowStage'
      BY <2>1 DEF BudgetRespected, Reserved, ReservationsFollowStage
    <2>3. OneDecision'
      BY <2>1 DEF OneDecision
    <2>4. GuardedDispatch'
      BY <2>1 DEF GuardedDispatch, ReservationsFollowStage
    <2> QED
      BY <1>0, <2>2, <2>3, <2>4
  \* every other transaction keeps reservations and guards, and moves no operation
  \* into or out of the stages that hold a tool reservation
  <1>4. ASSUME UNCHANGED <<reservations, guards>>,
               \A o \in Op :
                  /\ stage'[o] = "none" <=> stage[o] = "none"
                  /\ stage'[o] \in {"dispatched", "returned", "completed"}
                        <=> stage[o] \in {"dispatched", "returned", "completed"}
        PROVE  AuthorityInv'
    <2>1. BudgetRespected'
      BY <1>4 DEF BudgetRespected, Reserved
    <2>2. OneDecision' /\ GuardedDispatch'
      BY <1>4 DEF OneDecision, GuardedDispatch, guards
    <2>3. ReservationsFollowStage'
      BY <1>4 DEF ReservationsFollowStage
    <2> QED
      BY <1>0, <2>1, <2>2, <2>3
  <1> USE DEF TypeOK
  <1>5. ASSUME NEW o \in Op, NEW usage \in Reports, RecordUsage(o, usage) PROVE AuthorityInv'
    BY <1>4, <1>5 DEF RecordUsage
  <1>6. ASSUME NEW o \in Op, Proposed(o) PROVE AuthorityInv'
    BY <1>4, <1>6 DEF Proposed, CanPropose
  <1>7. ASSUME NEW o \in Op, NEW event \in EventStage, RecordEvent(o, event)
        PROVE  AuthorityInv'
    BY <1>4, <1>7 DEF RecordEvent
  <1>8. ASSUME NEW o \in Op, NEW result \in Output, Returned(o, result) PROVE AuthorityInv'
    BY <1>4, <1>8 DEF Returned
  <1>9. ASSUME NEW o \in Op, NEW evaluation \in Evaluation, Complete(o, evaluation)
        PROVE  AuthorityInv'
    BY <1>4, <1>9 DEF Complete, CanComplete
  <1>10. ASSUME NEW o \in Op, Failed(o) PROVE AuthorityInv'
    BY <1>4, <1>10 DEF Failed, Undispatched
  <1>11. ASSUME NEW o \in Op, AbandonUndispatched(o) PROVE AuthorityInv'
    BY <1>4, <1>11 DEF AbandonUndispatched, Undispatched
  <1>12. ASSUME (\E value \in Outcome : Finish(value)) \/ Tick \/ Reopen \/ UNCHANGED vars
         PROVE  AuthorityInv'
    BY <1>4, <1>12 DEF Finish, Tick, Reopen, vars
  <1> QED
    BY <1>1, <1>2, <1>3, <1>5, <1>6, <1>7, <1>8, <1>9, <1>10, <1>11, <1>12 DEF Next

\* The invariant holds in every behaviour.
LEMMA AuthorityInvariant == Spec => []AuthorityInv
  BY InitAuthority, StepAuthority, PTL DEF Spec

\* Reservations are neither half made nor given back.
THEOREM Reserving == Spec => []ReservationsFollowStage
  BY AuthorityInvariant, PTL DEF AuthorityInv

\* No client can spend more than the limits.
THEOREM WithinLimits == Spec => []BudgetRespected
  BY AuthorityInvariant, PTL DEF AuthorityInv

\* No client can have an effect that a guard refused or was not asked about.
THEOREM Authorised == Spec => []GuardedDispatch
  BY AuthorityInvariant, PTL DEF AuthorityInv
-----------------------------------------------------------------------------
(* Exposure: one unreported or breached model output at most               *)

\* there is no plan and no report before the row
RowsFirst ==
  \A o \in Op : stage[o] = "none" =>
     output_reservations[o] = NoReservation /\ inference_usage[o] = NoUsage

ExposureInv == SerialInv /\ RowsFirst /\ NoModelRequestAfterExposure

LEMMA InitExposure == Init => ExposureInv
  BY InitSerial
     DEF Init, ExposureInv, RowsFirst, NoModelRequestAfterExposure, Unresolved, Breached,
         Mismatched, Overrun, Planned

\* Whether an operation is exposed depends on its own plan and report only.
LEMMA ExposureLocal ==
  ASSUME NEW o \in Op,
         output_reservations'[o] = output_reservations[o],
         inference_usage'[o] = inference_usage[o],
         o \in (Unresolved \cup Breached)'
  PROVE  o \in Unresolved \cup Breached
  BY DEF Unresolved, Breached, Mismatched, Overrun, Planned

LEMMA StepExposure == ExposureInv /\ [Next]_vars => ExposureInv'
  <1> SUFFICES ASSUME ExposureInv, [Next]_vars PROVE ExposureInv'
    OBVIOUS
  <1> USE DEF ExposureInv, SerialInv
  <1>0. SerialInv'
    BY StepSerial
  <1>1. ASSUME NEW o \in Op, NEW b \in Revision, NEW plan \in Plans \cup {NoReservation},
               NEW required \in SUBSET Guard, Start(o, b, plan, required)
        PROVE  ExposureInv'
    <2>1. /\ stage[o] = "none" /\ \A p \in 1..(o - 1) : stage[p] # "none"
          /\ stage' = [stage EXCEPT ![o] = "inference"]
          /\ output_reservations' = [output_reservations EXCEPT ![o] = plan]
          /\ inference_usage' = inference_usage
          /\ AdmitOutput(plan)
      BY <1>1 DEF Start, CanStart, Fresh
    <2>2. RowsFirst'
      BY <2>1 DEF RowsFirst, TypeOK
    <2>3. ASSUME NEW q \in Op, NEW p \in Op, q \in (Unresolved \cup Breached)', p > q
          PROVE  output_reservations'[p].kind # "model"
      <3>1. CASE q = o
        \* rows are dense, so there is no operation beyond the fresh one
        <4>1. stage[p] = "none"
          BY <2>1, <2>3, <3>1, MaxOpsAssumption DEF OneAtATime
        <4> QED
          BY <2>1, <2>3, <3>1, <4>1, MaxOpsAssumption DEF RowsFirst, NoReservation, TypeOK
      <3>2. CASE q # o
        <4>1. q \in Unresolved \cup Breached
          BY <2>1, <2>3, <3>2, ExposureLocal DEF TypeOK
        <4>2. CASE p = o
          <5>1. plan.kind # "model"
            BY <2>1, <4>1 DEF AdmitOutput, NoReservation
          <5> QED
            BY <2>1, <4>2, <5>1 DEF TypeOK
        <4>3. CASE p # o
          BY <2>1, <2>3, <4>1, <4>3 DEF NoModelRequestAfterExposure, TypeOK
        <4> QED
          BY <4>2, <4>3
      <3> QED
        BY <3>1, <3>2
    <2>4. NoModelRequestAfterExposure'
      BY <2>3 DEF NoModelRequestAfterExposure, Unresolved, Breached, Mismatched, Overrun, Planned
    <2> QED
      BY <1>0, <2>2, <2>4
  <1>2. ASSUME NEW o \in Op, NEW usage \in Reports, RecordUsage(o, usage)
        PROVE  ExposureInv'
    <2>1. /\ stage[o] = "inference" /\ UNCHANGED <<stage, output_reservations>>
          /\ inference_usage' = [inference_usage EXCEPT ![o] = usage]
      BY <1>2 DEF RecordUsage, CanRecordUsage
    <2>2. RowsFirst'
      BY <2>1 DEF RowsFirst, TypeOK
    <2>3. ASSUME NEW q \in Op, NEW p \in Op, q \in (Unresolved \cup Breached)', p > q
          PROVE  output_reservations'[p].kind # "model"
      <3>1. CASE q = o
        \* the reporting operation is the newest row
        <4>1. o \in Pending
          BY <2>1 DEF Pending, Unfinished
        <4>2. stage[p] = "none"
          BY <2>3, <3>1, <4>1, PendingNewest, MaxOpsAssumption
        <4> QED
          BY <2>1, <4>2 DEF RowsFirst, NoReservation
      <3>2. CASE q # o
        <4>1. q \in Unresolved \cup Breached
          BY <2>1, <2>3, <3>2, ExposureLocal DEF TypeOK
        <4> QED
          BY <2>1, <2>3, <4>1 DEF NoModelRequestAfterExposure
      <3> QED
        BY <3>1, <3>2
    <2>4. NoModelRequestAfterExposure'
      BY <2>3 DEF NoModelRequestAfterExposure, Unresolved, Breached, Mismatched, Overrun, Planned
    <2> QED
      BY <1>0, <2>2, <2>4
  \* no other transaction touches a plan, a report, or makes a row
  <1>3. ASSUME UNCHANGED tokens, \A o \in Op : stage'[o] = "none" => stage[o] = "none"
        PROVE  ExposureInv'
    <2>1. RowsFirst'
      BY <1>3 DEF RowsFirst, tokens
    <2>2. NoModelRequestAfterExposure'
      BY <1>3 DEF NoModelRequestAfterExposure, Unresolved, Breached, Mismatched, Overrun,
                  Planned, tokens
    <2> QED
      BY <1>0, <2>1, <2>2
  <1> USE DEF TypeOK
  <1>4. ASSUME NEW o \in Op, Proposed(o) PROVE ExposureInv'
    BY <1>3, <1>4 DEF Proposed
  <1>5. ASSUME NEW o \in Op, NEW g \in Guard, NEW allowed \in BOOLEAN,
               RecordGuard(o, g, allowed)
        PROVE  ExposureInv'
    BY <1>3, <1>5 DEF RecordGuard
  <1>6. ASSUME NEW o \in Op, NEW event \in EventStage, RecordEvent(o, event)
        PROVE  ExposureInv'
    BY <1>3, <1>6 DEF RecordEvent
  <1>7. ASSUME NEW o \in Op, NEW observes \in BOOLEAN, NEW external \in BOOLEAN,
               Dispatch(o, observes, external)
        PROVE  ExposureInv'
    BY <1>3, <1>7 DEF Dispatch
  <1>8. ASSUME NEW o \in Op, NEW result \in Output, Returned(o, result) PROVE ExposureInv'
    BY <1>3, <1>8 DEF Returned
  <1>9. ASSUME NEW o \in Op, NEW evaluation \in Evaluation, Complete(o, evaluation)
        PROVE  ExposureInv'
    BY <1>3, <1>9 DEF Complete
  <1>10. ASSUME NEW o \in Op, Failed(o) PROVE ExposureInv'
    BY <1>3, <1>10 DEF Failed
  <1>11. ASSUME NEW o \in Op, AbandonUndispatched(o) PROVE ExposureInv'
    BY <1>3, <1>11 DEF AbandonUndispatched
  <1>12. ASSUME (\E value \in Outcome : Finish(value)) \/ Tick \/ Reopen \/ UNCHANGED vars
         PROVE  ExposureInv'
    BY <1>3, <1>12 DEF Finish, Tick, Reopen, vars
  <1> QED
    BY <1>1, <1>2, <1>4, <1>5, <1>6, <1>7, <1>8, <1>9, <1>10, <1>11, <1>12 DEF Next

\* After one unreported or breached output no model output is ever reserved again.
THEOREM Contained == Spec => []NoModelRequestAfterExposure
  <1>1. Spec => []ExposureInv
    BY InitExposure, StepExposure, PTL DEF Spec
  <1> QED
    BY <1>1, PTL DEF ExposureInv
=============================================================================
