-------------------------- MODULE AccountingProofs --------------------------
(***************************************************************************)
(* The arithmetic of output admission and of the usage summary, for every  *)
(* plan an adapter may make and every report it may give.                  *)
(***************************************************************************)
EXTENDS Accounting, RunStoreProofs, FoldProofs

USE DEF Op, NoTokens

-----------------------------------------------------------------------------
(* The output budget *)

\* What is exposed is one request at most, what is counted are numbers.
LEMMA TokenTypes ==
  ASSUME TypeOK
  PROVE  /\ IsFiniteSet(Op) /\ Planned \subseteq Op /\ UsageOf \subseteq Op
         /\ Mismatched \subseteq Planned /\ Unresolved \subseteq Planned
         /\ \A o \in Op : Spending[o] \in Nat /\ Holding[o] \in Nat
         /\ \A o \in Op : inference_usage[o] = NoUsage => Spending[o] = 0
  <1>1. IsFiniteSet(Op)
    BY MaxOpsAssumption, FS_Interval
  <1>2. ASSUME NEW o \in Op
        PROVE  /\ output_reservations[o] \in Reservation \cup {NoReservation}
               /\ inference_usage[o] \in Usage \cup {NoUsage}
    BY TokensAssumption DEF TypeOK
  <1>3. ASSUME NEW o \in Op
        PROVE  /\ output_reservations[o].tokens \in Nat
               /\ inference_usage[o].output \in Nat \cup {NoTokens}
    BY <1>2 DEF Reservation, Usage, NoReservation, NoUsage
  <1> QED
    BY <1>1, <1>3 DEF Planned, Operations, UsageOf, Mismatched, Unresolved, Spending, Holding,
                      NoUsage

BudgetInv == ExposureInv /\ OutputBounded

LEMMA InitBudget == Init => BudgetInv
  <1> SUFFICES ASSUME Init PROVE OutputBounded
    BY InitExposure DEF BudgetInv
  <1>1. Planned = {} /\ Mismatched \cup Unresolved = {}
    BY DEF Init, Planned, Mismatched, Unresolved
  <1>2. IsFiniteSet({}) /\ \A x \in {} : Spending[x] \in Int /\ Holding[x] \in Int
    BY FS_EmptySet
  <1>3. SumFunctionOnSet(Spending, {}) = 0 /\ SumFunctionOnSet(Holding, {}) = 0
    BY <1>2, SumOf
  <1>4. Spent = 0 /\ Held = 0
    BY <1>1, <1>3 DEF Spent, Held
  <1> QED
    BY <1>4, LimitsAssumption DEF OutputBounded

\* A request is admitted with what is left, and only when nothing else is owed.
LEMMA StartBounded ==
  ASSUME BudgetInv, TypeOK', NEW o \in Op, NEW b \in Revision,
         NEW plan \in Plans \cup {NoReservation}, NEW required \in SUBSET Guard,
         Start(o, b, plan, required)
  PROVE  OutputBounded'
  <1> USE DEF BudgetInv, ExposureInv, SerialInv
  <1> SUFFICES ASSUME OutputTokens # NoTokens, Breached' = {}
               PROVE  Spent' + Held' <= OutputTokens
    BY DEF OutputBounded
  <1>1. /\ stage[o] = "none"
        /\ output_reservations' = [output_reservations EXCEPT ![o] = plan]
        /\ inference_usage' = inference_usage
        /\ AdmitOutput(plan) /\ plan # NoReservation
    BY DEF Start, Fresh, CanStart, AdmitOutput
  <1>2. /\ output_reservations[o] = NoReservation /\ inference_usage[o] = NoUsage
        /\ plan \in Reservation
    BY <1>1, TokensAssumption DEF RowsFirst
  <1>3. /\ Planned' = Planned \cup {o} /\ o \notin Planned
        /\ Mismatched' = Mismatched /\ Overrun' = Overrun /\ o \notin Mismatched
        /\ Unresolved' = Unresolved \cup (IF plan.kind = "model" THEN {o} ELSE {})
        /\ o \notin Unresolved
    <2>1. o \notin Mismatched' /\ o \notin Overrun'
      BY <1>1, <1>2 DEF Mismatched, Overrun, Planned, TypeOK, NoUsage, Reservation
    <2> QED
      BY <1>1, <1>2, <2>1 DEF Planned, Mismatched, Overrun, Unresolved, TypeOK, NoUsage
  <1>4. Spent' = Spent
    <2>1. Spending' = Spending
      BY <1>1 DEF Spending
    <2>2. SumFunctionOnSet(Spending, Planned \cup {o}) = SumFunctionOnSet(Spending, Planned)
      <3> DEFINE f == Spending
                 S == Planned
      <3>1. /\ IsFiniteSet(S) /\ o \notin S
            /\ (\A y \in S \cup {o} : f[y] \in Int) /\ f[o] = 0
        <4>1. IsFiniteSet(S) /\ o \notin S
          BY <1>3, TokenTypes, FS_Subset
        <4>2. (\A y \in S \cup {o} : f[y] \in Int) /\ f[o] = 0
          BY <1>2, TokenTypes
        <4> QED
          BY <4>1, <4>2
      <3>2. SumFunctionOnSet(f, S) \in Int
        <4> HIDE DEF f, S
        <4> QED
          BY <3>1, SumOf
      <3> HIDE DEF f, S
      <3>3. SumFunctionOnSet(f, S \cup {o}) = f[o] + SumFunctionOnSet(f, S)
        BY <3>1, SumAdds
      <3>4. SumFunctionOnSet(f, S \cup {o}) = SumFunctionOnSet(f, S)
        BY <3>1, <3>2, <3>3
      <3> QED
        BY <3>4 DEF f, S
    <2> QED
      BY <1>3, <2>1, <2>2 DEF Spent
  <1>5. Breached = {}
    BY <1>3 DEF Breached
  <1>6. Spent + Held <= OutputTokens
    BY <1>5 DEF OutputBounded
  <1>7. Spent \in Int /\ Held \in Int
    <2>1. IsFiniteSet(Planned) /\ IsFiniteSet(Mismatched \cup Unresolved)
      BY TokenTypes, FS_Subset
    <2>2. /\ \A x \in Planned : Spending[x] \in Int
          /\ \A x \in Mismatched \cup Unresolved : Holding[x] \in Int
      BY TokenTypes
    <2> QED
      BY <2>1, <2>2, SumOf DEF Spent, Held
  <1>8. CASE plan.kind = "model"
    <2>1. Unresolved = {} /\ plan.tokens <= Available /\ plan.tokens \in Nat \ {0}
      BY <1>1, <1>2, <1>8 DEF AdmitOutput, Reservation
    <2>2. Mismatched' \cup Unresolved' = {o} /\ Mismatched \cup Unresolved = {}
      BY <1>3, <1>5, <1>8, <2>1 DEF Breached
    <2>3. Holding'[o] = plan.tokens
      BY <1>1 DEF Holding, TypeOK
    <2>4. Held' = plan.tokens
      <3>1. IsFiniteSet({o}) /\ \A x \in {o} : Holding'[x] \in Int
        BY <2>1, <2>3, FS_Singleton
      <3>2. /\ SumFunctionOnSet(Holding', {o}) = Holding'[o] + SumFunctionOnSet(Holding', {o} \ {o})
            /\ SumFunctionOnSet(Holding', {}) = 0
        BY <3>1, SumOf
      <3>3. {o} \ {o} = {}
        OBVIOUS
      <3> QED
        BY <2>1, <2>2, <2>3, <3>2, <3>3 DEF Held
    <2>5. OutputTokens - Spent - Held >= 0 /\ OutputTokens \in Int
      BY <1>6, <1>7, LimitsAssumption
    <2>6. Held = 0
      <3>1. SumFunctionOnSet(Holding, {}) = 0
        BY FS_EmptySet, SumOf
      <3> QED
        BY <2>2, <3>1 DEF Held
    <2>7. plan.tokens <= OutputTokens - Spent
      BY <1>7, <2>1, <2>5, <2>6 DEF Available
    <2> QED
      BY <1>4, <1>7, <2>1, <2>4, <2>5, <2>7
  <1>9. CASE plan.kind # "model"
    <2>1. Mismatched' \cup Unresolved' = Mismatched \cup Unresolved
      BY <1>3, <1>9
    <2>2. Held' = Held
      <3> DEFINE S == Mismatched \cup Unresolved
      <3>1. IsFiniteSet(S)
        BY TokenTypes, FS_Subset
      <3>2. \A x \in S : Holding[x] \in Int /\ Holding'[x] = Holding[x]
        BY <1>1, <1>3, TokenTypes DEF Holding, TypeOK
      <3> HIDE DEF S
      <3>3. SumFunctionOnSet(Holding', S) = SumFunctionOnSet(Holding, S)
        BY <3>1, <3>2, SumSame
      <3> QED
        BY <2>1, <3>3 DEF Held, S
    <2> QED
      BY <1>4, <1>6, <2>2
  <1> QED
    BY <1>8, <1>9
\* A report within its plan moves what was held for it to what is spent, and no more.
LEMMA ReportBounded ==
  ASSUME BudgetInv, TypeOK', NEW o \in Op, NEW usage \in Reports, RecordUsage(o, usage)
  PROVE  OutputBounded'
  <1> USE DEF BudgetInv, ExposureInv, SerialInv
  <1> SUFFICES ASSUME OutputTokens # NoTokens, Breached' = {}
               PROVE  Spent' + Held' <= OutputTokens
    BY DEF OutputBounded
  <1>1. /\ inference_usage[o] = NoUsage /\ output_reservations' = output_reservations
        /\ inference_usage' = [inference_usage EXCEPT ![o] = usage]
    BY DEF RecordUsage, CanRecordUsage
  <1>2. usage \in Usage /\ usage # NoUsage
    BY TokensAssumption DEF Usage, NoUsage
  <1>3. /\ \A p \in Op : p # o => inference_usage'[p] = inference_usage[p]
        /\ inference_usage'[o] = usage
    BY <1>1 DEF TypeOK
  <1>4. o \in Planned => /\ output_reservations[o] \in Reservation
                         /\ usage.kind = output_reservations[o].kind
                         /\ usage.kind = "model" => usage.output <= output_reservations[o].tokens
    <2> SUFFICES ASSUME o \in Planned
                 PROVE  /\ output_reservations[o] \in Reservation
                        /\ usage.kind = output_reservations[o].kind
                        /\ usage.kind = "model" => usage.output <= output_reservations[o].tokens
      OBVIOUS
    <2>1. output_reservations[o] \in Reservation /\ o \in Planned'
      BY <1>1, TokensAssumption DEF Planned, TypeOK
    <2>2. o \notin Mismatched' /\ o \notin Overrun'
      BY DEF Breached
    <2>3. usage.kind = output_reservations[o].kind
      BY <1>1, <1>2, <1>3, <2>1, <2>2 DEF Mismatched
    <2>4. ASSUME usage.kind = "model" PROVE usage.output <= output_reservations[o].tokens
      <3>1. ~(usage.output > output_reservations[o].tokens)
        BY <1>1, <1>3, <2>1, <2>2, <2>3, <2>4 DEF Overrun
      <3>2. usage.output \in Int /\ output_reservations[o].tokens \in Int
        BY <1>2, <2>1 DEF Usage, Reservation
      <3> QED
        BY <3>1, <3>2
    <2> QED
      BY <2>1, <2>3, <2>4
  <1>5. /\ Planned' = Planned /\ Holding' = Holding
        /\ Mismatched' = {} /\ Mismatched = {} /\ Breached = {}
        /\ Unresolved' \subseteq Unresolved /\ Unresolved \subseteq Unresolved' \cup {o}
    <2>1. Planned' = Planned /\ Holding' = Holding /\ Mismatched' = {}
      BY <1>1 DEF Planned, Holding, Breached
    <2>2. o \notin Mismatched /\ (o \in Planned => o \notin Overrun)
      BY <1>1, <1>4 DEF Mismatched, Overrun, NoUsage, Reservation
    <2>3. Mismatched \subseteq Mismatched' /\ Overrun \subseteq Overrun'
      BY <1>1, <1>3, <2>2 DEF Mismatched, Overrun, Planned
    <2>4. Unresolved' \subseteq Unresolved
      BY <1>1, <1>3, <1>4, <2>1, <2>3 DEF Unresolved, Planned, Mismatched, NoUsage
    <2>5. Unresolved \subseteq Unresolved' \cup {o}
      BY <1>1, <1>3, <2>1, <2>3 DEF Unresolved, Planned
    <2> QED
      BY <2>1, <2>3, <2>4, <2>5 DEF Breached
  <1>6. Spent + Held <= OutputTokens
    BY <1>5 DEF OutputBounded
  <1>7. /\ IsFiniteSet(Planned) /\ IsFiniteSet(Unresolved) /\ IsFiniteSet(Unresolved')
        /\ \A x \in Op : Spending[x] \in Nat /\ Holding[x] \in Nat /\ Spending'[x] \in Int
        /\ Spending[o] = 0
        /\ \A x \in Op : x # o => Spending'[x] = Spending[x]
    <2>1. IsFiniteSet(Planned) /\ IsFiniteSet(Unresolved) /\ IsFiniteSet(Unresolved')
      BY <1>5, TokenTypes, FS_Subset
    <2>2. /\ \A x \in Op : Spending[x] \in Nat /\ Holding[x] \in Nat
          /\ Spending[o] = 0
      BY <1>1, TokenTypes
    <2>3. \A x \in Op : x # o => Spending'[x] = Spending[x]
      BY <1>3 DEF Spending
    <2>4. Spending'[o] \in Int
      BY <1>2, <1>3 DEF Spending, Usage
    <2> QED
      BY <2>1, <2>2, <2>3, <2>4
  <1>8. /\ Held = SumFunctionOnSet(Holding, Unresolved)
        /\ Held' = SumFunctionOnSet(Holding, Unresolved')
    <2>1. Mismatched \cup Unresolved = Unresolved /\ Mismatched' \cup Unresolved' = Unresolved'
      BY <1>5
    <2> QED
      BY <1>5, <2>1 DEF Held
  <1>9. /\ Spent \in Int /\ Held \in Int
        /\ Spent' = SumFunctionOnSet(Spending', Planned)
    <2>1. /\ \A x \in Planned : Spending[x] \in Int
          /\ \A x \in Unresolved : Holding[x] \in Int
      BY <1>7 DEF Planned, Unresolved
    <2>2. Spent \in Int /\ Held \in Int
      BY <1>7, <1>8, <2>1, SumOf DEF Spent
    <2> QED
      BY <1>5, <2>2 DEF Spent
  <1>10. CASE o \notin Planned
    <2>1. SumFunctionOnSet(Spending', Planned) = SumFunctionOnSet(Spending, Planned)
      <3>1. \A x \in Planned : Spending[x] \in Int /\ Spending'[x] = Spending[x]
        BY <1>7, <1>10 DEF Planned
      <3> QED
        BY <1>7, <3>1, SumSame
    <2>2. Unresolved' = Unresolved
      BY <1>5, <1>10 DEF Unresolved
    <2> QED
      BY <1>6, <1>8, <1>9, <2>1, <2>2 DEF Spent
  <1>11. CASE o \in Planned
    <2>1. Spent' = Spent + Spending'[o]
      <3>1. /\ \A y \in Planned : Spending[y] \in Int
            /\ \A y \in Planned : Spending'[y] \in Int /\ (y # o => Spending'[y] = Spending[y])
        BY <1>7 DEF Planned
      <3>2. Spent' = Spent - Spending[o] + Spending'[o]
        <4> DEFINE f    == Spending
                   g    == Spending'
                   S    == Planned
                   rest == SumFunctionOnSet(f, S \ {o})
        <4>1. /\ IsFiniteSet(S) /\ IsFiniteSet(S \ {o}) /\ o \in S
              /\ \A y \in S : f[y] \in Int
              /\ \A y \in S : g[y] \in Int
              /\ \A y \in S \ {o} : f[y] \in Int /\ g[y] = f[y]
          BY <1>7, <1>11, <3>1, FS_Subset
        <4>2. Spent = SumFunctionOnSet(f, S) /\ Spent' = SumFunctionOnSet(g, S)
          BY <1>9 DEF Spent
        <4> HIDE DEF f, g, S
        <4>3. SumFunctionOnSet(f, S) = f[o] + rest
          BY <4>1, SumOf
        <4>4. SumFunctionOnSet(g, S) = g[o] + SumFunctionOnSet(g, S \ {o})
          BY <4>1, SumOf
        <4>5. SumFunctionOnSet(g, S \ {o}) = rest
          BY <4>1, SumSame
        <4>6. rest \in Int /\ f[o] \in Int /\ g[o] \in Int
          BY <4>1, SumOf
        <4> HIDE DEF rest
        <4>7. Spent' = Spent - f[o] + g[o]
          BY <4>2, <4>3, <4>4, <4>5, <4>6
        <4> QED
          BY <4>7 DEF f, g
      <3> QED
        BY <1>7, <1>9, <3>2
    <2>2. CASE Unresolved' = Unresolved
      <3>1. Spending'[o] = 0
        <4>1. usage.output = NoTokens
          BY <1>1, <1>2, <1>3, <1>4, <1>5, <1>11, <2>2 DEF Unresolved, Usage, NoUsage, Reservation
        <4> QED
          BY <1>3, <4>1 DEF Spending
      <3> QED
        BY <1>6, <1>8, <1>9, <2>1, <2>2, <3>1
    <2>3. CASE Unresolved' # Unresolved
      <3>1. Unresolved' = Unresolved \ {o} /\ o \in Unresolved
        BY <1>5, <2>3
      <3>2. Spending'[o] <= Holding[o] /\ Spending'[o] \in Int
        <4>1. output_reservations[o].kind = "model" /\ usage.kind = "model"
          BY <1>4, <1>11, <3>1 DEF Unresolved
        <4> QED
          BY <1>2, <1>3, <1>4, <1>11, <4>1 DEF Spending, Holding, Usage, Reservation
      <3>3. Held = Holding[o] + Held'
        <4>1. \A x \in Unresolved : Holding[x] \in Int
          BY <1>7 DEF Unresolved, Planned
        <4> QED
          BY <1>7, <1>8, <3>1, <4>1, SumOf
      <3>4. Held' \in Int /\ Holding[o] \in Int
        <4>1. \A x \in Unresolved' : Holding[x] \in Int
          BY <1>5, <1>7 DEF Unresolved, Planned
        <4> QED
          BY <1>7, <1>8, <4>1, SumOf
      <3> QED
        BY <1>6, <1>9, <2>1, <3>2, <3>3, <3>4, LimitsAssumption
    <2> QED
      BY <2>2, <2>3
  <1> QED
    BY <1>10, <1>11
\* The other transactions leave plans and reports alone.
LEMMA TokensElsewhere ==
  ASSUME [Next]_vars,
         ~\E o \in Op, b \in Revision, plan \in Plans \cup {NoReservation},
             required \in SUBSET Guard : Start(o, b, plan, required),
         ~\E o \in Op, usage \in Reports : RecordUsage(o, usage)
  PROVE  UNCHANGED tokens
  BY DEF Next, Proposed, RecordGuard, RecordEvent, Dispatch, Returned, Complete, Failed,
         AbandonUndispatched, Finish, Tick, Reopen, vars

LEMMA StepBudget == BudgetInv /\ [Next]_vars => BudgetInv'
  <1> SUFFICES ASSUME BudgetInv, [Next]_vars PROVE OutputBounded'
    BY StepExposure DEF BudgetInv
  <1>0. TypeOK'
    BY StepTyped DEF BudgetInv, ExposureInv, SerialInv
  <1>1. ASSUME NEW o \in Op, NEW b \in Revision, NEW plan \in Plans \cup {NoReservation},
               NEW required \in SUBSET Guard, Start(o, b, plan, required)
        PROVE  OutputBounded'
    BY <1>0, <1>1, StartBounded
  <1>2. ASSUME NEW o \in Op, NEW usage \in Reports, RecordUsage(o, usage)
        PROVE  OutputBounded'
    BY <1>0, <1>2, ReportBounded
  <1>3. CASE UNCHANGED tokens
    BY <1>3 DEF BudgetInv, OutputBounded, tokens, Breached, Mismatched, Overrun, Unresolved,
                Planned, Spent, Held, Spending, Holding
  <1> QED
    BY <1>1, <1>2, <1>3, TokensElsewhere

\* What the run spent and may still owe stays within its budget while every adapter
\* keeps its ceilings.
THEOREM Bounded == Spec => []OutputBounded
  <1>1. Spec => []BudgetInv
    BY InitBudget, StepBudget, PTL DEF Spec, BudgetInv
  <1> QED
    BY <1>1, PTL DEF BudgetInv
-----------------------------------------------------------------------------
(* The summary of usage                                                    *)

\* under a budget every request has a plan
PlansFollowRows ==
  OutputTokens # NoTokens => \A o \in Operations : output_reservations[o] # NoReservation

SummaryInv == ExposureInv /\ AuthorityInv /\ PlansFollowRows

LEMMA InitSummary == Init => SummaryInv
  BY InitExposure, InitAuthority DEF Init, SummaryInv, PlansFollowRows, Operations

LEMMA StepSummary == SummaryInv /\ [Next]_vars => SummaryInv'
  <1> SUFFICES ASSUME SummaryInv, [Next]_vars PROVE PlansFollowRows'
    BY StepExposure, StepAuthority DEF SummaryInv
  <1> USE DEF SummaryInv, ExposureInv, SerialInv
  <1>1. ASSUME NEW o \in Op, NEW b \in Revision, NEW plan \in Plans \cup {NoReservation},
               NEW required \in SUBSET Guard, Start(o, b, plan, required)
        PROVE  PlansFollowRows'
    <2>1. /\ stage' = [stage EXCEPT ![o] = "inference"]
          /\ output_reservations' = [output_reservations EXCEPT ![o] = plan]
          /\ OutputTokens # NoTokens => plan # NoReservation
      BY <1>1 DEF Start, CanStart, AdmitOutput
    <2> QED
      BY <2>1 DEF PlansFollowRows, Operations, TypeOK
  <1>2. ASSUME UNCHANGED output_reservations,
               \A o \in Op : stage[o] = "none" => stage'[o] = "none"
        PROVE  PlansFollowRows'
    BY <1>2 DEF PlansFollowRows, Operations
  <1>3. ASSUME [Next]_vars,
               ~\E o \in Op, b \in Revision, plan \in Plans \cup {NoReservation},
                   required \in SUBSET Guard : Start(o, b, plan, required)
        PROVE  /\ UNCHANGED output_reservations
               /\ \A o \in Op : stage[o] = "none" => stage'[o] = "none"
    <2> USE DEF TypeOK, tokens
    <2>1. ASSUME NEW o \in Op, NEW s, stage' = [stage EXCEPT ![o] = s], stage[o] # "none"
          PROVE  \A p \in Op : stage[p] = "none" => stage'[p] = "none"
      BY <2>1
    <2>2. ASSUME NEW o \in Op,
                 \/ Proposed(o)
                 \/ \E observes, external \in BOOLEAN : Dispatch(o, observes, external)
                 \/ \E result \in Output : Returned(o, result)
                 \/ \E evaluation \in Evaluation : Complete(o, evaluation)
                 \/ AbandonUndispatched(o)
                 \/ Failed(o)
          PROVE  /\ UNCHANGED output_reservations
                 /\ \A p \in Op : stage[p] = "none" => stage'[p] = "none"
      BY <2>1, <2>2 DEF Proposed, CanPropose, Dispatch, CanDispatch, Returned, Complete,
                        CanComplete, AbandonUndispatched, Undispatched, Failed
    <2>3. ASSUME \/ \E o \in Op, usage \in Reports : RecordUsage(o, usage)
                 \/ \E o \in Op, g \in Guard, allowed \in BOOLEAN : RecordGuard(o, g, allowed)
                 \/ \E o \in Op, event \in EventStage : RecordEvent(o, event)
                 \/ \E value \in Outcome : Finish(value)
                 \/ Tick \/ Reopen \/ UNCHANGED vars
          PROVE  UNCHANGED <<stage, output_reservations>>
      BY <2>3 DEF RecordUsage, RecordGuard, RecordEvent, Finish, Tick, Reopen, vars
    <2> QED
      BY <1>3, <2>2, <2>3 DEF Next
  <1> QED
    BY <1>1, <1>2, <1>3

\* The elements of two disjoint parts.
LEMMA CardinalityOfParts ==
  ASSUME NEW A, IsFiniteSet(A), NEW B, IsFiniteSet(B), A \cap B = {}
  PROVE  /\ Cardinality(A \cup B) = Cardinality(A) + Cardinality(B)
         /\ Cardinality(A) \in Nat /\ Cardinality(B) \in Nat
  <1>1. Cardinality(A \cup B) = Cardinality(A) + Cardinality(B) - Cardinality({})
    BY FS_Union
  <1>2. Cardinality({}) = 0 /\ Cardinality(A) \in Nat /\ Cardinality(B) \in Nat
    BY FS_EmptySet, FS_CardinalityType
  <1> QED
    BY <1>1, <1>2

\* The summary follows from what holds of the tables.
LEMMA SummaryAgrees ==
  ASSUME SummaryInv
  PROVE  UsageSummary
  <1> USE DEF SummaryInv, ExposureInv, SerialInv
  <1> DEFINE Scripted == {o \in UsageOf : inference_usage[o].kind = "scripted"}
             OfModel  == {o \in UsageOf : inference_usage[o].kind = "model"}
  <1>1. /\ IsFiniteSet(Operations) /\ IsFiniteSet(UsageOf) /\ IsFiniteSet(Unreported)
        /\ IsFiniteSet(Scripted) /\ IsFiniteSet(OfModel)
    <2>1. /\ Operations \subseteq Op /\ UsageOf \subseteq Op /\ Unreported \subseteq Op
          /\ Scripted \subseteq Op /\ OfModel \subseteq Op
      BY DEF Operations, UsageOf, Unreported
    <2>2. IsFiniteSet(Op)
      BY MaxOpsAssumption, FS_Interval
    <2> QED
      BY <2>1, <2>2, FS_Subset
  <1>2. Invocations = InferenceCalls - Remaining("inference")
    <2>1. Operations = Reserved("inference")
      BY DEF AuthorityInv, ReservationsFollowStage, Operations, Reserved
    <2>2. Cardinality(Reserved("inference")) \in Int
      BY ReservedFinite
    <2> QED
      BY <2>1, <2>2, LimitsAssumption DEF Invocations, Remaining, Limit
  <1>3. Invocations = ModelInvocations + ScriptedInvocations + Cardinality(Unreported)
    <2>1. /\ OfModel \cup Scripted = UsageOf /\ OfModel \cap Scripted = {}
      <3>1. \A o \in UsageOf : inference_usage[o] \in Usage
        BY TokensAssumption DEF UsageOf, Operations, TypeOK
      <3> QED
        BY <3>1 DEF Usage
    <2>2. UsageOf \cup Unreported = Operations /\ UsageOf \cap Unreported = {}
      BY DEF UsageOf, Unreported
    <2>3. Cardinality(UsageOf) = Cardinality(OfModel) + Cardinality(Scripted)
      BY <1>1, <2>1, CardinalityOfParts
    <2>4. Cardinality(Operations) = Cardinality(UsageOf) + Cardinality(Unreported)
      BY <1>1, <2>2, CardinalityOfParts
    <2> QED
      BY <2>3, <2>4 DEF Invocations, ModelInvocations, ScriptedInvocations
  <1>4. ASSUME OutputTokens # NoTokens PROVE KnownOutputTokens = Spent
    <2>1. Planned = Operations
      BY <1>4 DEF PlansFollowRows, RowsFirst, Planned, Operations
    <2>2. UsageOf \subseteq Planned
      BY <2>1 DEF UsageOf
    <2>3. \A o \in Planned \ UsageOf : Spending[o] = 0
      BY <2>1, TokenTypes DEF UsageOf, Operations
    <2>4. \A o \in Planned : Spending[o] \in Nat
      BY TokenTypes DEF Planned
    <2>5. SumFunctionOnSet(Spending, UsageOf) = SumFunctionOnSet(Spending, Planned)
      BY <1>1, <2>1, <2>2, <2>3, <2>4, SumGrows
    <2> QED
      BY <2>5 DEF KnownOutputTokens, Spent
  <1>5. ASSUME OutputTokens # NoTokens, UsageComplete
        PROVE  Unresolved = {} /\ Held = SumFunctionOnSet(Holding, Mismatched)
    <2>1. ASSUME NEW o \in Unresolved PROVE FALSE
      <3>1. /\ o \in Planned /\ o \notin Mismatched /\ output_reservations[o].kind = "model"
            /\ inference_usage[o].output = NoTokens
        BY DEF Unresolved
      <3>2. o \in UsageOf
        BY <1>5, <3>1 DEF UsageComplete, Unreported, Planned, RowsFirst, Operations
      <3>3. inference_usage[o].kind = "model"
        BY <3>1, <3>2 DEF Mismatched, UsageOf
      <3> QED
        BY <1>5, <3>1, <3>2, <3>3 DEF UsageComplete, UnknownUsage
    <2>2. Mismatched \cup Unresolved = Mismatched
      BY <2>1
    <2> QED
      BY <2>1, <2>2 DEF Held
  <1> QED
    BY <1>2, <1>3, <1>4, <1>5 DEF UsageSummary

\* The usage summary never miscounts an invocation, and agrees with output admission.
THEOREM Summarised == Spec => []UsageSummary
  <1>1. Spec => []SummaryInv
    BY InitSummary, StepSummary, PTL DEF Spec
  <1> QED
    BY <1>1, SummaryAgrees, PTL

=============================================================================
