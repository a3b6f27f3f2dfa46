------------------------------ MODULE RunStore ------------------------------
(***************************************************************************)
(* The durable journal of one run: class SQLiteRun of sqlite_run.py with   *)
(* the admission arithmetic of output_budget.py.                           *)
(*                                                                         *)
(* One variable per table (or column that matters), one action per         *)
(* transaction.  Every write runs inside BEGIN IMMEDIATE .. COMMIT and     *)
(* rolls back on any exception, so an action either happens as a whole or, *)
(* when its guard is false, the call raises and nothing changes.  The      *)
(* calls come from an arbitrary client, in any order: what holds here      *)
(* holds whatever Runtime, Session or the application does with the store. *)
(*                                                                         *)
(* Data is abstracted: an operation is its row number, a state is its      *)
(* revision (the published value is a function of it, rows are immutable), *)
(* a candidate is its base and its output, and the clock is two booleans.  *)
(***************************************************************************)
EXTENDS Integers, Sequences, FiniteSets, Functions

CONSTANTS
    MaxOps,           \* bound: rows the operations table may reach
    InferenceCalls,   \* RunLimits.inference_calls
    ToolCalls,        \* RunLimits.tool_calls
    ExternalActions,  \* RunLimits.external_actions
    OutputTokens,     \* RunLimits.output_tokens, NoTokens when None
    WallLimited,      \* RunLimits.wall_time_seconds is not None
    Plans,            \* bound: the OutputReservation values adapters plan
    Reports,          \* bound: the InferenceUsage values adapters report
    Guard,            \* dispatch guard identities
    Output,           \* tool outputs
    NoOutput,         \* SQL NULL in the output column
    Outcome,          \* terminal outcomes
    NoOutcome,        \* SQL NULL in the outcome column
    EventStage        \* lifecycle event stages

Op       == 1..MaxOps
NoTokens == -1

\* OutputReservation and InferenceUsage accept no other records
Reservation == {r \in [kind : {"model", "scripted"}, tokens : Nat] :
                   r.kind = "scripted" <=> r.tokens = 0}
Usage       == {u \in [kind : {"model", "scripted"}, output : Nat \cup {NoTokens}] :
                   u.kind = "scripted" => u.output = NoTokens}

ASSUME MaxOpsAssumption  == MaxOps \in Nat
ASSUME LimitsAssumption  == /\ InferenceCalls \in Nat
                            /\ ToolCalls \in Nat
                            /\ ExternalActions \in Nat
                            /\ OutputTokens \in Nat \cup {NoTokens}
                            /\ WallLimited \in BOOLEAN
ASSUME TokensAssumption  == Plans \subseteq Reservation /\ Reports \subseteq Usage
ASSUME OutputAssumption  == NoOutput \notin Output
ASSUME OutcomeAssumption == NoOutcome \notin Outcome

Kind         == {"inference", "tool", "external"}
Stage        == {"inference", "proposed", "dispatched", "returned", "completed", "failed"}
Undispatched == {"inference", "proposed"}
Unfinished   == {"inference", "proposed", "dispatched", "returned"}
Revision     == 0..MaxOps

Evaluation  == [base : Revision, output : Output, satisfied : BOOLEAN, update : BOOLEAN]

NoReservation == [kind |-> "none", tokens |-> 0]
NoUsage       == [kind |-> "none", output |-> NoTokens]
NoEvaluation  == [base |-> 0, output |-> NoOutput, satisfied |-> FALSE, update |-> FALSE]

VARIABLES
    outcome,              \* run.outcome
    stage,                \* operations.stage, "none" when there is no row yet
    base,                 \* operations.request: the revision the request is based on
    observation,          \* operations.observation
    output,               \* operations.output
    reservations,         \* table reservations
    guard_requirements,   \* table guard_requirements
    guard_decisions,      \* table guard_decisions
    output_reservations,  \* table output_reservations
    inference_usage,      \* table inference_usage
    evaluations,          \* table evaluations
    commits,              \* table commits, in the order of its revisions
    lifecycle_events,     \* table lifecycle_events
    expired,              \* seconds_remaining = 0
    behind                \* the wall clock reads less than run.last_clock

clocks == <<expired, behind>>
guards == <<guard_requirements, guard_decisions>>
tokens == <<output_reservations, inference_usage>>
rows   == <<base, observation, output>>
vars   == <<outcome, stage, rows, reservations, guards, tokens,
            evaluations, commits, lifecycle_events, clocks>>

-----------------------------------------------------------------------------
(* Reads *)

\* read(): the accepted state is the last commit, revision 0 before any
CurrentRevision == Len(commits)

\* pending(): operations that are neither completed nor failed
Pending == {o \in Op : stage[o] \in Unfinished}

RequireOpen == outcome = NoOutcome

\* Mutant: the outcome is not looked at before new work
RequireTimeOnly == ~behind /\ ~expired

\* seconds_remaining and last_clock, checked before new work is authorised
RequireTime == RequireOpen /\ ~behind /\ ~expired

\* Mutant: unfinished operations do not refuse a new one
CheckReadyOpen == RequireOpen

\* check_ready(): the run is open and nothing waits for a recovery
CheckReady == RequireOpen /\ Pending = {}

Limit(kind) == CASE kind = "inference" -> InferenceCalls
                 [] kind = "tool"      -> ToolCalls
                 [] kind = "external"  -> ExternalActions

Reserved(kind) == {o \in Op : <<o, kind>> \in reservations}

\* Mutant: a failed operation gives its reservations back
RemainingRefunded(kind) ==
    Limit(kind) - Cardinality({o \in Reserved(kind) : stage[o] # "failed"})

Remaining(kind) == Limit(kind) - Cardinality(Reserved(kind))

\* the newest returned output of an operation dispatched as an observation
Observed == {o \in Op : observation[o] /\ output[o] # NoOutput}

IsLatest(o) == o \in Observed /\ \A p \in Observed : p <= o

LatestObservation ==
    IF \E o \in Op : IsLatest(o) THEN output[CHOOSE o \in Op : IsLatest(o)] ELSE NoOutput

CompletedOperations == Cardinality({o \in Op : stage[o] = "completed"})

-----------------------------------------------------------------------------
(* Output admission: output_budget() folds reservations against reports.   *)

Planned     == {o \in Op : output_reservations[o] # NoReservation}
Mismatched  == {o \in Planned : /\ inference_usage[o] # NoUsage
                                /\ inference_usage[o].kind # output_reservations[o].kind}
Unresolved  == {o \in Planned \ Mismatched : /\ output_reservations[o].kind = "model"
                                             /\ inference_usage[o].output = NoTokens}
Overrun     == {o \in Planned : /\ output_reservations[o].kind = "model"
                                /\ inference_usage[o].output > output_reservations[o].tokens}
Breached    == Mismatched \cup Overrun

\* a report without a count, and a missing report, spend nothing they can prove
Spending == [o \in Op |->
    IF inference_usage[o].output = NoTokens THEN 0 ELSE inference_usage[o].output]
Holding  == [o \in Op |-> output_reservations[o].tokens]

Spent == SumFunctionOnSet(Spending, Planned)
Held  == SumFunctionOnSet(Holding, Mismatched \cup Unresolved)

Available == LET left == OutputTokens - Spent - Held IN IF left < 0 THEN 0 ELSE left

\* Mutant: the plan is compared with the cap and not with what is left of it
AdmitOutputUncounted(plan) ==
    IF OutputTokens = NoTokens
    THEN plan = NoReservation
    ELSE /\ plan # NoReservation
         /\ plan.kind = "model" => /\ Unresolved = {}
                                   /\ Breached = {}
                                   /\ plan.tokens <= OutputTokens

\* Mutant: missing and breached reports do not stop the next request
AdmitOutputExposed(plan) ==
    IF OutputTokens = NoTokens
    THEN plan = NoReservation
    ELSE plan # NoReservation /\ (plan.kind = "model" => plan.tokens <= Available)

\* the part of start() that decides whether the planned output may be requested
AdmitOutput(plan) ==
    IF OutputTokens = NoTokens
    THEN plan = NoReservation
    ELSE /\ plan # NoReservation
         /\ plan.kind = "model" => /\ Unresolved = {}
                                   /\ Breached = {}
                                   /\ plan.tokens <= Available

-----------------------------------------------------------------------------
(* Transactions *)

Init ==
    /\ outcome = NoOutcome
    /\ stage = [o \in Op |-> "none"]
    /\ base = [o \in Op |-> 0]
    /\ observation = [o \in Op |-> FALSE]
    /\ output = [o \in Op |-> NoOutput]
    /\ reservations = {}
    /\ guard_requirements = {}
    /\ guard_decisions = {}
    /\ output_reservations = [o \in Op |-> NoReservation]
    /\ inference_usage = [o \in Op |-> NoUsage]
    /\ evaluations = [o \in Op |-> NoEvaluation]
    /\ commits = <<>>
    /\ lifecycle_events = {}
    /\ expired = FALSE
    /\ behind = FALSE

\* the next row of operations
Fresh(o) == stage[o] = "none" /\ \A p \in 1..(o - 1) : stage[p] # "none"

CanStart(b, plan) ==
    /\ CheckReady
    /\ RequireTime
    /\ AdmitOutput(plan)
    /\ b = CurrentRevision
    /\ Remaining("inference") > 0

\* start(): admit one inference based on the accepted state
Start(o, b, plan, required) ==
    /\ Fresh(o)
    /\ CanStart(b, plan)
    /\ stage' = [stage EXCEPT ![o] = "inference"]
    /\ base' = [base EXCEPT ![o] = b]
    /\ guard_requirements' = guard_requirements \cup ({o} \X required)
    /\ reservations' = reservations \cup {<<o, "inference">>}
    /\ output_reservations' = [output_reservations EXCEPT ![o] = plan]
    /\ UNCHANGED <<outcome, observation, output, guard_decisions, inference_usage,
                   evaluations, commits, lifecycle_events, clocks>>

CanRecordUsage(o) ==
    /\ RequireOpen
    /\ stage[o] = "inference"
    /\ inference_usage[o] = NoUsage

\* record_usage(): accepted after the deadline, and before the breach it may show is raised
RecordUsage(o, usage) ==
    /\ CanRecordUsage(o)
    /\ inference_usage' = [inference_usage EXCEPT ![o] = usage]
    /\ UNCHANGED <<outcome, stage, rows, reservations, guards, output_reservations,
                   evaluations, commits, lifecycle_events, clocks>>

\* Mutant: only the kind of the report is compared with its plan
BreachesKind(o, usage) ==
    output_reservations[o] # NoReservation /\ usage.kind # output_reservations[o].kind

\* the report contradicts the plan: record_usage() raises after its transaction
BreachesPlan(o, usage) ==
    /\ output_reservations[o] # NoReservation
    /\ \/ usage.kind # output_reservations[o].kind
       \/ usage.output > output_reservations[o].tokens

CanPropose(o) == RequireOpen /\ stage[o] = "inference"

\* proposed(): keep the tool call the model returned
Proposed(o) ==
    /\ CanPropose(o)
    /\ stage' = [stage EXCEPT ![o] = "proposed"]
    /\ UNCHANGED <<outcome, rows, reservations, guards, tokens,
                   evaluations, commits, lifecycle_events, clocks>>

CanRecordGuard(o, g) ==
    /\ RequireOpen
    /\ stage[o] = "proposed"
    /\ <<o, g>> \in guard_requirements
    /\ \A d \in BOOLEAN : <<o, g, d>> \notin guard_decisions

\* record_guard(): one decision for each required guard, never replaced
RecordGuard(o, g, allowed) ==
    /\ CanRecordGuard(o, g)
    /\ guard_decisions' = guard_decisions \cup {<<o, g, allowed>>}
    /\ UNCHANGED <<outcome, stage, rows, reservations, guard_requirements, tokens,
                   evaluations, commits, lifecycle_events, clocks>>

CanRecordEvent(o) == RequireOpen /\ stage[o] # "none"

\* record_event(): a fact about an operation of an open run
RecordEvent(o, event) ==
    /\ CanRecordEvent(o)
    /\ lifecycle_events' = lifecycle_events \cup {<<o, event>>}
    /\ UNCHANGED <<outcome, stage, rows, reservations, guards, tokens,
                   evaluations, commits, clocks>>

\* Mutant: a guard that was not asked does not refuse
GuardsSilent(o) ==
    \A g \in Guard : <<o, g>> \in guard_requirements => <<o, g, FALSE>> \notin guard_decisions

GuardsAllow(o) ==
    \A g \in Guard : <<o, g>> \in guard_requirements => <<o, g, TRUE>> \in guard_decisions

CanDispatch(o, external) ==
    /\ RequireTime
    /\ stage[o] = "proposed"
    /\ GuardsAllow(o)
    /\ Remaining("tool") > 0
    /\ external => Remaining("external") > 0

\* Mutant: when the external action is refused, the tool reservation is not rolled back
DispatchTorn(o, observes, external) ==
    /\ CanDispatch(o, FALSE)
    /\ LET granted == external => Remaining("external") > 0 IN
       /\ reservations' = reservations \cup {<<o, "tool">>}
                              \cup (IF external /\ granted THEN {<<o, "external">>} ELSE {})
       /\ stage' = IF granted THEN [stage EXCEPT ![o] = "dispatched"] ELSE stage
       /\ observation' = IF granted THEN [observation EXCEPT ![o] = observes] ELSE observation
    /\ UNCHANGED <<outcome, base, output, guards, tokens,
                   evaluations, commits, lifecycle_events, clocks>>

\* dispatch(): authorise the effect before it happens.  The tool is reserved before the
\* external action; when that is refused the transaction rolls both back, which the guard
\* says at once.
Dispatch(o, observes, external) ==
    /\ CanDispatch(o, external)
    /\ reservations' = reservations \cup {<<o, "tool">>}
                                    \cup (IF external THEN {<<o, "external">>} ELSE {})
    /\ stage' = [stage EXCEPT ![o] = "dispatched"]
    /\ observation' = [observation EXCEPT ![o] = observes]
    /\ UNCHANGED <<outcome, base, output, guards, tokens,
                   evaluations, commits, lifecycle_events, clocks>>

\* returned(): evidence of an authorised effect, kept even when the run has ended
Returned(o, result) ==
    /\ stage[o] = "dispatched"
    /\ stage' = [stage EXCEPT ![o] = "returned"]
    /\ output' = [output EXCEPT ![o] = result]
    /\ UNCHANGED <<outcome, base, observation, reservations, guards, tokens,
                   evaluations, commits, lifecycle_events, clocks>>

\* check_evaluation(): the evaluation names the exact candidate of the journal
BindsCandidate(o, evaluation) ==
    evaluation.base = base[o] /\ evaluation.output = output[o]

\* a satisfied evaluation that carries a state update is published
Publishes(evaluation) == evaluation.satisfied /\ evaluation.update

\* Mutant: any evaluation of the right base is accepted
CanCompleteUnbound(o, evaluation) ==
    RequireTime /\ stage[o] = "returned" /\ base[o] = CurrentRevision /\ evaluation.base = base[o]

\* Mutant: an operation that was completed meanwhile is completed again
CanCompleteAgain(o, evaluation) ==
    /\ RequireTime
    /\ stage[o] \in {"returned", "completed"}
    /\ BindsCandidate(o, evaluation)
    /\ base[o] = CurrentRevision

CanComplete(o, evaluation) ==
    /\ RequireTime
    /\ stage[o] = "returned"
    /\ BindsCandidate(o, evaluation)
    /\ base[o] = CurrentRevision

\* complete(): record the evaluation and publish what it accepts
Complete(o, evaluation) ==
    /\ CanComplete(o, evaluation)
    /\ evaluations' = [evaluations EXCEPT ![o] = evaluation]
    /\ commits' = IF Publishes(evaluation)
                  THEN Append(commits, [operation |-> o, base |-> base[o]])
                  ELSE commits
    /\ stage' = [stage EXCEPT ![o] = "completed"]
    /\ UNCHANGED <<outcome, rows, reservations, guards, tokens, lifecycle_events, clocks>>

\* Mutant: a failure closes the operation whatever its stage
FailedForgetsEffect(o) ==
    /\ stage[o] # "none"
    /\ stage' = [stage EXCEPT ![o] = IF @ \in Unfinished THEN "failed" ELSE @]
    /\ UNCHANGED <<outcome, rows, reservations, guards, tokens,
                   evaluations, commits, lifecycle_events, clocks>>

\* Mutant: a stage outside the CHECK constraint of the table
FailedMisspelt(o) ==
    /\ stage[o] # "none"
    /\ stage' = [stage EXCEPT ![o] = IF @ \in Undispatched THEN "error" ELSE @]
    /\ UNCHANGED <<outcome, rows, reservations, guards, tokens,
                   evaluations, commits, lifecycle_events, clocks>>

\* failed(): close an undispatched operation, else only note the error
Failed(o) ==
    /\ stage[o] # "none"
    /\ stage' = [stage EXCEPT ![o] = IF @ \in Undispatched THEN "failed" ELSE @]
    /\ UNCHANGED <<outcome, rows, reservations, guards, tokens,
                   evaluations, commits, lifecycle_events, clocks>>

\* Mutant: recovery gives up an operation whose effect is unknown
AbandonUnreturned(o) ==
    /\ RequireOpen
    /\ stage[o] \in Undispatched \cup {"dispatched"}
    /\ stage' = [stage EXCEPT ![o] = "failed"]
    /\ UNCHANGED <<outcome, rows, reservations, guards, tokens,
                   evaluations, commits, lifecycle_events, clocks>>

\* abandon_undispatched(): recovery closes an attempt that had no effect
AbandonUndispatched(o) ==
    /\ RequireOpen
    /\ stage[o] \in Undispatched
    /\ stage' = [stage EXCEPT ![o] = "failed"]
    /\ UNCHANGED <<outcome, rows, reservations, guards, tokens,
                   evaluations, commits, lifecycle_events, clocks>>

\* finish(): the application ends the run once, at any moment
Finish(value) ==
    /\ RequireOpen
    /\ outcome' = value
    /\ UNCHANGED <<stage, rows, reservations, guards, tokens,
                   evaluations, commits, lifecycle_events, clocks>>

\* time passes the deadline, or the wall clock is set back or forth
Tick ==
    /\ \/ WallLimited /\ ~expired /\ expired' = TRUE /\ UNCHANGED behind
       \/ behind' = ~behind /\ UNCHANGED expired
    /\ UNCHANGED <<outcome, stage, rows, reservations, guards, tokens,
                   evaluations, commits, lifecycle_events>>

\* close or crash, then open(): the tables survive, the deadline is derived again
\* and a wall clock behind last_clock keeps the journal closed
Reopen ==
    /\ behind' = FALSE
    /\ expired' \in {FALSE, WallLimited}
    /\ UNCHANGED <<outcome, stage, rows, reservations, guards, tokens,
                   evaluations, commits, lifecycle_events>>

Next ==
    \/ \E o \in Op :
          \/ \E b \in Revision, plan \in Plans \cup {NoReservation},
                required \in SUBSET Guard : Start(o, b, plan, required)
          \/ \E usage \in Reports : RecordUsage(o, usage)
          \/ Proposed(o)
          \/ \E g \in Guard, allowed \in BOOLEAN : RecordGuard(o, g, allowed)
          \/ \E event \in EventStage : RecordEvent(o, event)
          \/ \E observes, external \in BOOLEAN : Dispatch(o, observes, external)
          \/ \E result \in Output : Returned(o, result)
          \/ \E evaluation \in Evaluation : Complete(o, evaluation)
          \/ Failed(o)
          \/ AbandonUndispatched(o)
    \/ \E value \in Outcome : Finish(value)
    \/ Tick
    \/ Reopen

Spec == Init /\ [][Next]_vars
-----------------------------------------------------------------------------
(* Properties *)

TypeOK ==
    /\ outcome \in Outcome \cup {NoOutcome}
    /\ stage \in [Op -> Stage \cup {"none"}]
    /\ base \in [Op -> Revision]
    /\ observation \in [Op -> BOOLEAN]
    /\ output \in [Op -> Output \cup {NoOutput}]
    /\ reservations \subseteq Op \X Kind
    /\ guard_requirements \subseteq Op \X Guard
    /\ guard_decisions \subseteq Op \X Guard \X BOOLEAN
    /\ output_reservations \in [Op -> Plans \cup {NoReservation}]
    /\ inference_usage \in [Op -> Reports \cup {NoUsage}]
    /\ evaluations \in [Op -> Evaluation \cup {NoEvaluation}]
    /\ commits \in Seq([operation : Op, base : Revision])
    /\ lifecycle_events \subseteq Op \X EventStage
    /\ expired \in BOOLEAN
    /\ behind \in BOOLEAN

\* Every operation before an existing one is finished: check_ready() serialises a run
\* whatever its clients do, so at most the newest row is unfinished.
OneAtATime ==
    \A o \in Op : stage[o] # "none" =>
       \A p \in 1..(o - 1) : stage[p] \in {"completed", "failed"}

\* The stale-base refusal of complete() never fires: between start() and complete() of
\* an operation nothing else can publish, across failures, recoveries and restarts.
PendingBaseCurrent ==
    \A o \in Pending : base[o] = CurrentRevision

\* The history of accepted states: revision r was published on top of r - 1, by a later
\* operation than r - 1 was, and only by a completed one whose satisfied evaluation
\* names the durable candidate; and no such evaluation is left unpublished.
CommitChain ==
    /\ \A r \in 1..Len(commits) :
          LET o == commits[r].operation IN
          /\ commits[r].base = r - 1
          /\ stage[o] = "completed"
          /\ Publishes(evaluations[o])
          /\ BindsCandidate(o, evaluations[o])
          /\ base[o] = r - 1
          /\ r > 1 => commits[r - 1].operation < o
    /\ \A o \in Op : Publishes(evaluations[o]) =>
          \E r \in 1..Len(commits) : commits[r].operation = o

\* dispatch() and start() leave no half-made reservation: an operation holds a tool
\* reservation exactly when its effect was authorised, an external one only with it,
\* and abandoning, failing or reopening gives none of them back.
ReservationsFollowStage ==
    \A o \in Op :
       /\ <<o, "inference">> \in reservations <=> stage[o] # "none"
       /\ <<o, "tool">> \in reservations <=> stage[o] \in {"dispatched", "returned", "completed"}
       /\ <<o, "external">> \in reservations => <<o, "tool">> \in reservations

\* No sequence of calls, failures and restarts authorises more inferences, tool calls
\* or external actions than RunLimits allows.
BudgetRespected ==
    \A kind \in Kind : Cardinality(Reserved(kind)) <= Limit(kind)

\* Every effect was authorised by all the guards its operation had to pass, and no
\* guard's refusal stands beside its permission.
GuardedDispatch ==
    \A o \in Op : <<o, "tool">> \in reservations =>
       \A g \in Guard : <<o, g>> \in guard_requirements =>
          <<o, g, TRUE>> \in guard_decisions /\ <<o, g, FALSE>> \notin guard_decisions

\* While every adapter keeps its promised ceiling, what was spent and what is held for
\* missing reports never exceeds the run's output budget.
OutputBounded ==
    OutputTokens # NoTokens /\ Breached = {} => Spent + Held <= OutputTokens

\* After an unreported or breached output no operation reserves model output again: a
\* report cannot arrive late, so the exposure of the run stays at one request.
NoModelRequestAfterExposure ==
    \A o \in Unresolved \cup Breached, p \in Op :
       p > o => output_reservations[p].kind # "model"

\* the observations that return in a step
Returning ==
    {o \in Op : stage[o] = "dispatched" /\ stage'[o] = "returned" /\ observation[o]}

\* The observation shown to the model is always the last one that returned: rows are
\* ordered by their start, and a return replaces the observation of every earlier return.
ObservationIsLastReturned ==
    [][IF Returning = {} THEN LatestObservation' = LatestObservation
       ELSE \E o \in Returning : LatestObservation' = output'[o]]_vars

\* An authorised effect is never forgotten: its operation leaves "dispatched" only with
\* its output, leaves "returned" only evaluated, and finished operations stay finished.
EffectNeverForgotten ==
    [][\A o \in Op :
          /\ stage[o] = "dispatched" => stage'[o] \in {"dispatched", "returned"}
          /\ stage[o] = "returned" => stage'[o] \in {"returned", "completed"}
          /\ stage[o] \in {"completed", "failed"} => stage'[o] = stage[o]]_vars

\* While the result of an effect is unknown nothing new is authorised or published.
UnknownEffectBlocks ==
    [][(\E o \in Op : stage[o] = "dispatched") =>
          UNCHANGED <<reservations, output_reservations, commits>>]_vars

\* An ended run only accepts the evidence of an effect already authorised, and the
\* failure of an attempt that had none.
TerminalFrozen ==
    [][outcome # NoOutcome =>
          /\ UNCHANGED <<outcome, reservations, guards, tokens, evaluations, commits,
                         lifecycle_events>>
          /\ \A o \in Op : stage'[o] # stage[o] =>
                \/ stage[o] = "dispatched" /\ stage'[o] = "returned"
                \/ stage[o] \in Undispatched /\ stage'[o] = "failed"]_vars
-----------------------------------------------------------------------------
(* The promise this journal implements *)

\* what the pending operation is waiting for
Phase ==
    IF \E o \in Op : stage[o] \in Undispatched THEN "attempt"
    ELSE IF \E o \in Op : stage[o] = "dispatched" THEN "unknown"
    ELSE IF \E o \in Op : stage[o] = "returned" THEN "evidence"
    ELSE "idle"

Promise == INSTANCE AbstractRun WITH
    AttemptLimit <- InferenceCalls,
    EffectLimit  <- ToolCalls,
    phase        <- Phase,
    attempts     <- Cardinality(Reserved("inference")),
    effects      <- Cardinality(Reserved("tool")),
    revision     <- CurrentRevision,
    ended        <- outcome # NoOutcome

\* Every transaction of the journal is a step of the promised run or leaves it alone.
ImplementsPromise == Promise!Spec
=============================================================================
