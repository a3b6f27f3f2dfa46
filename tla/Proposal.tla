------------------------------ MODULE Proposal ------------------------------
(***************************************************************************)
(* What one step of the runtime may ask a model for, and what it may       *)
(* execute of the answer: the data that flows through Runtime._step() of   *)
(* runtime.py, ToolBroker of tools.py and the adapter.                     *)
(*                                                                         *)
(* Authority only narrows on the way: the grants of the runtime, those of  *)
(* the step, and the tools the prepare_request hook leaves.  The ceiling   *)
(* of the output narrows as well: what is left of the budget, the ceiling  *)
(* of the hook, and the limit of the adapter.  The journal of the step is  *)
(* the subject of Runtime and RunStore.                                    *)
(***************************************************************************)
EXTENDS DeepSeek

CONSTANTS
    Grants,     \* grants of the runtime
    Ceilings,   \* bound: ceilings a hook sets
    Availables  \* bound: what is left of the output budget, Unknown without one

ASSUME GrantAssumption   == Grants \subseteq Name
ASSUME CeilingAssumption == Ceilings \cup Availables \subseteq Nat \cup {Unknown}

VARIABLES
    step,        \* where _step() is
    adapter,     \* the adapter of the runtime
    registered,  \* names the broker knows
    asked,       \* grants of the step
    prepared,    \* the request as the prepare_request hook left it
    effective,   \* the local variable effective
    available,   \* output_budget().available
    planned,     \* tokens of the reservation
    recorded,    \* the usage report that was recorded
    executed     \* the tool that is dispatched

stepVars     == <<step, adapter, registered, asked, prepared, effective, available, planned,
                  recorded, executed>>
proposalVars == <<stepVars, adapterVars>>

NoRequest == [allowed |-> {}, tools |-> {}, ceiling |-> Unknown, proper |-> FALSE]

ProposalInit ==
    /\ AdapterInit
    /\ step = "idle" /\ adapter = "none" /\ registered = {} /\ asked = {}
    /\ prepared = NoRequest /\ effective = {} /\ available = Unknown /\ planned = Unknown
    /\ recorded = NoReport /\ executed = NoName

-----------------------------------------------------------------------------
(* Before the inference *)

\* specifications(): of the tools that are granted and known
Specifications(known, granted) == known \cap granted

\* what a hook may make of the request: fewer or more tools, specifications of its own
Hooked(known, granted) ==
    [allowed : SUBSET Name, tools : {Specifications(known, granted), Name},
     ceiling : Ceilings, proper : BOOLEAN]

\* Mutant: the hook narrows the request, and not what may be dispatched
EffectiveAsked(granted, request) == granted

\* the hook may narrow the authority of the step
Effective(granted, request) == request.allowed

\* Mutant: the plan is reserved, and the request goes out as the hook left it
RequestUnplanned(request, plan) == request

\* the request that is sent: specifications of what is allowed, and the planned ceiling
Request(request, plan) ==
    [request EXCEPT !.tools = @ \cap request.allowed,
                    !.ceiling = IF plan = Unknown THEN @ ELSE plan]

\* a budget needs a plan, which may not exceed the ceiling of the hook
Plannable(which, request, budget, plan) ==
    IF budget = Unknown THEN plan = Unknown
    ELSE IF which = "scripted" THEN plan = 0
    ELSE /\ CanPlan(request, budget)
         /\ plan = PlanOutput(request, budget)
         /\ request.ceiling # Unknown => plan <= request.ceiling

\* _step() up to its first await: authority, hook, plan, and start() of the run
Prepare(which, known, granted, request, budget, plan) ==
    /\ granted \subseteq Grants
    /\ request \in Hooked(known, granted) /\ request.allowed \subseteq granted
    /\ Plannable(which, request, budget, plan)
    /\ step' = "inference" /\ adapter' = which /\ registered' = known /\ asked' = granted
    /\ prepared' = request /\ effective' = Effective(granted, request)
    /\ available' = budget /\ planned' = plan
    /\ UNCHANGED <<recorded, executed, adapterVars>>

\* the grants, the request, its plan or the run are refused: there is no operation
PrepareRefused ==
    /\ step = "idle" /\ step' = "failed"
    /\ UNCHANGED <<adapter, registered, asked, prepared, effective, available, planned,
                   recorded, executed, adapterVars>>

-----------------------------------------------------------------------------
(* The inference and the call it returns *)

Infer ==
    /\ step = "inference" /\ UNCHANGED stepVars
    /\ LET request == Request(prepared, planned) IN
       \/ adapter = "scripted" /\ GenerateScripted
       \/ adapter = "deepseek" /\ (Generate(request) \/ ResumeAnswered(request))
       \/ Sends \/ ResumeInterrupted \/ TransportFails
       \/ \E how \in {"timeout", "cancel"} : Interrupts(how)

Provide == step = "inference" /\ UNCHANGED stepVars /\ \E r \in Response : Answers(r)

\* InferenceFailure and InferenceCancelled carry the report, other exceptions do not
CarriesReport == outcome_of \notin {"RuntimeError", "RecursionError"}

\* the answer of generate(): its report is recorded, the call goes on to validation
Return ==
    /\ step = "inference" /\ generating = "returned"
    /\ recorded' = (IF CarriesReport THEN report ELSE NoReport)
    /\ step' = (IF outcome_of = "call" THEN "validation" ELSE "failed")
    /\ UNCHANGED <<adapter, registered, asked, prepared, effective, available, planned,
                   executed, adapterVars>>

\* prepare() of the broker: granted, then registered, then the application's validator
Validate ==
    /\ step = "validation"
    /\ \/ /\ named \in effective \cap registered
          /\ step' = "dispatched" /\ executed' = named
       \/ step' = "failed" /\ UNCHANGED executed
    /\ UNCHANGED <<adapter, registered, asked, prepared, effective, available, planned,
                   recorded, adapterVars>>

\* the step ends; nothing of it is left for the next one
Forget ==
    /\ step \in {"failed", "dispatched"}
    /\ step' = "idle" /\ adapter' = "none" /\ registered' = {} /\ asked' = {}
    /\ prepared' = NoRequest /\ effective' = {} /\ available' = Unknown /\ planned' = Unknown
    /\ recorded' = NoReport /\ executed' = NoName
    /\ generating' = "idle" /\ max_tokens' = Unknown /\ wire' = FALSE /\ response' = NoResponse
    /\ pending' = {} /\ report' = NoReport /\ outcome_of' = "none" /\ named' = NoName

Begin ==
    /\ step = "idle"
    /\ \E which \in {"deepseek", "scripted"}, known, granted \in SUBSET Name,
          budget \in Availables, plan \in 0..MaxTokens \cup {Unknown} :
          \E request \in Hooked(known, granted) :
             Prepare(which, known, granted, request, budget, plan)

ProposalNext == Begin \/ PrepareRefused \/ Infer \/ Provide \/ Return \/ Validate \/ Forget

ProposalSpec == ProposalInit /\ [][ProposalNext]_proposalVars

\* the event loop runs the task and delivers the adapter's timeout; the provider owes nothing
ProposalFairness ==
    /\ WF_proposalVars(step = "inference" /\ UNCHANGED stepVars /\ Interrupts("timeout"))
    /\ WF_proposalVars(step = "inference" /\ UNCHANGED stepVars /\ ResumeInterrupted)
    /\ WF_proposalVars(generating = "idle" /\ Infer)
    /\ WF_proposalVars(Return \/ Validate \/ Forget)

FairProposalSpec == ProposalSpec /\ ProposalFairness

-----------------------------------------------------------------------------
(* Properties *)

ProposalTypeOK ==
    /\ step \in {"idle", "inference", "validation", "dispatched", "failed"}
    /\ adapter \in {"none", "deepseek", "scripted"} /\ registered \subseteq Name
    /\ asked \subseteq Grants /\ effective \subseteq asked /\ prepared \in InferenceRequest
    /\ available \in Nat \cup {Unknown} /\ planned \in Nat \cup {Unknown}
    /\ recorded \in InferenceUsage /\ executed \in Name \cup {NoName}
    /\ generating \in {"idle", "posting", "returned"} /\ max_tokens \in Nat \cup {Unknown}
    /\ wire \in BOOLEAN /\ response \in Response \cup {NoResponse}
    /\ pending \subseteq {"timeout", "cancel"} /\ report \in InferenceUsage
    /\ outcome_of \in Raised \cup {"none", "call"} /\ named \in Name \cup {NoName}

\* A tool is dispatched only within every grant on the way, and only when it is one the
\* model was offered, whatever the hook specified and the adapter returned.
DispatchAuthorised ==
    step = "dispatched" =>
       /\ executed \in Grants \cap asked \cap prepared.allowed \cap registered
       /\ adapter = "deepseek" => executed \in Request(prepared, planned).tools

\* The ceiling on the wire is within the adapter's limit, the hook's ceiling and what is
\* left of the budget, and never more than was reserved for it.
CeilingRespected ==
    max_tokens # Unknown =>
       /\ max_tokens \in 1..MaxTokens
       /\ prepared.ceiling # Unknown => max_tokens <= prepared.ceiling
       /\ available # Unknown => max_tokens <= available /\ max_tokens <= planned

\* Once generate() has ended, what it used is recorded on every way out: a request that
\* left is never reported as free, a count is the provider's own, and the report is lost
\* only with the error of a closed client, which sent nothing, or of a parser that gave up.
UsageAccounted ==
    step \in {"validation", "dispatched", "failed"} /\ generating = "returned" =>
       /\ \/ recorded = report
          \/ outcome_of = "RuntimeError" /\ ~wire
          \/ outcome_of = "RecursionError" /\ response.body \in {"deep_body", "deep_arguments"}
       /\ wire => report.started
       /\ report.output # Unknown => report.output = IF report.started THEN response.output ELSE 0

\* A call, a rejection or a cancellation is what generate() says it is, however its
\* timeout, the caller's cancellation and the answer interleave.
OutcomeIsTrue ==
    generating = "returned" =>
       /\ outcome_of = "call" /\ adapter = "deepseek" =>
             response.body = named /\ named \in prepared.allowed
       /\ outcome_of = "ProviderResponseRejected" =>
             response.body \notin {"none", "http_error"} \cup prepared.allowed
       /\ outcome_of = "InferenceCancelled" => "cancel" \in pending
       /\ "cancel" \in pending => outcome_of \in {"InferenceCancelled", "InferenceFailure"}

\* Every step comes to a dispatch or an end, with a provider that never answers.
ProposalEnds == step # "idle" ~> step = "idle"
=============================================================================
