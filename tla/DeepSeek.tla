------------------------------ MODULE DeepSeek ------------------------------
(***************************************************************************)
(* The adapters of one inference: DeepSeekAdapter of deepseek.py, and      *)
(* ScriptedAdapter of inference.py, which answers without a wait.          *)
(*                                                                         *)
(* generate() posts one request and waits.  Its own timeout, the           *)
(* cancellation of its task and the answer of the provider race: each may  *)
(* come while another is already on its way to the task.  On every path    *)
(* out, the finally clause of _generate() makes one usage report, which    *)
(* the caller must get with the call or with the exception.                *)
(*                                                                         *)
(* A response is what is left of it after the checks of _generate(): an    *)
(* HTTP status other than 200, no JSON object, an object that breaks the   *)
(* contract of one complete tool call, a body or arguments nested deeper   *)
(* than json.loads() follows, or the name in a complete call.              *)
(***************************************************************************)
EXTENDS Integers

CONSTANTS
    Name,       \* tool names
    NoName,     \* no tool
    MaxTokens,  \* max_tokens of the adapter
    Counts      \* bound: completion tokens a response may report

Unknown == -1  \* None: no ceiling, no plan, no count

ASSUME CountAssumption == MaxTokens \in Nat \ {0} /\ Counts \subseteq Nat

\* what counts of an InferenceRequest: the tools the model may call, the tools that are
\* specified, its output ceiling, and whether its images and schemas are acceptable
InferenceRequest == [allowed : SUBSET Name, tools : SUBSET Name,
                     ceiling : Nat \cup {Unknown}, proper : BOOLEAN]

Unread == {"http_error", "not_object", "deep_body"}
Flaw   == Unread \cup {"no_contract", "deep_arguments"}

\* a name is a name, and no tool is called like what is wrong with a response
ASSUME NameAssumption == Name \cap ({NoName, "none"} \cup Flaw) = {}

Response   == [body : Flaw \cup Name, output : Counts \cup {Unknown}]
NoResponse == [body |-> "none", output |-> Unknown]

InferenceUsage == [started : BOOLEAN, output : Counts \cup {0, Unknown}]
NoReport       == [started |-> FALSE, output |-> Unknown]

VARIABLES
    generating,  \* what generate() does: idle, posting, returned
    max_tokens,  \* the output limit in the payload
    wire,        \* history: the request has left for the provider
    response,    \* what the provider answered
    pending,     \* the timeout and the cancellation that are on their way to the task
    report,      \* the usage report of the finally clause
    outcome_of,  \* how generate() ended: "call", or the exception it raised
    named        \* the tool of the call it returned

adapterVars == <<generating, max_tokens, wire, response, pending, report, outcome_of, named>>

Raised == {"ProviderError", "ProviderResponseRejected", "InferenceCancelled",
           "InferenceFailure", "RuntimeError", "RecursionError"}

AdapterInit ==
    /\ generating = "idle" /\ max_tokens = Unknown /\ wire = FALSE /\ response = NoResponse
    /\ pending = {} /\ report = NoReport /\ outcome_of = "none" /\ named = NoName

-----------------------------------------------------------------------------
(* Output limits *)

Smaller(m, n) == IF m < n THEN m ELSE n

\* _output_limit() of a request whose ceiling it accepts
OutputLimit(request) ==
    IF request.ceiling = Unknown THEN MaxTokens ELSE Smaller(MaxTokens, request.ceiling)

\* plan_output(): raises without output left, or for a ceiling that is not positive
CanPlan(request, available) == available > 0 /\ request.ceiling # 0

PlanOutput(request, available) == Smaller(available, OutputLimit(request))

\* _payload() accepts the request
Payable(request) ==
    /\ request.proper
    /\ request.allowed # {} /\ request.allowed \subseteq request.tools
    /\ request.ceiling # 0

-----------------------------------------------------------------------------
(* generate() *)

\* the finally clause: one report, and the trace sink, whose exception replaces whatever
\* the call would have ended with
Reports(started, output, how, name) ==
    /\ generating' = "returned"
    /\ report' = [started |-> started, output |-> output]
    /\ \/ outcome_of' = how /\ named' = name
       \/ outcome_of' = "InferenceFailure" /\ named' = NoName

\* the payload is refused and nothing is sent; a closed client raises at once; or the
\* request is posted
Generate(request) ==
    /\ generating = "idle"
    /\ UNCHANGED <<wire, response, pending>>
    /\ IF ~Payable(request) THEN Reports(FALSE, 0, "ProviderError", NoName) /\ UNCHANGED max_tokens
       ELSE /\ max_tokens' = OutputLimit(request)
            /\ \/ Reports(TRUE, Unknown, "RuntimeError", NoName)
               \/ generating' = "posting" /\ UNCHANGED <<report, outcome_of, named>>

\* generate() of ScriptedAdapter: the next call of the script, or none is left
GenerateScripted ==
    /\ generating = "idle"
    /\ generating' = "returned"
    /\ report' = [started |-> FALSE, output |-> 0]
    /\ \/ outcome_of' = "call" /\ named' \in Name
       \/ outcome_of' = "InferenceFailure" /\ UNCHANGED named
    /\ UNCHANGED <<max_tokens, wire, response, pending>>

\* the connection stands and the request goes out
Sends ==
    /\ generating = "posting" /\ ~wire /\ wire' = TRUE
    /\ UNCHANGED <<generating, max_tokens, response, pending, report, outcome_of, named>>

Answers(r) ==
    /\ generating = "posting" /\ wire /\ response = NoResponse
    /\ response' = r
    /\ UNCHANGED <<generating, max_tokens, wire, pending, report, outcome_of, named>>

\* asyncio.timeout() of the adapter fires, or somebody cancels the task
Interrupts(how) ==
    /\ generating = "posting" /\ how \notin pending
    /\ pending' = pending \cup {how}
    /\ UNCHANGED <<generating, max_tokens, wire, response, report, outcome_of, named>>

\* Mutant: an answer that is there is taken, whatever else has happened
InterruptedUnanswered == pending # {} /\ response = NoResponse

\* the cancellation of a task is thrown at its await even when the answer is there
Interrupted == pending # {}

\* Mutant: the request counts as started when its response has come
ResumeInterruptedUncounted ==
    /\ generating = "posting" /\ Interrupted
    /\ Reports(response # NoResponse, Unknown,
               IF "cancel" \in pending THEN "InferenceCancelled" ELSE "ProviderError", NoName)
    /\ UNCHANGED <<max_tokens, wire, response, pending>>

\* asyncio.timeout() makes a TimeoutError of its own cancellation and of no other's; the
\* usage in an answer that came too late is not looked at
ResumeInterrupted ==
    /\ generating = "posting" /\ Interrupted
    /\ Reports(TRUE, Unknown,
               IF "cancel" \in pending THEN "InferenceCancelled" ELSE "ProviderError", NoName)
    /\ UNCHANGED <<max_tokens, wire, response, pending>>

\* the transport fails, ahead of the request or behind it
TransportFails ==
    /\ generating = "posting" /\ pending = {} /\ response = NoResponse
    /\ Reports(TRUE, Unknown, "ProviderError", NoName)
    /\ UNCHANGED <<max_tokens, wire, response, pending>>

\* the usage of an object counts, also when the object is rejected
ResponseUsage == IF response.body \in Unread THEN Unknown ELSE response.output

\* json.loads() gives up on deep nesting with an error that no handler here expects
ResumeAnswered(request) ==
    /\ generating = "posting" /\ response # NoResponse /\ ~Interrupted
    /\ UNCHANGED <<max_tokens, wire, response, pending>>
    /\ \/ response.body = "http_error" /\ Reports(TRUE, Unknown, "ProviderError", NoName)
       \/ /\ response.body \in {"deep_body", "deep_arguments"}
          /\ Reports(TRUE, ResponseUsage, "RecursionError", NoName)
       \/ /\ response.body \in {"not_object", "no_contract"} \cup (Name \ request.allowed)
          /\ Reports(TRUE, ResponseUsage, "ProviderResponseRejected", NoName)
       \/ /\ response.body \in request.allowed
          /\ Reports(TRUE, ResponseUsage, "call", response.body)
=============================================================================
