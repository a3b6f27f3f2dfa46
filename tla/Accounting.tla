----------------------------- MODULE Accounting -----------------------------
(* summarize_usage() of accounting.py: what the tables of a run say of its *)
(* use of models, derived anew at each call.  As in RunStore a report is   *)
(* its kind and its output tokens.                                         *)
EXTENDS RunStore

Operations == {o \in Op : stage[o] # "none"}
UsageOf    == {o \in Operations : inference_usage[o] # NoUsage}

Invocations         == Cardinality(Operations)
ScriptedInvocations == Cardinality({o \in UsageOf : inference_usage[o].kind = "scripted"})

UnknownUsage == {o \in UsageOf : /\ inference_usage[o].kind = "model"
                                 /\ inference_usage[o].output = NoTokens}

\* Mutant: a failed operation without a report is taken for a free one
UnreportedUnfinished == Pending \ UsageOf

Unreported == Operations \ UsageOf

KnownOutputTokens == SumFunctionOnSet(Spending, UsageOf)

UsageComplete == UnknownUsage = {} /\ Unreported = {}

\* operations with a report of a model
ModelInvocations == Cardinality({o \in UsageOf : inference_usage[o].kind = "model"})

\* The summary agrees with what admission knows of the same tables: no invocation is
\* counted twice or left out, also one that failed or crashed without a report, and a
\* summary that calls itself complete leaves no request whose output may still be owed.
UsageSummary ==
    /\ Invocations = InferenceCalls - Remaining("inference")
    /\ Invocations = ModelInvocations + ScriptedInvocations + Cardinality(Unreported)
    /\ OutputTokens # NoTokens =>
          /\ KnownOutputTokens = Spent
          /\ UsageComplete => Unresolved = {} /\ Held = SumFunctionOnSet(Holding, Mismatched)
=============================================================================
