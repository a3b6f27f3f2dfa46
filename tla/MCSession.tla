----------------------------- MODULE MCSession -----------------------------
(* Instances of Session for TLC.                                           *)
EXTENDS Session

CONSTANTS a, g1, g2, done, null, r1, r2

OneOutput   == {a}
OneRuntime  == {r1}
Both        == {r1, r2}
AskNone     == <<>>
TwoGuards   == {g1, g2}
AskTwo      == <<g1, g2>>
OneError    == {"Failure"}
AnyError    == {"Failure", "BudgetExhausted"}
Nothing     == {}
Uncapped    == NoTokens
ScriptedUse == [kind |-> "scripted", output |-> NoTokens]
OneReport   == {ScriptedUse}
OnePlan     == {[kind |-> "model", tokens |-> 1]}
TwoReports  == {[kind |-> "model", output |-> 1], [kind |-> "model", output |-> 2]}
Events      == {"started", "inference_returned", "guard_allowed", "guard_denied",
                "tool_dispatched", "tool_returned", "committed", "observed",
                "effect_unknown", "failed"}
Outcomes    == Termination \cup {done}
=============================================================================
