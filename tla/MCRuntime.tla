----------------------------- MODULE MCRuntime -----------------------------
(* Instances of Runtime for TLC.                                           *)
EXTENDS Runtime, TLC

CONSTANTS a, g1, done, null, r1, r2

OneOutput  == {a}
OneRuntime == {r1}
Both       == {r1, r2}
Symmetry   == Permutations(Both)
OneGuard   == {g1}
AskOne     == <<g1>>
OneError   == {"Failure"}
Nothing    == {}
AskNone    == <<>>
Outcomes   == {done}
Uncapped   == NoTokens
Events     == {"started", "inference_returned", "guard_allowed", "guard_denied",
               "tool_dispatched", "tool_returned", "committed", "observed",
               "effect_unknown", "failed"}

ScriptedUse == [kind |-> "scripted", output |-> NoTokens]
OneReport   == {ScriptedUse}
=============================================================================
