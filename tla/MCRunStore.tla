---------------------------- MODULE MCRunStore ----------------------------
(* Instances of RunStore for TLC: the constants of its runs.               *)
EXTENDS Accounting

CONSTANTS a, b, g1, done, null

OneOutput  == {a}
TwoOutputs == {a, b}
OneGuard   == {g1}
Outcomes   == {done}
Uncapped   == NoTokens
Nothing    == {}

Scripted     == [kind |-> "scripted", tokens |-> 0]
ScriptedUse  == [kind |-> "scripted", output |-> NoTokens]
ModelPlan(n) == [kind |-> "model", tokens |-> n]
ModelUse(n)  == [kind |-> "model", output |-> n]

\* plans within and beyond the cap, reports below, at and above their plan, and no count
SomePlans   == {Scripted, ModelPlan(1), ModelPlan(2), ModelPlan(4)}
SomeReports == {ScriptedUse, ModelUse(NoTokens), ModelUse(0), ModelUse(1), ModelUse(3)}
=============================================================================
