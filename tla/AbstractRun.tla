---------------------------- MODULE AbstractRun ----------------------------
(***************************************************************************)
(* What a run promises its application, with no journal, no operations and *)
(* no clock: one attempt at a time; an effect happens at most once for an  *)
(* attempt, and within the budget; once it may have happened the run waits *)
(* for its evidence and for nothing else; the accepted state moves by one  *)
(* revision at a time, on evidence, while the run is open; and an ended    *)
(* run can only still learn what an effect did.                            *)
(***************************************************************************)
EXTENDS Naturals

CONSTANTS AttemptLimit, EffectLimit

VARIABLES
    phase,     \* what the run is waiting for
    attempts,  \* inferences admitted
    effects,   \* effects authorised
    revision,  \* accepted states published
    ended      \* the application declared an outcome

vars == <<phase, attempts, effects, revision, ended>>

Phase == {"idle", "attempt", "unknown", "evidence"}

Init ==
    /\ phase = "idle"
    /\ attempts = 0
    /\ effects = 0
    /\ revision = 0
    /\ ended = FALSE

\* a model is asked for a proposal
Begin ==
    /\ ~ended /\ phase = "idle"
    /\ attempts < AttemptLimit
    /\ attempts' = attempts + 1
    /\ phase' = "attempt"
    /\ UNCHANGED <<effects, revision, ended>>

\* the attempt fails, or is given up by a recovery, before it had an effect
Abort ==
    /\ phase = "attempt"
    /\ phase' = "idle"
    /\ UNCHANGED <<attempts, effects, revision, ended>>

\* the proposal is authorised: from here on its effect may have happened
Act ==
    /\ ~ended /\ phase = "attempt"
    /\ effects < EffectLimit
    /\ effects' = effects + 1
    /\ phase' = "unknown"
    /\ UNCHANGED <<attempts, revision, ended>>

\* the effect's output is known
Learn ==
    /\ phase = "unknown"
    /\ phase' = "evidence"
    /\ UNCHANGED <<attempts, effects, revision, ended>>

\* the evidence is evaluated and perhaps moves the accepted state
Judge ==
    /\ ~ended /\ phase = "evidence"
    /\ revision' \in {revision, revision + 1}
    /\ phase' = "idle"
    /\ UNCHANGED <<attempts, effects, ended>>

\* the application ends the run, whatever it is waiting for
End ==
    /\ ~ended
    /\ ended' = TRUE
    /\ UNCHANGED <<phase, attempts, effects, revision>>

Next == Begin \/ Abort \/ Act \/ Learn \/ Judge \/ End

Spec == Init /\ [][Next]_vars
=============================================================================
