----------------------------- MODULE MCBeside -----------------------------
(* The parts that share no variable with the journal or with each other,   *)
(* for TLC: one run explores them side by side, and at a time only one of  *)
(* them is away from its initial state, so that their states add up.       *)
EXTENDS ProgramWorker, Fetch, Proposal, ContextCompiler

CONSTANTS u1, u2, alien, t1, t2

Origins      == {u1, u2, alien}
TwoPermitted == {u1, u2}
TwoNames     == {t1, t2}
OneGranted   == {t1}
OneCount     == {1}
Limits       == {Unknown, 0, 1, 3}
SomeSizes    == {1, 4, 5}
LowHigh      == {0, 1}

besideVars == <<workerVars, fetchVars, proposalVars, contextVars>>

BesideInit == WorkerInit /\ FetchInit /\ ProposalInit /\ ContextInit

BesideNext ==
    \/ /\ FetchInit /\ ProposalInit /\ ContextInit /\ WorkerNext
       /\ UNCHANGED <<fetchVars, proposalVars, contextVars>>
    \/ /\ WorkerInit /\ ProposalInit /\ ContextInit /\ FetchNext
       /\ UNCHANGED <<workerVars, proposalVars, contextVars>>
    \/ /\ WorkerInit /\ FetchInit /\ ContextInit /\ ProposalNext
       /\ UNCHANGED <<workerVars, fetchVars, contextVars>>
    \/ /\ WorkerInit /\ FetchInit /\ ProposalInit /\ ContextNext
       /\ UNCHANGED <<workerVars, fetchVars, proposalVars>>

BesideSpec ==
    /\ BesideInit /\ [][BesideNext]_besideVars
    /\ WorkerFairness /\ FetchFairness /\ ProposalFairness

\* The state of each part has its type.
BesideTypeOK ==
    WorkerTypeOK /\ FetchTypeOK /\ ProposalTypeOK /\ ContextTypeOK

\* A program, a fetch and a step come to their end: whatever the child process, the server
\* and the provider do, and when they do nothing at all.
CallsReturn == WorkerEnds /\ FetchEnds /\ ProposalEnds
=============================================================================
