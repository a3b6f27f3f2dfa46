--------------------------- MODULE AbstractLease ---------------------------
(***************************************************************************)
(* What ownership promises a run, with no file, no lock and no objects:    *)
(* the path is claimed once, for a run that is made once, with a deadline  *)
(* that never moves, or for none ever; one process may write the run, and  *)
(* another may only after that one cannot any more; and only a writer      *)
(* works, never after the deadline of clocks that nobody set.              *)
(*                                                                         *)
(*     free -> claimed -> made                                             *)
(*                    \-> void                                             *)
(***************************************************************************)
EXTENDS Integers

CONSTANTS Proc, WallTime

VARIABLES
    path,      \* free, claimed for a run, with the run made, or void
    deadline,  \* when its wall time is over
    writers,   \* the processes that may write it
    now,       \* the time that passes
    honest,    \* nobody has set a clock
    worked     \* when work was last authorised

vars == <<path, deadline, writers, now, honest, worked>>

Init ==
    /\ path = "free"
    /\ deadline = 0
    /\ writers = {}
    /\ now = 0
    /\ honest = TRUE
    /\ worked = -1

\* the first to ask for the path gets it
Claim ==
    /\ path = "free"
    /\ path' = "claimed"
    /\ UNCHANGED <<deadline, writers, now, honest, worked>>

\* the run is made, and its wall time begins
Make ==
    /\ path = "claimed"
    /\ path' = "made"
    /\ deadline' \in Nat
    /\ honest => deadline' = now + WallTime
    /\ UNCHANGED <<writers, now, honest, worked>>

\* whoever claimed the path gives up or dies: no run is ever made there
Abandon ==
    /\ path = "claimed"
    /\ path' = "void"
    /\ UNCHANGED <<deadline, writers, now, honest, worked>>

\* a process takes the run up that nobody may write
Acquire ==
    /\ path = "made"
    /\ writers = {}
    /\ \E p \in Proc : writers' = {p}
    /\ UNCHANGED <<path, deadline, now, honest, worked>>

\* the writer closes the run, or dies
Release ==
    /\ writers # {}
    /\ writers' = {}
    /\ UNCHANGED <<path, deadline, now, honest, worked>>

\* the writer authorises an operation, an effect or a publication
Work ==
    /\ writers # {}
    /\ honest => now < deadline
    /\ worked' = now
    /\ UNCHANGED <<path, deadline, writers, now, honest>>

Pass ==
    /\ now' = now + 1
    /\ UNCHANGED <<path, deadline, writers, honest, worked>>

SetClock ==
    /\ honest' = FALSE
    /\ UNCHANGED <<path, deadline, writers, now, worked>>

Next == Claim \/ Make \/ Abandon \/ Acquire \/ Release \/ Work \/ Pass \/ SetClock

Spec == Init /\ [][Next]_vars
=============================================================================
