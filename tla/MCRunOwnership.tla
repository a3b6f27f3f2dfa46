--------------------------- MODULE MCRunOwnership ---------------------------
(* Instances of RunOwnership for TLC.                                      *)
EXTENDS RunOwnership

CONSTANTS p1, p2

Two == {p1, p2}
=============================================================================
