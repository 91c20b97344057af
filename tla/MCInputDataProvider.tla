------------------------ MODULE MCInputDataProvider ------------------------
(* InputDataProvider for TLC: two job consumers.                           *)
EXTENDS InputDataProvider

CONSTANTS p1, p2
=============================================================================
