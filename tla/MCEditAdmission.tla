-------------------------- MODULE MCEditAdmission --------------------------
(* Instances of EditAdmission for TLC.                                      *)
EXTENDS EditAdmission

CONSTANTS a, b

OneDocument == {a}
TwoDocuments == {a, b}

SecondChange == {2}
=============================================================================
