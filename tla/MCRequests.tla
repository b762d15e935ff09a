----------------------------- MODULE MCRequests -----------------------------
(* Instances of Requests for TLC.                                           *)
EXTENDS Requests, TLC

CONSTANTS w1, w2, none

OneWire == {w1}
TwoWires == {w1, w2}

EveryKind == AllKinds
=============================================================================
