-------------------------- MODULE MCClientRequests --------------------------
(* Instances of ClientRequests for TLC.                                     *)
EXTENDS ClientRequests

CONSTANTS root, folding, hints, everything

OneRoot == {root}
Workload(r, l, c) == [refreshes |-> r, loads |-> l, changes |-> c]
FewOfEach == 
  {Workload(3, 0, 0), Workload(0, 3, 0), Workload(0, 0, 2),
   Workload(1, 1, 0), Workload(1, 0, 1), Workload(0, 1, 1)}
TwoFeatures == {folding, hints}
=============================================================================
