-------------------------- MODULE MCInstalledIndex --------------------------
(* Instances of InstalledIndex for TLC.                                     *)
EXTENDS InstalledIndex

CONSTANTS f, g, t1, t2

TwoFiles == {f, g}
BothWatchers == BOOLEAN
TwoThreads == {t1, t2}
=============================================================================
