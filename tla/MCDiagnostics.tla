--------------------------- MODULE MCDiagnostics ---------------------------
(* Instances of Diagnostics for TLC.                                        *)
EXTENDS Diagnostics

CONSTANTS a, b, s, t

OneDocument == {a}
TwoDocuments == {a, b}

OneText == {s}
TwoTexts == {s, t}

Symmetric == Permutations({a, b}) \cup Permutations({s, t})
=============================================================================
