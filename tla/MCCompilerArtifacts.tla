------------------------- MODULE MCCompilerArtifacts -------------------------
(* Instances of CompilerArtifacts for TLC: a document a, whose artifact x   *)
(* includes z, and another one, b, whose artifact z is.  Either may be      *)
(* renamed to c.                                                            *)
EXTENDS CompilerArtifacts

CONSTANTS a, b, c, x, z

ThreeSources == {a, b, c}
TwoSources == {a, b}
OneOpen == {{a}, {b}, {c}}
TwoArtifacts == {x, z}
OwnArtifact == [s \in ThreeSources |-> IF s = a THEN {x} ELSE {z}]
IncludedArtifact == [p \in TwoArtifacts |-> IF p = x THEN {z} ELSE {}]
TwoDocuments == [s \in ThreeSources |-> IF s = a THEN 1 ELSE 2]
=============================================================================
