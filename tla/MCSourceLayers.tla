--------------------------- MODULE MCSourceLayers ---------------------------
(* Instances of SourceLayers for TLC.                                       *)
EXTENDS SourceLayers, TLC

CONSTANTS a, b, p1, p2, d, e, u, v

OnePath == {a}
TwoPaths == {a, b}
TwoProjects == {p1, p2}
OneText == {d}
TwoTexts == {d, e}
OneDraft == {u}
TwoDrafts == {u, v}

Move(olds, from, before, after) ==
  [olds |-> olds, news |-> DOMAIN from, from |-> from, before |-> before, after |-> after]

NoMoves == {}

(* A move between the projects, a swap of two sources that changes their    *)
(* projects, and two sources moved to one path.                             *)
Moves ==
  {Move({a}, b :> a, b :> p1, b :> p2),
   Move({a}, b :> a, b :> p1, b :> p1),
   Move({a, b}, (a :> b) @@ (b :> a), (a :> p2) @@ (b :> p1), (a :> p1) @@ (b :> p2)),
   Move({a, b}, a :> b, a :> p1, a :> p1)}

Symmetric == Permutations(TwoDrafts) \cup Permutations(TwoTexts)
=============================================================================
